---------------------------- MODULE BlockWriter ----------------------------
(***************************************************************************)
(* monad-block-writer: it lays the blocks of an archive down as files, in  *)
(* `stream` mode from the block after the marker file "latest" up to the   *)
(* latest block uploaded, in `write-range` mode over a given range.  A     *)
(* block is read, encoded and written by a task of its own; at most        *)
(* Concurrency tasks run.  A file is truncated and then written, so that a *)
(* process that dies between the two leaves it cut: the marker too.        *)
(***************************************************************************)
EXTENDS Naturals, FiniteSets, FiniteSetsExt

CONSTANTS
    TopBlock,          \* bound: the last block the archive ever has
    Concurrency,       \* --concurrency
    MaxRetries,        \* --max-retries
    MaxBlocksPerIter,  \* --max-blocks-per-iter
    WriteRanges,       \* the ranges write-range is called with: <<start, stop>>
    MaxBlockFails,     \* bound: how often reading or writing a block fails
    MaxKills           \* bound: how often the process is killed, or started
                       \* again after it has ended

ASSUME BlockWriterAssumption ==
    /\ {TopBlock, MaxRetries, MaxBlockFails, MaxKills} \subseteq Nat
    /\ Concurrency \in Nat \ {0} /\ MaxBlocksPerIter \in Nat
    /\ WriteRanges \subseteq (0 .. TopBlock) \X (0 .. TopBlock)

BlockNumbers == 0 .. TopBlock

VARIABLES
    uploaded,   \* the archive's latest block uploaded
    blockFile,  \* the file of every block: "none", "cut" or "whole"
    latest,     \* the marker file: whether it is whole, and its number
    writer,     \* where the process is, the end of its range, the blocks of
                \* its attempt
    todo,       \* the blocks of this attempt that have not ended
    tasks,      \* those with a file open
    failed,     \* failed_blocks
    attempt,    \* the attempts made, this one included
    floor,      \* history: the first block the marker vouches for
    fails,      \* history: how many blocks have failed
    recut,      \* history: the blocks write-range has opened and not written
    kills       \* history: how often the process was started again

writerVars == <<uploaded, blockFile, latest, writer, todo, tasks, failed,
                attempt, floor, fails, recut, kills>>

AtLoop == [at |-> "loop", stop |-> 0, batch |-> {}]

WriterInit ==
    /\ uploaded = 0
    /\ blockFile = [b \in BlockNumbers |-> "none"]
    /\ latest = [file |-> "none", block |-> 0]
    /\ writer = AtLoop
    /\ todo = {} /\ tasks = {} /\ failed = {}
    /\ attempt = 0
    /\ floor = 0
    /\ fails = 0 /\ recut = {} /\ kills = 0

Upload ==
    /\ uploaded < TopBlock
    /\ uploaded' = uploaded + 1
    /\ UNCHANGED <<blockFile, latest, writer, todo, tasks, failed, attempt,
                   floor, fails, recut, kills>>

\* set-start-block, before the writer is started.
SetStartBlock(b) ==
    /\ latest.file = "none"
    /\ writer = AtLoop
    /\ latest' = [file |-> "whole", block |-> b]
    /\ floor' = IF b = 0 THEN 0 ELSE b + 1
    /\ UNCHANGED <<uploaded, blockFile, writer, todo, tasks, failed, attempt,
                   fails, recut, kills>>

\* A marker that is missing is opened, to be written as 0; one that is cut is
\* an error.
get_latest_block ==
    /\ writer.at = "loop"
    /\ latest.file = "none"
    /\ latest' = [file |-> "cut", block |-> 0]
    /\ writer' = [AtLoop EXCEPT !.at = "set"]
    /\ UNCHANGED <<uploaded, blockFile, todo, tasks, failed, attempt, floor,
                   fails, recut, kills>>

BeginRange(mode, start, stop) ==
    /\ writer' = [at |-> mode, stop |-> stop, batch |-> start .. stop]
    /\ todo' = start .. stop
    /\ tasks' = {} /\ failed' = {}
    /\ attempt' = 1

\* The block after the marker, or block 0 while the marker is 0.
StreamStart == IF latest.block = 0 THEN 0 ELSE latest.block + 1
StreamStop == Min({uploaded, StreamStart + MaxBlocksPerIter})

Stream ==
    /\ writer.at = "loop"
    /\ latest.file = "whole"
    /\ StreamStart < uploaded
    /\ BeginRange("stream", StreamStart, StreamStop)
    /\ UNCHANGED <<uploaded, blockFile, latest, floor, fails, recut, kills>>

\* The other mode, in the same directory or in one of its own: one range of
\* the blocks uploaded, and the process ends.
WriteRange(start, stop) ==
    /\ writer = AtLoop
    /\ start <= stop /\ stop <= uploaded
    /\ BeginRange("write_range", start, stop)
    /\ UNCHANGED <<uploaded, blockFile, latest, floor, fails, recut, kills>>

InRange == writer.at \in {"stream", "write_range"}

\* buffered(concurrency) starts the blocks in order and holds the place of a
\* block that has ended until those before it have.
Window ==
    {b \in todo : Cardinality({c \in writer.batch : c >= Min(todo) /\ c < b})
                   < Concurrency}

\* process_block: the block is read and encoded, its file opened ...
process_block(b) ==
    /\ InRange
    /\ b \in Window \ tasks
    /\ tasks' = tasks \cup {b}
    /\ blockFile' = [blockFile EXCEPT ![b] = "cut"]
    /\ recut' = IF writer.at = "write_range" THEN recut \cup {b} ELSE recut \ {b}
    /\ UNCHANGED <<uploaded, latest, writer, todo, failed, attempt, floor,
                   fails, kills>>

\* ... and written.
BlockWritten(b) ==
    /\ b \in tasks
    /\ tasks' = tasks \ {b}
    /\ todo' = todo \ {b}
    /\ blockFile' = [blockFile EXCEPT ![b] = "whole"]
    /\ recut' = recut \ {b}
    /\ UNCHANGED <<uploaded, latest, writer, failed, attempt, floor, fails,
                   kills>>

\* Reading, encoding or writing it fails, or its task panics.
BlockFailed(b) ==
    /\ InRange
    /\ fails < MaxBlockFails
    /\ b \in Window
    /\ fails' = fails + 1
    /\ tasks' = tasks \ {b}
    /\ todo' = todo \ {b}
    /\ failed' = failed \cup {b}
    /\ UNCHANGED <<uploaded, blockFile, latest, writer, attempt, floor, recut,
                   kills>>

Retry ==
    /\ InRange
    /\ todo = {} /\ failed # {}
    /\ attempt <= MaxRetries
    /\ attempt' = attempt + 1
    /\ todo' = failed
    /\ writer' = [writer EXCEPT !.batch = failed]
    /\ failed' = {}
    /\ UNCHANGED <<uploaded, blockFile, latest, tasks, floor, fails, recut, kills>>

\* The answer of write_range: the last block with none missing below it.
LastBlockOrStop == writer.stop
LastBlock ==
    IF failed = {} THEN writer.stop
    ELSE IF Min(failed) = 0 THEN 0 ELSE Min(failed) - 1

\* The range has ended; in stream mode set_latest_block opens the marker.
RangeEnds ==
    /\ InRange
    /\ todo = {}
    /\ failed = {} \/ attempt > MaxRetries
    /\ IF writer.at = "stream"
       THEN /\ writer' = [at |-> "set", stop |-> LastBlock, batch |-> {}]
            /\ latest' = [latest EXCEPT !.file = "cut"]
       ELSE /\ writer' = [AtLoop EXCEPT !.at = "exit"]
            /\ latest' = latest
    /\ failed' = {}
    /\ attempt' = 0
    /\ UNCHANGED <<uploaded, blockFile, todo, tasks, floor, fails, recut, kills>>

set_latest_block ==
    /\ writer.at = "set"
    /\ latest' = [file |-> "whole", block |-> writer.stop]
    /\ writer' = AtLoop
    /\ UNCHANGED <<uploaded, blockFile, todo, tasks, failed, attempt, floor,
                   fails, recut, kills>>

\* The process is killed, or has ended, and is started again.
Kill ==
    /\ kills < MaxKills
    /\ kills' = kills + 1
    /\ writer' = AtLoop
    /\ todo' = {} /\ tasks' = {} /\ failed' = {}
    /\ attempt' = 0
    /\ UNCHANGED <<uploaded, blockFile, latest, floor, fails, recut>>

\* The polls that find nothing to do, and the process that has ended.
Sleep ==
    /\ \/ writer.at = "exit"
       \/ writer.at = "loop" /\ latest.file = "cut"
       \/ writer.at = "loop" /\ latest.file = "whole" /\ StreamStart >= uploaded
    /\ UNCHANGED writerVars

WriterStep ==
    \/ get_latest_block
    \/ Stream
    \/ \E b \in BlockNumbers : process_block(b)
    \/ \E b \in BlockNumbers : BlockWritten(b)
    \/ Retry
    \/ RangeEnds
    \/ set_latest_block

WriterNext ==
    \/ Upload
    \/ \E b \in BlockNumbers : SetStartBlock(b)
    \/ \E range \in WriteRanges : WriteRange(range[1], range[2])
    \/ \E b \in BlockNumbers : BlockFailed(b)
    \/ WriterStep
    \/ Kill
    \/ Sleep

-----------------------------------------------------------------------------
(***************************************************************************)
(* The marker skips nothing: every block from the first it vouches for up  *)
(* to its number is on disk, whole, whichever blocks failed, were retried  *)
(* or were cut by a kill.  Only a write-range over the same directory may  *)
(* open such a block again, and leave it cut when it fails or is killed.   *)
(***************************************************************************)
BlocksOnDisk ==
    latest.file = "whole" /\ latest.block # 0 =>
        \A b \in floor .. latest.block : blockFile[b] = "whole" \/ b \in recut

(***************************************************************************)
(* The stream has kept up: the marker is within one block of the latest    *)
(* upload (a single new block waits for the next one), unless a kill cut   *)
(* the marker file, which no later poll can parse.                         *)
(***************************************************************************)
WriterCaughtUp ==
    \/ writer.at = "exit"
    \/ writer.at = "loop" /\ latest.file = "cut"
    \/ latest.block + 1 >= uploaded
=============================================================================
