------------------------------ MODULE QueryIndex ------------------------------
(***************************************************************************)
(* What the query index promises its readers: a contiguous, hash-linked    *)
(* run of finalized blocks, each with all of its records, that only ever   *)
(* grows at the head, by whole batches.                                    *)
(***************************************************************************)
EXTENDS Integers, Sequences

CONSTANTS Blocks, NoHash

VARIABLE log   \* the indexed blocks in order: [number, hash, payload]

(* What a reader sees of a block: its records, family by family. *)
Stored(b) ==
  [number  |-> b.number,
   hash    |-> b.hash,
   payload |-> [f \in DOMAIN b.rows |-> [j \in 1 .. Len(b.rows[f]) |-> b.rows[f][j].bytes]]]

Init == log = <<>>

(* The entry at position i of the new log is a block that extends the one  *)
(* before it; the first block of the index has no predecessor.             *)
Links(entries, i) ==
  \E b \in Blocks :
    /\ entries[i] = Stored(b)
    /\ i > 1 => /\ b.number = entries[i - 1].number + 1
                /\ b.parent = entries[i - 1].hash

Extend ==
  /\ Len(log') > Len(log)
  /\ \A i \in 1 .. Len(log) : log'[i] = log[i]
  /\ \A i \in Len(log) + 1 .. Len(log') : Links(log', i)

Spec == Init /\ [][Extend]_log
=============================================================================
