------------------------------ MODULE BlockCheck ------------------------------
(***************************************************************************)
(* What monad-archive-checker concludes from one chunk of blocks as it     *)
(* fetched them from every replica: the faults of each replica, and the    *)
(* replica to repair each block from.                                      *)
(*                                                                         *)
(* The content of a replica at a block is a block, its receipts and its    *)
(* traces.  Attr gives what the checker compares of these: of a block its  *)
(* number, its header's hash, its parent's hash, how many transactions it  *)
(* has, whether they hash to the header's root, and the root of its        *)
(* receipts; of receipts how many there are and their root; of traces how  *)
(* many there are, their length in bytes, their calls, and how many of the *)
(* calls' outputs are not empty.                                           *)
(***************************************************************************)
EXTENDS Integers, FiniteSets

CONSTANTS
  Replica,      \* replica names, as numbers in lexicographic order
  Blocks, Receipts, Traces,   \* the objects a replica may hold
  Attr,         \* what the checker compares of each of them
  None,         \* an object that is not there
  ChunkSize,    \* CHUNK_SIZE
  NumChunks     \* how many chunks are tracked

ASSUME CheckAssumption ==
  /\ Replica \subseteq Nat /\ Replica # {}
  /\ ChunkSize \in Nat /\ ChunkSize > 1
  /\ NumChunks \in Nat
  /\ None \notin Nat /\ None \notin Blocks \cup Receipts \cup Traces

BlockNum == 0 .. NumChunks * ChunkSize - 1

(* A chunk is known by its first block. *)
Chunk == {k * ChunkSize : k \in 0 .. NumChunks - 1}
LastOf(c) == c + ChunkSize - 1
BlocksOf(c) == c .. LastOf(c)

Part == {"block", "receipts", "traces"}
Contents(p) ==
  CASE p = "block" -> Blocks [] p = "receipts" -> Receipts [] p = "traces" -> Traces
Content == Blocks \cup Receipts \cup Traces

Copy(b, r, t) ==
  [p \in Part |-> CASE p = "block" -> b [] p = "receipts" -> r [] p = "traces" -> t]

Whole(d) == \A p \in Part : d[p] # None

BlockOf(d) == Attr[d["block"]]
ReceiptsOf(d) == Attr[d["receipts"]]
TracesOf(d) == Attr[d["traces"]]

-----------------------------------------------------------------------------
(* Mutant: the root of the receipts is not compared. *)
VerifyIgnoresRoot(n, d, parent) ==
  LET b == BlockOf(d) IN
  IF b.number # n THEN "InvalidBlockNumber"
  ELSE IF parent # None /\ b.parent # parent THEN "InvalidParentHash"
  ELSE IF ReceiptsOf(d).len # b.txs THEN "ReceiptCountMismatch"
  ELSE IF TracesOf(d).len # b.txs THEN "TraceCountMismatch"
  ELSE IF ~b.txRoot THEN "InvalidTransactionRoot"
  ELSE "Ok"

(* verify_block: the first check that d fails as block n, on top of a block *)
(* with the hash parent (None: there is none to compare with).             *)
VerifyBlock(n, d, parent) ==
  LET b == BlockOf(d) IN
  IF b.number # n THEN "InvalidBlockNumber"
  ELSE IF parent # None /\ b.parent # parent THEN "InvalidParentHash"
  ELSE IF ReceiptsOf(d).len # b.txs THEN "ReceiptCountMismatch"
  ELSE IF TracesOf(d).len # b.txs THEN "TraceCountMismatch"
  ELSE IF ~b.txRoot THEN "InvalidTransactionRoot"
  ELSE IF b.receiptsRoot # ReceiptsOf(d).root THEN "InvalidReceiptsRoot"
  ELSE "Ok"

Undecodable == -1   \* the outputs of traces that decode_traces fails on

(* find_inconsistent_reason: what two contents that both verify differ in. *)
InconsistentReason(good, faulty) ==
  LET g == TracesOf(good)
      f == TracesOf(faulty)
  IN
  IF BlockOf(good).hash # BlockOf(faulty).hash THEN "Header"
  ELSE IF BlockOf(good).txs # BlockOf(faulty).txs THEN "BodyLen"
  ELSE IF good["block"] # faulty["block"] THEN "BodyContents"
  ELSE IF ReceiptsOf(good).len # ReceiptsOf(faulty).len THEN "ReceiptsLen"
  ELSE IF good["receipts"] # faulty["receipts"] THEN "ReceiptsContents"
  ELSE IF g.len # f.len \/ g.bytes # f.bytes THEN "TracesLen"
  ELSE IF \/ g.outputs = Undecodable \/ f.outputs = Undecodable
          \/ g.calls # f.calls THEN "TracesContents"
  ELSE IF g.outputs # f.outputs THEN "TracesOutputDiffers"
  ELSE "Unknown"

-----------------------------------------------------------------------------
(* What the checker fetched of a chunk is a view: a content, or None, for  *)
(* each replica and block of the chunk.                                    *)

(* The parent to compare with is the block before in the same replica, if  *)
(* it was fetched with the same chunk.                                     *)
PrevHeader(c, view, q, n) ==
  IF n = c \/ view[q][n - 1] = None THEN None ELSE BlockOf(view[q][n - 1]).hash

Verdict(c, view, q, n) ==
  IF view[q][n] = None THEN "MissingBlock"
  ELSE VerifyBlock(n, view[q][n], PrevHeader(c, view, q, n))

ValidReplicas(c, view, n) == {q \in Replica : Verdict(c, view, q, n) = "Ok"}

(* The replicas that agree with q on block n. *)
Group(c, view, n, q) == {r \in ValidReplicas(c, view, n) : view[r][n] = view[q][n]}

(* choose_good_replica's key, smallest first: the most outputs that are not *)
(* empty, then the largest group, then the first name.  A group whose      *)
(* traces cannot be decoded has the key (0, 0, None).                      *)
Before(k, l) ==
  \/ k[1] < l[1]
  \/ k[1] = l[1] /\ k[2] < l[2]
  \/ k[1] = l[1] /\ k[2] = l[2] /\ k[3] < l[3]

GroupKey(c, view, n, q) ==
  LET outputs == TracesOf(view[q][n]).outputs IN
  IF outputs = Undecodable THEN <<0, 0, -1>>
  ELSE <<-outputs, -Cardinality(Group(c, view, n, q)), q>>

(* The replicas that may be chosen for block n: the first names of the     *)
(* groups that no other comes before.  Only groups with undecodable traces *)
(* tie, and then the order of a hash map decides.                          *)
ChooseGood(c, view, n) ==
  LET first == {q \in ValidReplicas(c, view, n) :
                  \A r \in Group(c, view, n, q) : q <= r}
  IN  {q \in first : \A r \in first :
         ~Before(GroupKey(c, view, n, r), GroupKey(c, view, n, q))}

(* The possible outcomes of find_consensus on every block of the chunk. *)
GoodBlocks(c, view) ==
  LET choices(n) == IF ChooseGood(c, view, n) = {} THEN {None} ELSE ChooseGood(c, view, n)
  IN  {good \in [BlocksOf(c) -> UNION {choices(n) : n \in BlocksOf(c)}] :
         \A n \in BlocksOf(c) : good[n] \in choices(n)}

(* process_single_block: the fault of replica q at block n, or "Ok". *)
FaultOf(c, view, good, q, n) ==
  LET verdict == Verdict(c, view, q, n) IN
  IF verdict # "Ok" THEN verdict
  ELSE IF good[n] = None THEN "NoConsensus"
  ELSE IF view[q][n] = view[good[n]][n] THEN "Ok"
  ELSE InconsistentReason(view[good[n]][n], view[q][n])

(* process_blocks: the faults of replica q in the chunk. *)
FaultsOf(c, view, good, q) ==
  {[block |-> n, kind |-> FaultOf(c, view, good, q, n)] :
     n \in {m \in BlocksOf(c) : FaultOf(c, view, good, q, m) # "Ok"}}
===============================================================================
