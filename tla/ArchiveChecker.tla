---------------------------- MODULE ArchiveChecker ----------------------------
(***************************************************************************)
(* monad-archive-checker: the checker, which goes through the replicas     *)
(* chunk by chunk; the recheckers, which go over chunks with faults again  *)
(* (the worker beside the checker, standalone runs, the fixer's            *)
(* verification); and the fault fixer, which copies blocks from a good     *)
(* replica over faulty ones.  They share the replicas and a store of       *)
(* results, without any locking, and any of them may crash between two     *)
(* calls.                                                                  *)
(*                                                                         *)
(* The objects a fetch reads are read in no fixed order, while others are  *)
(* being written: a read returns some value its object has had since the   *)
(* fetch began.  `seen' collects those values.                             *)
(***************************************************************************)
EXTENDS BlockCheck

CONSTANTS
  Rechecker,      \* recheck_chunk_from_scratch calls that may be in progress
  Uploads,        \* what each replica's archiver has for it, uploaded or not
  InitData,       \* what the replicas may hold to begin with
  Tips,           \* values each archiver gives to its latest uploaded marker
  TipLag,         \* the 1000 blocks latest_to_check stays behind
  MinLag,         \* min_lag_from_tip
  ForceRecheck,   \* force_recheck
  Word,           \* 2^64
  Losses,         \* sets of (replica, block) whose reads may fail together
  MaxFailures     \* how many fetches meet read errors, and jobs and fixes fail

Maybe(S) == S \cup {None}
Cell == {d \in [Part -> Content] : \A p \in Part : d[p] \in Contents(p)}
PartialCell ==
  {d \in [Part -> Maybe(Content)] : \A p \in Part : d[p] \in Maybe(Contents(p))}

(* d is what the archive of block n should look like: the parts are there, *)
(* and of one block with that number.                                      *)
SelfConsistent(n, d) ==
  /\ Whole(d)
  /\ BlockOf(d).number = n
  /\ BlockOf(d).txRoot
  /\ BlockOf(d).txs = ReceiptsOf(d).len
  /\ BlockOf(d).txs = TracesOf(d).len
  /\ BlockOf(d).receiptsRoot = ReceiptsOf(d).root

ASSUME CheckerAssumption ==
  /\ "checker" \notin Rechecker
  /\ InitData \subseteq [Replica -> [BlockNum -> PartialCell]]
  /\ Uploads \in [Replica -> [BlockNum -> PartialCell]]
  /\ Tips \in [Replica -> SUBSET Nat]
  /\ TipLag \in Nat /\ MinLag \in Nat /\ ForceRecheck \in BOOLEAN
  /\ Word \in Nat \ {0}
  /\ MaxFailures \in Nat

(* Only finalized blocks are archived, so that there is one block of each  *)
(* number: two contents that are consistent have the same transactions and *)
(* receipts, though the header's other fields and the traces may differ.   *)
ASSUME OneChain ==
  \A n \in BlockNum : \A d, e \in Cell :
    SelfConsistent(n, d) /\ SelfConsistent(n, e) =>
      /\ BlockOf(d).txs = BlockOf(e).txs
      /\ BlockOf(d).receiptsRoot = BlockOf(e).receiptsRoot

Job == {"checker"} \cup Rechecker

VARIABLES
  data,          \* the replicas
  uploaded,      \* their latest uploaded markers
  latestChecked, \* the store: the last block checked of each replica
  faults,        \* the store: the faults of each replica and chunk
  good,          \* the store: the replica to repair each block from
  next,          \* next_to_check; None while the checker is down
  job,           \* the checker's and the recheckers' work on a chunk
  fixOf,         \* the replica whose faults in a chunk are being fixed
  fixFaults,     \* those faults, as they were read
  fixGood,       \* the good replicas, as they were read
  task, payload, \* how far the fix of a block is, and the data it writes
  failures

archives == <<data, uploaded>>
results == <<latestChecked, faults, good>>
fixer == <<fixOf, fixFaults, fixGood, task, payload>>
vars == <<archives, results, next, job, fixer, failures>>

NoGood == [n \in BlockNum |-> None]
NoFaults == [q \in Replica |-> {}]

Idle == [phase |-> "idle", chunk |-> None, seen |-> {}, todo |-> {},
         faults |-> NoFaults, good |-> NoGood, old |-> NoFaults]

Init ==
  /\ data \in InitData
  /\ uploaded \in {u \in [Replica -> UNION {Tips[q] : q \in Replica}] :
                    \A q \in Replica : u[q] \in Tips[q]}
  /\ latestChecked = [q \in Replica |-> 0]
  /\ faults = [q \in Replica |-> [c \in Chunk |-> {}]]
  /\ good = NoGood
  /\ next = None
  /\ job = [j \in Job |-> Idle]
  /\ fixOf = [c \in Chunk |-> None]
  /\ fixFaults = [c \in Chunk |-> {}]
  /\ fixGood = NoGood
  /\ task = [n \in BlockNum |-> "none"]
  /\ payload = [n \in BlockNum |-> None]
  /\ failures = 0

-----------------------------------------------------------------------------
(* The replicas. *)

Write(q, n, p, v) ==
  /\ data' = [data EXCEPT ![q][n][p] = v]
  /\ job' = [j \in Job |->
       IF job[j].phase = "fetch" /\ n \in BlocksOf(job[j].chunk)
       THEN [job[j] EXCEPT !.seen = @ \cup {<<q, n, p, v>>}]
       ELSE job[j]]

(* An archiver is late with an object of a block.  It does not overwrite   *)
(* one that is there (WritePolicy::NoClobber).                             *)
Upload(q, n, p) ==
  /\ data[q][n][p] = None /\ Uploads[q][n][p] # None
  /\ Write(q, n, p, Uploads[q][n][p])
  /\ UNCHANGED <<uploaded, results, next, fixer, failures>>

(* An archiver moves its marker. *)
UploadMarker(q, m) ==
  /\ uploaded[q] # m
  /\ uploaded' = [uploaded EXCEPT ![q] = m]
  /\ UNCHANGED <<data, results, next, job, fixer, failures>>

-----------------------------------------------------------------------------
(* The checker and the recheckers. *)

(* checker_worker begins after the chunks that all replicas are marked with. *)
CheckerStart ==
  /\ next = None
  /\ \E q \in Replica :
       /\ \A r \in Replica : latestChecked[q] <= latestChecked[r]
       /\ next' = IF latestChecked[q] = 0 THEN 0 ELSE latestChecked[q] + 1
  /\ UNCHANGED <<archives, results, job, fixer, failures>>

(* latest_to_check >= n, in the build's wrapping arithmetic. *)
LatestToCheckReaches(n) == \E q \in Replica : (uploaded[q] - TipLag) % Word >= n

Fetching(c) ==
  [Idle EXCEPT !.phase = "fetch", !.chunk = c,
     !.seen = {<<q, n, p, data[q][n][p]>> : q \in Replica, n \in BlocksOf(c), p \in Part}]

CheckBegin ==
  /\ next \in Chunk
  /\ job["checker"].phase = "idle"
  /\ LatestToCheckReaches(next + MinLag + ChunkSize)
  /\ job' = [job EXCEPT !["checker"] = Fetching(next)]
  /\ UNCHANGED <<archives, results, next, fixer, failures>>

(* recheck_all_faults goes over the chunks up to the last one checked that *)
(* have faults, recheck_all_chunks over all of them.  (The list of chunks  *)
(* is collected first; one whose faults have gone by the time its turn     *)
(* comes is rechecked as recheck_all_chunks would.)                        *)
RecheckBegin(j, c) ==
  /\ job[j].phase = "idle"
  /\ \A q \in Replica : c <= latestChecked[q]
  /\ ForceRecheck \/ \E q \in Replica : faults[q][c] # {}
  /\ job' = [job EXCEPT ![j] = Fetching(c)]
  /\ UNCHANGED <<archives, results, next, fixer, failures>>

(* What a read of one object may return. *)
Values(seen, q, n, p) == {u[4] : u \in {v \in seen : <<v[1], v[2], v[3]>> = <<q, n, p>>}}

(* What the fetch of block n from replica q may come back with: nothing,   *)
(* unless all three objects are there.                                     *)
Answers(seen, q, n) ==
  {IF None \in {b, r, t} THEN None ELSE Copy(b, r, t) :
     b \in Values(seen, q, n, "block"),
     r \in Values(seen, q, n, "receipts"),
     t \in Values(seen, q, n, "traces")}

FetchedOf(s, q, lost) ==
  LET answers(n) == IF <<q, n>> \in lost THEN {None} ELSE Answers(s.seen, q, n) IN
  {row \in [BlocksOf(s.chunk) -> UNION {answers(n) : n \in BlocksOf(s.chunk)}] :
     \A n \in BlocksOf(s.chunk) : row[n] \in answers(n)}

(* fetch_block_data; the reads in lost fail. *)
Fetched(s, lost) ==
  {view \in [Replica -> UNION {FetchedOf(s, q, lost) : q \in Replica}] :
     \A q \in Replica : view[q] \in FetchedOf(s, q, lost)}

(* The fetch is over.  A read error looks like a missing block.  The       *)
(* checker goes on to store its results, a rechecker compares them first.  *)
FetchDone(j) ==
  LET s == job[j]
      c == s.chunk
  IN
  /\ s.phase = "fetch"
  /\ \E lost \in Losses \cup {{}} :
       /\ failures' = IF lost = {} THEN failures ELSE failures + 1
       /\ failures' <= MaxFailures
       /\ \E view \in Fetched(s, lost) : \E chosen \in GoodBlocks(c, view) :
            job' = [job EXCEPT ![j] = [Idle EXCEPT
              !.phase = IF j = "checker" THEN "store" ELSE "compare",
              !.chunk = c,
              !.todo = Replica,
              !.faults = [q \in Replica |-> FaultsOf(c, view, chosen, q)],
              !.good = [n \in BlockNum |-> IF n \in BlocksOf(c) THEN chosen[n] ELSE None]]]
  /\ UNCHANGED <<archives, results, next, fixer>>

(* recheck_chunk_from_scratch reads the old faults, replica by replica. *)
ReadOld(j, q) ==
  /\ job[j].phase = "compare" /\ q \in job[j].todo
  /\ job' = [job EXCEPT ![j].old[q] = faults[q][job[j].chunk], ![j].todo = @ \ {q}]
  /\ UNCHANGED <<archives, results, next, fixer, failures>>

(* It reads the old good blocks.  Unless nothing changed, or this is a dry *)
(* run, it goes on to store its results (after a backup of what it read,   *)
(* in objects that nothing reads).                                         *)
Compare(j) ==
  LET s == job[j] IN
  /\ s.phase = "compare" /\ s.todo = {}
  /\ \/ job' = [job EXCEPT ![j] = Idle]
     \/ /\ s.old # s.faults \/ \E n \in BlocksOf(s.chunk) : good[n] # s.good[n]
        /\ job' = [job EXCEPT ![j].phase = "store", ![j].todo = Replica]
  /\ UNCHANGED <<archives, results, next, fixer, failures>>

(* store_checking_results sets or deletes the faults of one replica. *)
Store(j, q) ==
  LET s == job[j] IN
  /\ s.phase = "store" /\ q \in s.todo
  /\ faults' = [faults EXCEPT ![q][s.chunk] = s.faults[q]]
  /\ job' = [job EXCEPT ![j].todo = @ \ {q}]
  /\ UNCHANGED <<archives, latestChecked, good, next, fixer, failures>>

(* After the last replica it stores the good blocks. *)
StoreGood(j) ==
  LET s == job[j] IN
  /\ s.phase = "store" /\ s.todo = {}
  /\ good' = [n \in BlockNum |-> IF n \in BlocksOf(s.chunk) THEN s.good[n] ELSE good[n]]
  /\ job' = [job EXCEPT ![j] =
       IF j = "checker"
       THEN [Idle EXCEPT !.phase = "mark", !.chunk = s.chunk, !.todo = Replica]
       ELSE Idle]
  /\ UNCHANGED <<archives, latestChecked, faults, next, fixer, failures>>

(* process_block_batch marks the replicas, and the chunk is done. *)
Mark(q) ==
  LET s == job["checker"] IN
  /\ s.phase = "mark" /\ q \in s.todo
  /\ latestChecked' = [latestChecked EXCEPT ![q] = LastOf(s.chunk)]
  /\ IF s.todo = {q}
     THEN /\ job' = [job EXCEPT !["checker"] = Idle]
          /\ next' = LastOf(s.chunk) + 1
     ELSE /\ job' = [job EXCEPT !["checker"].todo = @ \ {q}]
          /\ next' = next
  /\ UNCHANGED <<archives, faults, good, fixer, failures>>

(* A job fails, or its process dies. *)
Crash(j) ==
  /\ failures < MaxFailures
  /\ job[j].phase # "idle"
  /\ job' = [job EXCEPT ![j] = Idle]
  /\ next' = IF j = "checker" THEN None ELSE next
  /\ failures' = failures + 1
  /\ UNCHANGED <<archives, results, fixer>>

-----------------------------------------------------------------------------
(* The fault fixer works on the chunks of one replica at a time. *)

FixBegin(q, c) ==
  /\ \A d \in Chunk : fixOf[d] \in {None, q}
  /\ fixOf[c] = None
  /\ faults[q][c] # {}
  /\ fixOf' = [fixOf EXCEPT ![c] = q]
  /\ fixFaults' = [fixFaults EXCEPT ![c] = faults[q][c]]
  /\ UNCHANGED <<archives, results, next, job, fixGood, task, payload,
                 failures>>

(* fix_faults_in_range reads the good replicas and sets out to fix every fault. *)
FixRange(c) ==
  /\ fixOf[c] # None
  /\ \A n \in BlocksOf(c) : task[n] = "none"
  /\ fixGood' = [n \in BlockNum |-> IF n \in BlocksOf(c) THEN good[n] ELSE fixGood[n]]
  /\ task' = [n \in BlockNum |->
       IF n \in BlocksOf(c) /\ \E f \in fixFaults[c] : f.block = n THEN "fetch" ELSE task[n]]
  /\ UNCHANGED <<archives, results, next, job, fixOf, fixFaults, payload,
                 failures>>

(* Mutant: without a good replica, whatever some replica has is used. *)
FixFetchAny(c, n) ==
  /\ task[n] = "fetch"
  /\ \E g \in Replica :
       /\ fixGood[n] \in {None, g}
       /\ Whole(data[g][n])
       /\ payload' = [payload EXCEPT ![n] = data[g][n]]
  /\ task' = [task EXCEPT ![n] = "block"]
  /\ UNCHANGED <<archives, results, next, job, fixOf, fixFaults, fixGood,
                 failures>>

(* fix_fault fetches the block from its good replica, as it is now. *)
FixFetch(c, n) ==
  /\ task[n] = "fetch"
  /\ fixGood[n] # None
  /\ Whole(data[fixGood[n]][n])
  /\ payload' = [payload EXCEPT ![n] = data[fixGood[n]][n]]
  /\ task' = [task EXCEPT ![n] = "block"]
  /\ UNCHANGED <<archives, results, next, job, fixOf, fixFaults, fixGood,
                 failures>>

(* It overwrites the block, stored by its own number, then the receipts,   *)
(* then the traces.                                                        *)
FixPut(c, n) ==
  /\ task[n] \in Part
  /\ Write(fixOf[c], IF task[n] = "block" THEN BlockOf(payload[n]).number ELSE n,
           task[n], payload[n][task[n]])
  /\ task' = [task EXCEPT ![n] =
       CASE @ = "block" -> "receipts"
         [] @ = "receipts" -> "traces"
         [] @ = "traces" -> IF [block |-> n, kind |-> "MissingBlock"] \in fixFaults[c]
                            THEN "latest" ELSE "done"]
  /\ payload' = [payload EXCEPT ![n] = IF task[n] = "traces" THEN None ELSE @]
  /\ UNCHANGED <<uploaded, results, next, fixOf, fixFaults, fixGood,
                 failures>>

(* For a missing block it reads the latest uploaded marker... *)
FixLatest(c, n) ==
  /\ task[n] = "latest"
  /\ task' = [task EXCEPT ![n] = IF uploaded[fixOf[c]] < n THEN "bump" ELSE "done"]
  /\ UNCHANGED <<archives, results, next, job, fixOf, fixFaults, fixGood,
                 payload, failures>>

(* ...and moves it up to the block. *)
FixBump(c, n) ==
  /\ task[n] = "bump"
  /\ uploaded' = [uploaded EXCEPT ![fixOf[c]] = n]
  /\ task' = [task EXCEPT ![n] = "done"]
  /\ UNCHANGED <<data, results, next, job, fixOf, fixFaults, fixGood,
                 payload, failures>>

(* The fixer is done with the chunks cs: finished, or given up. *)
FixOver(cs) ==
  /\ fixOf' = [c \in Chunk |-> IF c \in cs THEN None ELSE fixOf[c]]
  /\ fixFaults' = [c \in Chunk |-> IF c \in cs THEN {} ELSE fixFaults[c]]
  /\ fixGood' = [n \in BlockNum |-> IF \E c \in cs : n \in BlocksOf(c) THEN None ELSE fixGood[n]]
  /\ task' = [n \in BlockNum |-> IF \E c \in cs : n \in BlocksOf(c) THEN "none" ELSE task[n]]
  /\ payload' = [n \in BlockNum |-> IF \E c \in cs : n \in BlocksOf(c) THEN None ELSE payload[n]]

(* All faults are fixed.  With --verify a rechecker goes over the chunk. *)
FixDone(c) ==
  /\ fixOf[c] # None
  /\ \E n \in BlocksOf(c) : task[n] = "done"
  /\ \A n \in BlocksOf(c) : task[n] \in {"none", "done"}
  /\ FixOver({c})
  /\ \/ job' = job
     \/ \E j \in Rechecker : /\ job[j].phase = "idle"
                             /\ job' = [job EXCEPT ![j] = Fetching(c)]
  /\ UNCHANGED <<archives, results, next, failures>>

(* A fix fails, for want of a good replica or of its data, or because of an *)
(* error or a crash: the whole run ends, wherever its other fixes are.     *)
FixAbort ==
  /\ \/ /\ \E n \in BlockNum :
             /\ task[n] = "fetch"
             /\ fixGood[n] # None => ~Whole(data[fixGood[n]][n])
        /\ failures' = failures
     \/ /\ \E c \in Chunk : fixOf[c] # None
        /\ failures < MaxFailures
        /\ failures' = failures + 1
  /\ FixOver(Chunk)
  /\ UNCHANGED <<archives, results, next, job>>

-----------------------------------------------------------------------------
JobStep ==
  \/ CheckerStart \/ CheckBegin
  \/ \E j \in Rechecker, c \in Chunk : RecheckBegin(j, c)
  \/ \E j \in Rechecker, q \in Replica : ReadOld(j, q)
  \/ \E j \in Rechecker : Compare(j)
  \/ \E j \in Job : FetchDone(j) \/ StoreGood(j) \/ Crash(j)
  \/ \E j \in Job, q \in Replica : Store(j, q)
  \/ \E q \in Replica : Mark(q)

FixStep ==
  \/ \E q \in Replica, c \in Chunk : FixBegin(q, c)
  \/ \E c \in Chunk : FixRange(c) \/ FixDone(c)
  \/ \E c \in Chunk : \E n \in BlocksOf(c) :
       FixFetch(c, n) \/ FixPut(c, n) \/ FixLatest(c, n) \/ FixBump(c, n)
  \/ FixAbort

Next ==
  \/ \E q \in Replica, n \in BlockNum, p \in Part : Upload(q, n, p)
  \/ \E q \in Replica : \E m \in Tips[q] : UploadMarker(q, m)
  \/ JobStep
  \/ FixStep

Spec == Init /\ [][Next]_vars

-----------------------------------------------------------------------------
Verdicts ==
  {"MissingBlock", "InvalidBlockNumber", "InvalidParentHash", "ReceiptCountMismatch",
   "TraceCountMismatch", "InvalidTransactionRoot", "InvalidReceiptsRoot"}
Reasons ==
  {"Header", "BodyLen", "BodyContents", "ReceiptsLen", "ReceiptsContents", "TracesLen",
   "TracesContents", "TracesOutputDiffers", "Unknown", "NoConsensus"}
Fault == [block : BlockNum, kind : Verdicts \cup Reasons]

SeenType ==
  {u \in Replica \X BlockNum \X Part \X Maybe(Content) : u[4] \in Maybe(Contents(u[3]))}

JobType ==
  [phase : {"idle", "fetch", "compare", "store", "mark"},
   chunk : Maybe(Chunk),
   seen : SUBSET SeenType,
   todo : SUBSET Replica,
   faults : [Replica -> SUBSET Fault],
   good : [BlockNum -> Maybe(Replica)],
   old : [Replica -> SUBSET Fault]]

TypeOK ==
  /\ data \in [Replica -> [BlockNum -> PartialCell]]
  /\ uploaded \in [Replica -> Nat]
  /\ latestChecked \in [Replica -> Nat]
  /\ faults \in [Replica -> [Chunk -> SUBSET Fault]]
  /\ good \in [BlockNum -> Maybe(Replica)]
  /\ next \in Maybe(Nat)
  /\ job \in [Job -> JobType]
  /\ \A j \in Job : job[j].phase # "idle" => job[j].chunk \in Chunk
  /\ fixOf \in [Chunk -> Maybe(Replica)]
  /\ fixFaults \in [Chunk -> SUBSET Fault]
  /\ fixGood \in [BlockNum -> Maybe(Replica)]
  /\ task \in [BlockNum -> {"none", "fetch", "latest", "bump", "done"} \cup Part]
  /\ payload \in [BlockNum -> Maybe(Cell)]
  /\ failures \in 0 .. MaxFailures

(* A chunk that any replica is marked with is reported in full: a block of *)
(* a replica with no fault on record is there, with a number, counts and   *)
(* roots that match, whatever the recheckers and the fixer have done since *)
(* it was checked and wherever one of them has crashed.                    *)
UnreportedIsSound ==
  \A c \in Chunk, q, r \in Replica :
    latestChecked[r] >= LastOf(c) =>
      \A n \in BlocksOf(c) :
        (\A f \in faults[q][c] : f.block # n) => SelfConsistent(n, data[q][n])

(* The replica on record to repair a block from has a sound copy of it at  *)
(* all times, which fix_fault relies on: it does not verify what it copies. *)
GoodIsSound ==
  \A n \in BlockNum : good[n] # None => SelfConsistent(n, data[good[n]][n])

(* What the checker has on record is true of the replicas: its silence     *)
(* about a block, and its choice of a copy to repair from.                 *)
ReportsSound == UnreportedIsSound /\ GoodIsSound

(* No step of the fixer or of an archiver spoils a sound copy of a block,  *)
(* not even between the three writes of fix_fault.                         *)
SoundStays ==
  [][\A q \in Replica, n \in BlockNum :
       SelfConsistent(n, data[q][n]) => SelfConsistent(n, data'[q][n])]_vars
===============================================================================
