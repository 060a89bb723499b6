------------------------- MODULE ArchiveCheckerProofs -------------------------
(***************************************************************************)
(* Proofs about monad-archive-checker, for any number of replicas, chunks  *)
(* and recheckers and any content of the archives.                         *)
(***************************************************************************)
EXTENDS ArchiveChecker, TLAPS

(* v may be part p of a sound copy of block n. *)
SoundPart(n, p, v) == \E d \in Cell : SelfConsistent(n, d) /\ d[p] = v

(* What a job has read of an object was not better than what is there. *)
SeenInv ==
  \A j \in Job : job[j].phase = "fetch" =>
    \A q \in Replica : \A n \in BlocksOf(job[j].chunk) : \A p \in Part :
      \A v \in Maybe(Contents(p)) :
        <<q, n, p, v>> \in job[j].seen /\ SoundPart(n, p, v) =>
          SoundPart(n, p, data[q][n][p])

Clear(fs, n) == \A f \in fs : f.block # n

(* The results a job is about to store hold of the replicas as they are. *)
FoundInv ==
  \A j \in Job : job[j].phase \in {"compare", "store"} =>
    \A n \in BlocksOf(job[j].chunk) :
      /\ \A q \in Replica : Clear(job[j].faults[q], n) => SelfConsistent(n, data[q][n])
      /\ job[j].good[n] # None => SelfConsistent(n, data[job[j].good[n]][n])

(* The fixer copies sound blocks. *)
FixInv ==
  /\ \A n \in BlockNum : fixGood[n] # None => SelfConsistent(n, data[fixGood[n]][n])
  /\ \A n \in BlockNum : task[n] \in Part =>
       payload[n] \in Cell /\ SelfConsistent(n, payload[n])
  /\ \A c \in Chunk : \A n \in BlocksOf(c) : task[n] # "none" => fixOf[c] # None

(* The faults on record of replica q in chunk c are complete. *)
Reported(c, q) ==
  \A n \in BlocksOf(c) : Clear(faults[q][c], n) => SelfConsistent(n, data[q][n])

(* What the checker has stored, marked, and left behind is complete. *)
ProgressInv ==
  /\ job["checker"].phase # "idle" => next = job["checker"].chunk
  /\ job["checker"].phase = "store" =>
       \A q \in Replica \ job["checker"].todo : Reported(job["checker"].chunk, q)
  /\ job["checker"].phase = "mark" =>
       \A q \in Replica : Reported(job["checker"].chunk, q)
  /\ \A c \in Chunk, q, r \in Replica : latestChecked[r] >= LastOf(c) => Reported(c, q)
  /\ next # None => \A c \in Chunk, q \in Replica : LastOf(c) < next => Reported(c, q)

IInv == TypeOK /\ SeenInv /\ FoundInv /\ GoodIsSound /\ FixInv /\ ProgressInv

-----------------------------------------------------------------------------
(* The blocks of a chunk are among those tracked. *)
LEMMA ChunkBlocks ==
  ASSUME NEW c \in Chunk
  PROVE  /\ c \in Nat /\ LastOf(c) \in Nat /\ LastOf(c) > 0
         /\ BlocksOf(c) \subseteq BlockNum
<1>1. PICK k \in 0 .. NumChunks - 1 : c = k * ChunkSize
  BY CheckAssumption DEF Chunk
<1>2. k * ChunkSize \in Nat /\ (k + 1) * ChunkSize = k * ChunkSize + ChunkSize
  BY CheckAssumption
<1>3. (k + 1) * ChunkSize <= NumChunks * ChunkSize
  BY CheckAssumption
<1> QED BY <1>1, <1>2, <1>3, CheckAssumption DEF LastOf, BlocksOf, BlockNum

(* A chunk begins after the ones before it have ended. *)
LEMMA ChunkOrder ==
  ASSUME NEW c \in Chunk, NEW d \in Chunk, c < d
  PROVE  LastOf(c) < d
<1>1. PICK k \in 0 .. NumChunks - 1 : c = k * ChunkSize
  BY CheckAssumption DEF Chunk
<1>2. PICK l \in 0 .. NumChunks - 1 : d = l * ChunkSize
  BY CheckAssumption DEF Chunk
<1>3. k < l
  BY <1>1, <1>2, CheckAssumption
<1>4. (k + 1) * ChunkSize <= l * ChunkSize
  BY <1>3, CheckAssumption
<1>5. (k + 1) * ChunkSize = k * ChunkSize + ChunkSize
  BY CheckAssumption
<1> QED BY <1>1, <1>2, <1>4, <1>5, CheckAssumption DEF LastOf

(* No block is in two chunks. *)
LEMMA ChunksDisjoint ==
  ASSUME NEW c \in Chunk, NEW d \in Chunk, NEW n \in BlocksOf(c), n \in BlocksOf(d)
  PROVE  c = d
BY ChunkOrder, ChunkBlocks, CheckAssumption DEF BlocksOf, LastOf

(* A copy is sound exactly when its parts are: by OneChain, the parts of   *)
(* sound copies of a block fit together.                                   *)
LEMMA PartsFit ==
  ASSUME NEW n \in BlockNum, NEW d \in PartialCell
  PROVE  SelfConsistent(n, d) <=> \A p \in Part : SoundPart(n, p, d[p])
<1>1. ASSUME SelfConsistent(n, d), NEW p \in Part PROVE SoundPart(n, p, d[p])
  <2>1. d \in Cell
    BY <1>1 DEF SelfConsistent, Whole, PartialCell, Cell, Maybe, Content
  <2> QED BY <2>1, <1>1 DEF SoundPart
<1>2. ASSUME \A p \in Part : SoundPart(n, p, d[p]) PROVE SelfConsistent(n, d)
  <2>1. PICK x \in Cell : SelfConsistent(n, x) /\ x["block"] = d["block"]
    BY <1>2 DEF SoundPart, Part
  <2>2. PICK y \in Cell : SelfConsistent(n, y) /\ y["receipts"] = d["receipts"]
    BY <1>2 DEF SoundPart, Part
  <2>3. PICK z \in Cell : SelfConsistent(n, z) /\ z["traces"] = d["traces"]
    BY <1>2 DEF SoundPart, Part
  <2>4. /\ BlockOf(x).txs = BlockOf(y).txs /\ BlockOf(x).txs = BlockOf(z).txs
        /\ BlockOf(x).receiptsRoot = BlockOf(y).receiptsRoot
    BY <2>1, <2>2, <2>3, OneChain
  <2>5. Whole(d)
    BY <2>1, <2>2, <2>3 DEF SelfConsistent, Whole, Part
  <2> QED BY <2>1, <2>2, <2>3, <2>4, <2>5 DEF SelfConsistent, BlockOf, ReceiptsOf, TracesOf
<1> QED BY <1>1, <1>2

(* Nothing missing is part of a sound copy. *)
LEMMA NoneUnsound ==
  ASSUME NEW n, NEW p \in Part
  PROVE  ~SoundPart(n, p, None)
BY DEF SoundPart, SelfConsistent, Whole

(* verify_block accepts only sound copies. *)
LEMMA VerifyIsSound ==
  ASSUME NEW n, NEW d, NEW parent, Whole(d), VerifyBlock(n, d, parent) = "Ok"
  PROVE  SelfConsistent(n, d)
BY DEF VerifyBlock, SelfConsistent

(* A verdict other than "Ok" is one of the faults. *)
LEMMA FaultKinds ==
  ASSUME NEW c, NEW view, NEW chosen, NEW q, NEW n,
         FaultOf(c, view, chosen, q, n) # "Ok"
  PROVE  FaultOf(c, view, chosen, q, n) \in Verdicts \cup Reasons
<1>1. Verdict(c, view, q, n) = "Ok" \/ Verdict(c, view, q, n) \in Verdicts
  BY DEF Verdict, VerifyBlock, Verdicts
<1>2. \A x, y : InconsistentReason(x, y) \in Reasons
  BY DEF InconsistentReason, Reasons
<1> QED BY <1>1, <1>2 DEF FaultOf, Reasons

-----------------------------------------------------------------------------
(* A fetched copy that passes verification is still sound in the replica. *)
LEMMA FetchedIsSound ==
  ASSUME TypeOK, SeenInv, NEW j \in Job, job[j].phase = "fetch", NEW lost,
         NEW view \in Fetched(job[j], lost), NEW q \in Replica,
         NEW n \in BlocksOf(job[j].chunk), Verdict(job[j].chunk, view, q, n) = "Ok"
  PROVE  SelfConsistent(n, data[q][n])
<1> DEFINE seen == job[j].seen
<1>1. job[j].chunk \in Chunk /\ n \in BlockNum
  BY ChunkBlocks DEF TypeOK
<1>2. view[q] \in FetchedOf(job[j], q, lost)
  BY DEF Fetched
<1>3. view[q][n] \in IF <<q, n>> \in lost THEN {None} ELSE Answers(seen, q, n)
  BY <1>2 DEF FetchedOf
<1>4. view[q][n] # None /\ VerifyBlock(n, view[q][n], PrevHeader(job[j].chunk, view, q, n)) = "Ok"
  BY DEF Verdict
<1>5. view[q][n] \in Answers(seen, q, n)
  BY <1>3, <1>4
<1>6. seen \subseteq SeenType
  BY DEF TypeOK, JobType
<1> DEFINE read(p) == Values(seen, q, n, p)
<1>7. PICK b \in read("block"), r \in read("receipts"), t \in read("traces") :
        view[q][n] = IF None \in {b, r, t} THEN None ELSE Copy(b, r, t)
  BY <1>5 DEF Answers
<1>8. ASSUME NEW p \in Part, NEW v \in read(p)
      PROVE  <<q, n, p, v>> \in seen /\ v \in Maybe(Contents(p))
  <2>1. PICK u \in seen : <<u[1], u[2], u[3]>> = <<q, n, p>> /\ v = u[4]
    BY <1>8 DEF Values
  <2>2. u = <<u[1], u[2], u[3], u[4]>> /\ u[4] \in Maybe(Contents(u[3]))
    BY <1>6, <2>1 DEF SeenType
  <2> QED BY <2>1, <2>2
<1>9. /\ b # None /\ r # None /\ t # None
      /\ view[q][n] = Copy(b, r, t)
  BY <1>4, <1>7
<1>10. /\ b \in Maybe(Contents("block")) /\ <<q, n, "block", b>> \in seen
       /\ r \in Maybe(Contents("receipts")) /\ <<q, n, "receipts", r>> \in seen
       /\ t \in Maybe(Contents("traces")) /\ <<q, n, "traces", t>> \in seen
  BY <1>8 DEF Part
<1>11. /\ Copy(b, r, t) \in PartialCell /\ Whole(Copy(b, r, t))
       /\ Copy(b, r, t)["block"] = b
       /\ Copy(b, r, t)["receipts"] = r
       /\ Copy(b, r, t)["traces"] = t
  BY <1>9, <1>10 DEF Copy, PartialCell, Whole, Part, Contents, Content, Maybe
<1>12. SelfConsistent(n, Copy(b, r, t))
  BY <1>4, <1>9, <1>11, VerifyIsSound
<1>13. SoundPart(n, "block", b) /\ SoundPart(n, "receipts", r) /\ SoundPart(n, "traces", t)
  BY <1>1, <1>11, <1>12, PartsFit DEF Part
<1>14. \A p \in Part : SoundPart(n, p, data[q][n][p])
  BY <1>10, <1>13 DEF SeenInv, Part
<1> QED BY <1>1, <1>14, PartsFit DEF TypeOK

(* So is the copy of the replica that is chosen to repair a block from. *)
LEMMA ChosenIsValid ==
  ASSUME NEW c, NEW view, NEW chosen \in GoodBlocks(c, view), NEW n \in BlocksOf(c)
  PROVE  /\ chosen[n] \in Maybe(Replica)
         /\ chosen[n] # None => Verdict(c, view, chosen[n], n) = "Ok"
<1>1. ChooseGood(c, view, n) \subseteq {q \in Replica : Verdict(c, view, q, n) = "Ok"}
  BY DEF ChooseGood, ValidReplicas
<1>2. chosen[n] \in IF ChooseGood(c, view, n) = {} THEN {None} ELSE ChooseGood(c, view, n)
  BY DEF GoodBlocks
<1> QED BY <1>1, <1>2 DEF Maybe

-----------------------------------------------------------------------------
(* No sound copy is spoilt. *)
Kept ==
  \A q \in Replica, n \in BlockNum :
    SelfConsistent(n, data[q][n]) => SelfConsistent(n, data'[q][n])

(* What a job has got stays as it is when others write. *)
SameJobs ==
  \A j \in Job :
    /\ job'[j].phase = job[j].phase /\ job'[j].chunk = job[j].chunk
    /\ job'[j].todo = job[j].todo /\ job'[j].faults = job[j].faults
    /\ job'[j].good = job[j].good

(* A write of a part of a sound copy, or where there was nothing, spoils   *)
(* nothing, and nothing that was read is better than what is there.        *)
LEMMA WriteKeeps ==
  ASSUME TypeOK, SeenInv, NEW q \in Replica, NEW n \in BlockNum, NEW p \in Part,
         NEW v \in Contents(p), SoundPart(n, p, v) \/ data[q][n][p] = None,
         Write(q, n, p, v)
  PROVE  /\ data' \in [Replica -> [BlockNum -> PartialCell]]
         /\ job' \in [Job -> JobType]
         /\ SameJobs /\ Kept /\ SeenInv'
<1>1. data' \in [Replica -> [BlockNum -> PartialCell]]
  <2>1. data \in [Replica -> [BlockNum -> PartialCell]]
    BY DEF TypeOK
  <2>2. data[q][n] \in PartialCell
    BY <2>1
  <2>3. v \in Maybe(Content) /\ v \in Maybe(Contents(p))
    BY DEF Maybe, Contents, Content, Part
  <2>4. [data[q][n] EXCEPT ![p] = v] \in PartialCell
    BY <2>2, <2>3 DEF PartialCell
  <2>5. data' = [data EXCEPT ![q] = [data[q] EXCEPT ![n] = [data[q][n] EXCEPT ![p] = v]]]
    BY DEF Write
  <2> HIDE DEF PartialCell
  <2> QED BY <2>1, <2>4, <2>5
<1>2. \A r \in Replica, m \in BlockNum, o \in Part :
        data'[r][m][o] = IF r = q /\ m = n /\ o = p THEN v ELSE data[r][m][o]
  BY DEF TypeOK, Write, PartialCell
<1>3. \A j \in Job : job'[j] = IF job[j].phase = "fetch" /\ n \in BlocksOf(job[j].chunk)
                               THEN [job[j] EXCEPT !.seen = job[j].seen \cup {<<q, n, p, v>>}]
                               ELSE job[j]
  BY DEF Write
<1>4. <<q, n, p, v>> \in SeenType
  BY DEF SeenType, Maybe, Contents, Content, Part
<1>5. ASSUME NEW j \in Job PROVE job'[j] \in JobType
  <2>1. job[j] \in JobType
    BY DEF TypeOK
  <2>2. [job[j] EXCEPT !.seen = job[j].seen \cup {<<q, n, p, v>>}] \in JobType
    BY <2>1, <1>4 DEF JobType
  <2> QED BY <2>1, <2>2, <1>3
<1>6. job' \in [Job -> JobType]
  BY <1>5 DEF Write
<1>7. SameJobs
  BY <1>3 DEF SameJobs, TypeOK, JobType
<1>8. ASSUME NEW r \in Replica, NEW m \in BlockNum, NEW o \in Part,
             SoundPart(m, o, data[r][m][o])
      PROVE  SoundPart(m, o, data'[r][m][o])
  <2>1. CASE r = q /\ m = n /\ o = p
    BY <2>1, <1>2, <1>8, NoneUnsound
  <2>2. CASE ~(r = q /\ m = n /\ o = p)
    BY <2>2, <1>2, <1>8
  <2> QED BY <2>1, <2>2
<1>9. Kept
  <2> SUFFICES ASSUME NEW r \in Replica, NEW m \in BlockNum, SelfConsistent(m, data[r][m])
               PROVE  SelfConsistent(m, data'[r][m])
    BY DEF Kept
  <2>1. data[r][m] \in PartialCell /\ data'[r][m] \in PartialCell
    BY <1>1 DEF TypeOK
  <2> QED BY <2>1, <1>8, PartsFit
<1>10. SeenInv'
  <2> SUFFICES ASSUME NEW j \in Job, job'[j].phase = "fetch",
                      NEW r \in Replica, NEW m \in BlocksOf(job'[j].chunk), NEW o \in Part,
                      NEW w \in Maybe(Contents(o)),
                      <<r, m, o, w>> \in job'[j].seen, SoundPart(m, o, w)
               PROVE  SoundPart(m, o, data'[r][m][o])
    BY DEF SeenInv
  <2>1. job[j].phase = "fetch" /\ job[j].chunk = job'[j].chunk /\ m \in BlocksOf(job[j].chunk)
    BY <1>7 DEF SameJobs
  <2>2. m \in BlockNum
    BY <2>1, ChunkBlocks DEF TypeOK
  <2>3. CASE <<r, m, o, w>> = <<q, n, p, v>>
    BY <2>3, <2>2, <1>2
  <2>4. CASE <<r, m, o, w>> # <<q, n, p, v>>
    <3>1. <<r, m, o, w>> \in job[j].seen
      <4>1. job[j] \in JobType
        BY DEF TypeOK
      <4>2. job'[j].seen \subseteq job[j].seen \cup {<<q, n, p, v>>}
        BY <1>3, <4>1 DEF JobType
      <4> QED BY <2>4, <4>2
    <3>2. SoundPart(m, o, data[r][m][o])
      BY <2>1, <3>1 DEF SeenInv
    <3> QED BY <3>2, <2>2, <1>8
  <2> QED BY <2>3, <2>4
<1> QED BY <1>1, <1>6, <1>7, <1>9, <1>10

-----------------------------------------------------------------------------
(* Each part of the invariant is kept by a step that spoils no copy and    *)
(* leaves alone what the part is about.                                    *)

LEMMA FoundFrame ==
  ASSUME TypeOK, FoundInv, Kept,
         \A j \in Job : job'[j].phase \in {"compare", "store"} =>
           /\ job[j].phase \in {"compare", "store"}
           /\ job'[j].chunk = job[j].chunk
           /\ job'[j].faults = job[j].faults /\ job'[j].good = job[j].good
  PROVE  FoundInv'
<1> SUFFICES ASSUME NEW j \in Job, job'[j].phase \in {"compare", "store"},
                    NEW n \in BlocksOf(job'[j].chunk)
             PROVE  /\ \A q \in Replica :
                         Clear(job'[j].faults[q], n) => SelfConsistent(n, data'[q][n])
                    /\ job'[j].good[n] # None => SelfConsistent(n, data'[job'[j].good[n]][n])
  BY DEF FoundInv, Clear
<1>1. /\ job[j].phase \in {"compare", "store"} /\ n \in BlocksOf(job[j].chunk)
      /\ job'[j].faults = job[j].faults /\ job'[j].good = job[j].good
  OBVIOUS
<1>2. n \in BlockNum /\ (job[j].good[n] # None => job[j].good[n] \in Replica)
  BY <1>1, ChunkBlocks DEF TypeOK, JobType, Maybe
<1>3. /\ \A q \in Replica : Clear(job[j].faults[q], n) => SelfConsistent(n, data[q][n])
      /\ job[j].good[n] # None => SelfConsistent(n, data[job[j].good[n]][n])
  BY <1>1 DEF FoundInv
<1> QED BY <1>1, <1>2, <1>3 DEF Kept

LEMMA GoodFrame ==
  ASSUME TypeOK, GoodIsSound, Kept, good' = good
  PROVE  GoodIsSound'
BY DEF TypeOK, GoodIsSound, Kept, Maybe

LEMMA FixFrame ==
  ASSUME TypeOK, FixInv, Kept, UNCHANGED <<fixOf, fixGood, task, payload>>
  PROVE  FixInv'
BY DEF TypeOK, FixInv, Kept, Maybe

LEMMA ReportedFrame ==
  ASSUME TypeOK, Kept, NEW c \in Chunk, NEW q \in Replica, Reported(c, q),
         faults'[q][c] = faults[q][c]
  PROVE  Reported(c, q)'
BY ChunkBlocks DEF Reported, Kept

LEMMA ProgressFrame ==
  ASSUME TypeOK, ProgressInv, Kept, UNCHANGED <<faults, latestChecked, next>>,
         job'["checker"].phase # "idle" => next = job'["checker"].chunk,
         job'["checker"].phase \in {"store", "mark"} =>
           /\ job["checker"].phase = job'["checker"].phase
           /\ job["checker"].chunk = job'["checker"].chunk
           /\ job["checker"].todo = job'["checker"].todo
  PROVE  ProgressInv'
<1>1. \A c \in Chunk, q \in Replica : Reported(c, q) => Reported(c, q)'
  BY ReportedFrame
<1>2. "checker" \in Job
  BY DEF Job
<1>3. job["checker"].phase # "idle" => job["checker"].chunk \in Chunk
  BY <1>2 DEF TypeOK
<1>4. ASSUME job'["checker"].phase = "store", NEW q \in Replica \ job'["checker"].todo
      PROVE  Reported(job["checker"].chunk, q)'
  <2>1. Reported(job["checker"].chunk, q) /\ job["checker"].chunk \in Chunk
    BY <1>3, <1>4 DEF ProgressInv
  <2> QED BY <2>1, <1>4, ChunkBlocks DEF Reported, Kept
<1>5. ASSUME job'["checker"].phase = "mark", NEW q \in Replica
      PROVE  Reported(job["checker"].chunk, q)'
  <2>1. Reported(job["checker"].chunk, q) /\ job["checker"].chunk \in Chunk
    BY <1>3, <1>5 DEF ProgressInv
  <2> QED BY <2>1, <1>5, ChunkBlocks DEF Reported, Kept
<1>6. \A c \in Chunk, q, r \in Replica : latestChecked'[r] >= LastOf(c) => Reported(c, q)'
  BY <1>1 DEF ProgressInv
<1>7. next' # None => \A c \in Chunk, q \in Replica : LastOf(c) < next' => Reported(c, q)'
  BY <1>1 DEF ProgressInv
<1> QED BY <1>4, <1>5, <1>6, <1>7 DEF ProgressInv

(* A job that begins to fetch has seen what is there. *)
LEMMA FetchingType ==
  ASSUME TypeOK, NEW c \in Chunk
  PROVE  /\ Idle \in JobType /\ Fetching(c) \in JobType
         /\ Fetching(c).phase = "fetch" /\ Fetching(c).chunk = c
         /\ \A q \in Replica, n \in BlocksOf(c), p \in Part : \A v :
              <<q, n, p, v>> \in Fetching(c).seen => v = data[q][n][p]
<1> DEFINE S == {<<q, n, p, data[q][n][p]>> : q \in Replica, n \in BlocksOf(c), p \in Part}
<1>1. Idle \in JobType
  BY DEF Idle, JobType, NoFaults, NoGood, Maybe
<1>2. S \subseteq SeenType
  <2> SUFFICES ASSUME NEW q \in Replica, NEW n \in BlocksOf(c), NEW p \in Part
               PROVE  <<q, n, p, data[q][n][p]>> \in SeenType
    OBVIOUS
  <2>1. n \in BlockNum
    BY ChunkBlocks
  <2>2. data[q][n] \in PartialCell
    BY <2>1 DEF TypeOK
  <2>3. data[q][n][p] \in Maybe(Content) /\ data[q][n][p] \in Maybe(Contents(p))
    BY <2>2 DEF PartialCell
  <2> QED BY <2>1, <2>3 DEF SeenType
<1>3. Fetching(c) = [phase |-> "fetch", chunk |-> c, seen |-> S, todo |-> {},
                     faults |-> NoFaults, good |-> NoGood, old |-> NoFaults]
  <2>1. Fetching(c) = [Idle EXCEPT !.phase = "fetch", !.chunk = c, !.seen = S]
    BY DEF Fetching
  <2> HIDE DEF S
  <2> QED BY <2>1 DEF Idle
<1>4. Fetching(c) \in JobType
  BY <1>2, <1>3 DEF JobType, NoFaults, NoGood, Maybe
<1>5. ASSUME NEW q \in Replica, NEW n \in BlocksOf(c), NEW p \in Part, NEW v,
             <<q, n, p, v>> \in S
      PROVE  v = data[q][n][p]
  BY <1>5
<1>6. Fetching(c).seen = S
  BY <1>3
<1> HIDE DEF S
<1> QED BY <1>1, <1>3, <1>4, <1>5, <1>6

LEMMA SeenFrame ==
  ASSUME TypeOK, SeenInv, data' = data,
         \A j \in Job : job'[j].phase = "fetch" =>
           \/ job[j].phase = "fetch" /\ job'[j] = job[j]
           \/ \E c \in Chunk : job'[j] = Fetching(c)
  PROVE  SeenInv'
<1> SUFFICES ASSUME NEW j \in Job, job'[j].phase = "fetch",
                    NEW q \in Replica, NEW n \in BlocksOf(job'[j].chunk), NEW p \in Part,
                    NEW v \in Maybe(Contents(p)),
                    <<q, n, p, v>> \in job'[j].seen, SoundPart(n, p, v)
             PROVE  SoundPart(n, p, data[q][n][p])
  BY DEF SeenInv
<1>1. CASE job[j].phase = "fetch" /\ job'[j] = job[j]
  BY <1>1 DEF SeenInv
<1>2. CASE \E c \in Chunk : job'[j] = Fetching(c)
  BY <1>2, FetchingType
<1> QED BY <1>1, <1>2

-----------------------------------------------------------------------------
(* The initial state. *)
LEMMA InitOK == Init => IInv
<1> SUFFICES ASSUME Init PROVE IInv
  OBVIOUS
<1>1. Idle \in JobType /\ Idle.phase = "idle"
  BY DEF Idle, JobType, NoFaults, NoGood, Maybe
<1>2. job \in [Job -> JobType] /\ \A j \in Job : job[j].phase = "idle"
  BY <1>1 DEF Init
<1>3. data \in [Replica -> [BlockNum -> PartialCell]] /\ uploaded \in [Replica -> Nat]
  BY CheckerAssumption DEF Init
<1>4. TypeOK
  BY <1>2, <1>3, CheckerAssumption DEF Init, TypeOK, NoGood, Maybe
<1>5. SeenInv /\ FoundInv
  BY <1>2 DEF SeenInv, FoundInv
<1>6. GoodIsSound /\ FixInv
  BY ChunkBlocks DEF Init, GoodIsSound, FixInv, NoGood, Part
<1>7. ProgressInv
  <2>1. "checker" \in Job
    BY DEF Job
  <2> QED BY <1>2, <2>1, ChunkBlocks DEF Init, ProgressInv
<1> QED BY <1>4, <1>5, <1>6, <1>7 DEF IInv

(* The archivers. *)
LEMMA UploadOK ==
  ASSUME IInv, NEW q \in Replica, NEW n \in BlockNum, NEW p \in Part, Upload(q, n, p)
  PROVE  IInv' /\ Kept
<1> USE DEF IInv
<1>1. Uploads[q][n] \in PartialCell
  BY CheckerAssumption
<1>2. Uploads[q][n][p] \in Contents(p)
  BY <1>1 DEF Upload, PartialCell, Maybe
<1>3. Write(q, n, p, Uploads[q][n][p]) /\ data[q][n][p] = None
  BY DEF Upload
<1>4. /\ data' \in [Replica -> [BlockNum -> PartialCell]]
      /\ job' \in [Job -> JobType]
      /\ SameJobs /\ Kept /\ SeenInv'
  BY <1>2, <1>3, WriteKeeps
<1>5. UNCHANGED <<uploaded, results, next, fixer, failures>>
  BY DEF Upload
<1>6. TypeOK'
  BY <1>4, <1>5 DEF TypeOK, SameJobs, results, fixer
<1>7. FoundInv'
  BY <1>4, FoundFrame DEF SameJobs
<1>8. GoodIsSound'
  BY <1>4, <1>5, GoodFrame DEF results
<1>9. FixInv'
  BY <1>4, <1>5, FixFrame DEF fixer
<1>10. ProgressInv'
  <2>1. "checker" \in Job
    BY DEF Job
  <2>2. job["checker"].phase # "idle" => next = job["checker"].chunk
    BY DEF ProgressInv
  <2> QED BY <1>4, <1>5, <2>1, <2>2, ProgressFrame DEF SameJobs, results
<1> QED BY <1>4, <1>6, <1>7, <1>8, <1>9, <1>10

LEMMA UploadMarkerOK ==
  ASSUME IInv, NEW q \in Replica, NEW m \in Tips[q], UploadMarker(q, m)
  PROVE  IInv' /\ Kept
<1> USE DEF IInv
<1>1. UNCHANGED <<data, latestChecked, faults, good, next, job, fixOf, fixFaults, fixGood,
                  task, payload, failures>>
  BY DEF UploadMarker, results, fixer
<1>2. Kept
  BY <1>1 DEF Kept
<1>3. m \in Nat /\ uploaded' \in [Replica -> Nat]
  BY CheckerAssumption DEF UploadMarker, TypeOK
<1>4. TypeOK'
  BY <1>1, <1>3 DEF TypeOK
<1>5. SeenInv' /\ FoundInv' /\ GoodIsSound' /\ FixInv'
  BY <1>1 DEF SeenInv, FoundInv, GoodIsSound, FixInv
<1>6. ProgressInv'
  BY <1>1 DEF ProgressInv, Reported
<1> QED BY <1>2, <1>4, <1>5, <1>6

-----------------------------------------------------------------------------
(* A step of one job that touches nothing else.  It may begin to fetch, go *)
(* on with what it has found, or have found what holds of the replicas.    *)
LEMMA JobFrame ==
  ASSUME IInv, NEW j \in Job, NEW s \in JobType,
         UNCHANGED <<archives, results, next, fixer>>,
         failures' \in 0 .. MaxFailures,
         job' = [job EXCEPT ![j] = s],
         s.phase # "idle" => s.chunk \in Chunk,
         s.phase = "fetch" => \E c \in Chunk : s = Fetching(c),
         s.phase \in {"compare", "store"} =>
           \A n \in BlocksOf(s.chunk) :
             /\ \A q \in Replica : Clear(s.faults[q], n) => SelfConsistent(n, data[q][n])
             /\ s.good[n] # None => SelfConsistent(n, data[s.good[n]][n]),
         j = "checker" =>
           /\ s.phase # "idle" => next = s.chunk
           /\ s.phase = "store" =>
                \A q \in Replica \ s.todo : Reported(s.chunk, q)
           /\ s.phase # "mark"
  PROVE  IInv' /\ Kept
<1> USE DEF IInv
<1>1. UNCHANGED <<data, uploaded, latestChecked, faults, good, next, fixOf, fixFaults,
                  fixGood, task, payload>>
  BY DEF archives, results, fixer
<1>2. \A i \in Job : job'[i] = IF i = j THEN s ELSE job[i]
  BY DEF TypeOK
<1>3. Kept
  BY <1>1 DEF Kept
<1>4. TypeOK'
  <2>1. job' \in [Job -> JobType]
    BY DEF TypeOK
  <2>2. \A i \in Job : job'[i].phase # "idle" => job'[i].chunk \in Chunk
    BY <1>2 DEF TypeOK
  <2> QED BY <1>1, <2>1, <2>2 DEF TypeOK
<1>5. SeenInv'
  BY <1>1, <1>2, SeenFrame
<1>6. FoundInv'
  BY <1>1, <1>2 DEF FoundInv, Clear
<1>7. GoodIsSound' /\ FixInv'
  BY <1>1 DEF GoodIsSound, FixInv
<1>8. ProgressInv'
  <2>1. "checker" \in Job
    BY DEF Job
  <2>2. CASE j # "checker"
    BY <1>1, <1>2, <2>1, <2>2 DEF ProgressInv, Reported
  <2>3. CASE j = "checker"
    BY <1>1, <1>2, <2>1, <2>3 DEF ProgressInv, Reported
  <2> QED BY <2>2, <2>3
<1> QED BY <1>3, <1>4, <1>5, <1>6, <1>7, <1>8

LEMMA CheckBeginOK ==
  ASSUME IInv, CheckBegin
  PROVE  IInv' /\ Kept
<1>1. /\ "checker" \in Job /\ next \in Chunk
      /\ UNCHANGED <<archives, results, next, fixer>> /\ failures' \in 0 .. MaxFailures
      /\ job' = [job EXCEPT !["checker"] = Fetching(next)]
  BY DEF CheckBegin, Job, IInv, TypeOK
<1>2. /\ Fetching(next) \in JobType /\ Fetching(next).phase = "fetch"
      /\ Fetching(next).chunk = next
  BY <1>1, FetchingType DEF IInv
<1> HIDE DEF Fetching
<1> QED BY <1>1, <1>2, JobFrame

LEMMA RecheckBeginOK ==
  ASSUME IInv, NEW j \in Rechecker, NEW c \in Chunk, RecheckBegin(j, c)
  PROVE  IInv' /\ Kept
<1>1. /\ j \in Job /\ j # "checker"
      /\ UNCHANGED <<archives, results, next, fixer>> /\ failures' \in 0 .. MaxFailures
      /\ job' = [job EXCEPT ![j] = Fetching(c)]
  BY CheckerAssumption DEF RecheckBegin, Job, IInv, TypeOK
<1>2. /\ Fetching(c) \in JobType /\ Fetching(c).phase = "fetch"
      /\ Fetching(c).chunk = c
  BY FetchingType DEF IInv
<1> HIDE DEF Fetching
<1> QED BY <1>1, <1>2, JobFrame

(* The record of a job that has found faults fs and good replicas gs. *)
LEMMA FoundRecord ==
  ASSUME NEW ph, NEW c, NEW fs, NEW gs, NEW s,
         s = [Idle EXCEPT !.phase = ph, !.chunk = c, !.todo = Replica,
                          !.faults = fs, !.good = gs]
  PROVE  s = [phase |-> ph, chunk |-> c, seen |-> {}, todo |-> Replica,
              faults |-> fs, good |-> gs, old |-> NoFaults]
BY DEF Idle

(* What a job finds in what it fetched holds of the replicas. *)
LEMMA FetchDoneOK ==
  ASSUME IInv, NEW j \in Job, FetchDone(j)
  PROVE  IInv' /\ Kept
<1> USE DEF IInv
<1> DEFINE c == job[j].chunk
<1>1. job[j].phase = "fetch" /\ c \in Chunk
  BY DEF FetchDone, TypeOK
<1>2. UNCHANGED <<archives, results, next, fixer>>
  BY DEF FetchDone
<1> DEFINE found(view, chosen) ==
             job' = [job EXCEPT ![j] = [Idle EXCEPT
               !.phase = IF j = "checker" THEN "store" ELSE "compare",
               !.chunk = c,
               !.todo = Replica,
               !.faults = [q \in Replica |-> FaultsOf(c, view, chosen, q)],
               !.good = [n \in BlockNum |-> IF n \in BlocksOf(c) THEN chosen[n] ELSE None]]]
<1>3. PICK lost \in Losses \cup {{}} :
        /\ failures' = IF lost = {} THEN failures ELSE failures + 1
        /\ failures' <= MaxFailures
        /\ \E view \in Fetched(job[j], lost) : \E chosen \in GoodBlocks(c, view) :
             found(view, chosen)
  BY DEF FetchDone
<1>4. PICK view \in Fetched(job[j], lost) : \E chosen \in GoodBlocks(c, view) :
            found(view, chosen)
  BY <1>3
<1>4a. PICK chosen \in GoodBlocks(c, view) : found(view, chosen)
  BY <1>4
<1>5. failures' \in 0 .. MaxFailures
  BY <1>3, CheckerAssumption DEF TypeOK
<1> DEFINE fs == [q \in Replica |-> FaultsOf(c, view, chosen, q)]
           gs == [n \in BlockNum |-> IF n \in BlocksOf(c) THEN chosen[n] ELSE None]
           ph == IF j = "checker" THEN "store" ELSE "compare"
           s == [phase |-> ph, chunk |-> c, seen |-> {}, todo |-> Replica,
                 faults |-> fs, good |-> gs, old |-> NoFaults]
<1>6. job' = [job EXCEPT ![j] = s]
  <2>1. job' = [job EXCEPT ![j] = [Idle EXCEPT !.phase = ph, !.chunk = c, !.todo = Replica,
                                               !.faults = fs, !.good = gs]]
    BY <1>4a
  <2> HIDE DEF fs, gs, ph, c
  <2>2. s = [Idle EXCEPT !.phase = ph, !.chunk = c, !.todo = Replica,
                         !.faults = fs, !.good = gs]
    BY FoundRecord
  <2> QED BY <2>1, <2>2
<1>7. fs \in [Replica -> SUBSET Fault]
  <2> SUFFICES ASSUME NEW q \in Replica, NEW n \in BlocksOf(c),
                      FaultOf(c, view, chosen, q, n) # "Ok"
               PROVE  [block |-> n, kind |-> FaultOf(c, view, chosen, q, n)] \in Fault
    BY DEF FaultsOf
  <2>1. n \in BlockNum
    BY <1>1, ChunkBlocks
  <2> QED BY <2>1, FaultKinds DEF Fault
<1>8. gs \in [BlockNum -> Maybe(Replica)]
  BY ChosenIsValid DEF Maybe
<1>9. s \in JobType
  <2>1. ph \in {"idle", "fetch", "compare", "store", "mark"} /\ c \in Maybe(Chunk)
    BY <1>1 DEF Maybe
  <2> HIDE DEF fs, gs, ph, c
  <2> QED BY <2>1, <1>7, <1>8 DEF JobType, NoFaults
<1>10. ASSUME NEW n \in BlocksOf(c), NEW q \in Replica, Clear(fs[q], n)
       PROVE  SelfConsistent(n, data[q][n])
  <2>1. FaultOf(c, view, chosen, q, n) = "Ok"
    <3> SUFFICES ASSUME FaultOf(c, view, chosen, q, n) # "Ok" PROVE FALSE
      OBVIOUS
    <3>1. [block |-> n, kind |-> FaultOf(c, view, chosen, q, n)] \in fs[q]
      BY DEF FaultsOf
    <3> QED BY <3>1, <1>10 DEF Clear
  <2>2. Verdict(c, view, q, n) = "Ok"
    BY <2>1 DEF FaultOf
  <2> QED BY <1>1, <2>2, FetchedIsSound
<1>11. ASSUME NEW n \in BlocksOf(c), gs[n] # None
       PROVE  SelfConsistent(n, data[gs[n]][n])
  <2>1. n \in BlockNum /\ gs[n] = chosen[n]
    BY <1>1, ChunkBlocks
  <2>2. chosen[n] \in Replica /\ Verdict(c, view, chosen[n], n) = "Ok"
    BY <2>1, <1>11, ChosenIsValid DEF Maybe
  <2> QED BY <1>1, <2>1, <2>2, FetchedIsSound
<1>12. j = "checker" => next = c
  BY <1>1 DEF ProgressInv
<1>13. /\ s.phase = ph /\ s.chunk = c /\ s.todo = Replica /\ s.faults = fs /\ s.good = gs
       /\ ph \in {"compare", "store"}
  OBVIOUS
<1>14. Replica \ s.todo = {}
  BY <1>13
<1> HIDE DEF fs, gs, ph, s
<1> QED BY <1>1, <1>2, <1>5, <1>6, <1>9, <1>10, <1>11, <1>12, <1>13, <1>14, JobFrame

LEMMA ReadOldOK ==
  ASSUME IInv, NEW j \in Rechecker, NEW q \in Replica, ReadOld(j, q)
  PROVE  IInv' /\ Kept
<1> USE DEF IInv
<1>1. j \in Job /\ j # "checker"
  BY CheckerAssumption DEF Job
<1>2. job[j] \in JobType /\ job[j].phase = "compare" /\ job[j].chunk \in Chunk
  BY <1>1 DEF ReadOld, TypeOK
<1> DEFINE s == [job[j] EXCEPT !.old[q] = faults[q][job[j].chunk], !.todo = @ \ {q}]
<1>3. /\ UNCHANGED <<archives, results, next, fixer>> /\ failures' \in 0 .. MaxFailures
      /\ job' = [job EXCEPT ![j] = s]
  BY DEF ReadOld, TypeOK
<1>4. /\ s \in JobType /\ s.phase = "compare" /\ s.chunk = job[j].chunk
      /\ s.faults = job[j].faults /\ s.good = job[j].good
  <2>1. faults[q][job[j].chunk] \in SUBSET Fault
    BY <1>2 DEF TypeOK
  <2> QED BY <1>2, <2>1 DEF JobType
<1>5. \A n \in BlocksOf(s.chunk) :
        /\ \A r \in Replica : Clear(s.faults[r], n) => SelfConsistent(n, data[r][n])
        /\ s.good[n] # None => SelfConsistent(n, data[s.good[n]][n])
  BY <1>1, <1>2, <1>4 DEF FoundInv
<1> HIDE DEF s
<1> QED BY <1>1, <1>2, <1>3, <1>4, <1>5, JobFrame

LEMMA CompareOK ==
  ASSUME IInv, NEW j \in Rechecker, Compare(j)
  PROVE  IInv' /\ Kept
<1> USE DEF IInv
<1>1. j \in Job /\ j # "checker"
  BY CheckerAssumption DEF Job
<1>2. job[j] \in JobType /\ job[j].phase = "compare" /\ job[j].chunk \in Chunk
  BY <1>1 DEF Compare, TypeOK
<1>3. UNCHANGED <<archives, results, next, fixer>> /\ failures' \in 0 .. MaxFailures
  BY DEF Compare, TypeOK
<1>4. CASE job' = [job EXCEPT ![j] = Idle]
  <2>1. Idle \in JobType /\ Idle.phase = "idle"
    BY DEF Idle, JobType, NoFaults, NoGood, Maybe
  <2> QED BY <1>1, <1>3, <1>4, <2>1, JobFrame
<1>5. CASE job' = [job EXCEPT ![j].phase = "store", ![j].todo = Replica]
  <2> DEFINE s == [job[j] EXCEPT !.phase = "store", !.todo = Replica]
  <2>1. job' = [job EXCEPT ![j] = s]
    BY <1>5
  <2>2. /\ s \in JobType /\ s.phase = "store" /\ s.chunk = job[j].chunk
        /\ s.faults = job[j].faults /\ s.good = job[j].good
    BY <1>2 DEF JobType
  <2>3. \A n \in BlocksOf(s.chunk) :
          /\ \A r \in Replica : Clear(s.faults[r], n) => SelfConsistent(n, data[r][n])
          /\ s.good[n] # None => SelfConsistent(n, data[s.good[n]][n])
    BY <1>1, <1>2, <2>2 DEF FoundInv
  <2> HIDE DEF s
  <2> QED BY <1>1, <1>2, <1>3, <2>1, <2>2, <2>3, JobFrame
<1> QED BY <1>4, <1>5 DEF Compare

(* A restarted checker skips only chunks that every replica is marked with. *)
LEMMA CheckerStartOK ==
  ASSUME IInv, CheckerStart
  PROVE  IInv' /\ Kept
<1> USE DEF IInv
<1>1. UNCHANGED <<data, uploaded, latestChecked, faults, good, job, fixOf, fixFaults,
                  fixGood, task, payload, failures>>
  BY DEF CheckerStart, archives, results, fixer
<1>2. PICK q \in Replica : next' = IF latestChecked[q] = 0 THEN 0 ELSE latestChecked[q] + 1
  BY DEF CheckerStart
<1>3. latestChecked[q] \in Nat /\ next' \in Nat
  BY <1>2 DEF TypeOK
<1>4. "checker" \in Job
  BY DEF Job
<1>5. job["checker"].phase = "idle"
  <2>1. next = None
    BY DEF CheckerStart
  <2> QED BY <2>1, <1>4, ChunkBlocks, CheckAssumption DEF ProgressInv, TypeOK
<1>6. Kept
  BY <1>1 DEF Kept
<1>7. TypeOK'
  BY <1>1, <1>3 DEF TypeOK, Maybe
<1>8. SeenInv' /\ FoundInv' /\ GoodIsSound' /\ FixInv'
  BY <1>1 DEF SeenInv, FoundInv, GoodIsSound, FixInv
<1>9. ASSUME NEW c \in Chunk, NEW r \in Replica, LastOf(c) < next'
      PROVE  Reported(c, r)
  <2>1. latestChecked[q] >= LastOf(c)
    BY <1>2, <1>3, <1>9, ChunkBlocks
  <2> QED BY <2>1 DEF ProgressInv
<1>10. ProgressInv'
  BY <1>1, <1>5, <1>9 DEF ProgressInv, Reported
<1> QED BY <1>6, <1>7, <1>8, <1>10

(* A replica whose faults have just been stored is reported in full. *)
LEMMA StoreReports ==
  ASSUME IInv, NEW j \in Job, NEW q \in Replica, Store(j, q),
         NEW c \in Chunk, NEW r \in Replica,
         Reported(c, r) \/ (c = job[j].chunk /\ r = q)
  PROVE  Reported(c, r)'
<1> USE DEF IInv
<1>1. data' = data /\ job[j].chunk \in Chunk /\ job[j].phase = "store"
  BY DEF Store, archives, TypeOK
<1>2. faults'[r][c] = IF c = job[j].chunk /\ r = q THEN job[j].faults[q] ELSE faults[r][c]
  BY <1>1 DEF Store, TypeOK
<1>3. CASE c = job[j].chunk /\ r = q
  <2>1. \A n \in BlocksOf(c) : Clear(job[j].faults[q], n) => SelfConsistent(n, data[q][n])
    BY <1>1, <1>3 DEF FoundInv
  <2> QED BY <2>1, <1>1, <1>2, <1>3 DEF Reported
<1>4. CASE ~(c = job[j].chunk /\ r = q)
  BY <1>1, <1>2, <1>4 DEF Reported
<1> QED BY <1>3, <1>4

LEMMA StoreOK ==
  ASSUME IInv, NEW j \in Job, NEW q \in Replica, Store(j, q)
  PROVE  IInv' /\ Kept
<1> USE DEF IInv
<1>1. UNCHANGED <<data, uploaded, latestChecked, good, next, fixOf, fixFaults, fixGood,
                  task, payload, failures>>
  BY DEF Store, archives, fixer
<1>2. /\ job[j] \in JobType /\ job[j].phase = "store" /\ job[j].chunk \in Chunk
      /\ "checker" \in Job
  BY DEF Store, TypeOK, Job
<1> DEFINE s == [job[j] EXCEPT !.todo = @ \ {q}]
<1>3. /\ s \in JobType /\ s.phase = "store" /\ s.chunk = job[j].chunk
      /\ s.faults = job[j].faults /\ s.good = job[j].good /\ s.todo = job[j].todo \ {q}
  BY <1>2 DEF JobType
<1>4. job' = [job EXCEPT ![j] = s]
  BY DEF Store
<1> HIDE DEF s
<1>5. \A i \in Job : job'[i] = IF i = j THEN s ELSE job[i]
  BY <1>4 DEF TypeOK
<1>6. Kept
  BY <1>1 DEF Kept
<1>7. TypeOK'
  <2>1. job' \in [Job -> JobType]
    BY <1>3, <1>4 DEF TypeOK
  <2>2. \A i \in Job : job'[i].phase # "idle" => job'[i].chunk \in Chunk
    BY <1>2, <1>3, <1>5 DEF TypeOK
  <2>3. job[j].faults[q] \in SUBSET Fault
    BY <1>2 DEF JobType
  <2>4. faults' = [faults EXCEPT ![q] = [faults[q] EXCEPT ![job[j].chunk] = job[j].faults[q]]]
    BY DEF Store
  <2>5. faults' \in [Replica -> [Chunk -> SUBSET Fault]]
    <3>1. faults \in [Replica -> [Chunk -> SUBSET Fault]]
      BY DEF TypeOK
    <3>2. [faults[q] EXCEPT ![job[j].chunk] = job[j].faults[q]] \in [Chunk -> SUBSET Fault]
      BY <3>1, <2>3, <1>2
    <3> QED BY <3>1, <3>2, <2>4
  <2> QED BY <1>1, <2>1, <2>2, <2>5 DEF TypeOK
<1>8. SeenInv'
  BY <1>1, <1>3, <1>5, SeenFrame
<1>9. FoundInv'
  BY <1>2, <1>3, <1>5, <1>6, FoundFrame
<1>10. GoodIsSound' /\ FixInv'
  BY <1>1 DEF GoodIsSound, FixInv
<1>11. \A c \in Chunk, r \in Replica : Reported(c, r) => Reported(c, r)'
  BY StoreReports
<1>12. \A c \in Chunk : c = job[j].chunk => Reported(c, q)'
  BY StoreReports
<1>13. job'["checker"].phase # "idle" => next' = job'["checker"].chunk
  BY <1>1, <1>2, <1>3, <1>5 DEF ProgressInv
<1>14. ASSUME job'["checker"].phase = "store", NEW r \in Replica \ job'["checker"].todo,
              NEW c \in Chunk, c = job["checker"].chunk
       PROVE  Reported(c, r)'
  <2>1. job["checker"].phase = "store" /\ job["checker"].chunk \in Chunk
    BY <1>14, <1>2, <1>3, <1>5 DEF TypeOK
  <2>2. CASE j = "checker" /\ r = q
    BY <2>2, <1>12, <1>14
  <2>3. CASE ~(j = "checker" /\ r = q)
    <3>1. r \notin job["checker"].todo
      BY <2>3, <1>14, <1>2, <1>3, <1>5
    <3>2. Reported(c, r)
      BY <3>1, <2>1, <1>14 DEF ProgressInv
    <3> QED BY <3>2, StoreReports
  <2> QED BY <2>2, <2>3
<1>15. ASSUME job'["checker"].phase = "mark", NEW r \in Replica,
              NEW c \in Chunk, c = job["checker"].chunk
       PROVE  Reported(c, r)'
  <2>1. job["checker"].phase = "mark" /\ job["checker"].chunk \in Chunk
    BY <1>15, <1>2, <1>3, <1>5 DEF TypeOK
  <2>2. Reported(c, r)
    BY <2>1, <1>15 DEF ProgressInv
  <2> QED BY <2>2, StoreReports
<1>16. /\ job'["checker"].chunk = job["checker"].chunk
       /\ job["checker"].phase # "idle" => job["checker"].chunk \in Chunk
       /\ job["checker"].phase = job'["checker"].phase
  BY <1>2, <1>3, <1>5 DEF TypeOK
<1>17. ProgressInv'
  BY <1>1, <1>11, <1>13, <1>14, <1>15, <1>16 DEF ProgressInv
<1> QED BY <1>6, <1>7, <1>8, <1>9, <1>10, <1>17

LEMMA StoreGoodOK ==
  ASSUME IInv, NEW j \in Job, StoreGood(j)
  PROVE  IInv' /\ Kept
<1> USE DEF IInv
<1>1. UNCHANGED <<data, uploaded, latestChecked, faults, next, fixOf, fixFaults, fixGood,
                  task, payload, failures>>
  BY DEF StoreGood, archives, fixer
<1>2. /\ job[j] \in JobType /\ job[j].phase = "store" /\ job[j].chunk \in Chunk
      /\ job[j].todo = {} /\ "checker" \in Job
  BY DEF StoreGood, TypeOK, Job
<1>3. PICK s : /\ s = IF j = "checker"
                      THEN [Idle EXCEPT !.phase = "mark", !.chunk = job[j].chunk, !.todo = Replica]
                      ELSE Idle
               /\ job' = [job EXCEPT ![j] = s]
  BY DEF StoreGood
<1>4. /\ s \in JobType
      /\ j = "checker" => s.phase = "mark" /\ s.chunk = job[j].chunk
      /\ j # "checker" => s.phase = "idle"
  <2>1. CASE j = "checker"
    <3>1. s = [phase |-> "mark", chunk |-> job[j].chunk, seen |-> {}, todo |-> Replica,
               faults |-> NoFaults, good |-> NoGood, old |-> NoFaults]
      BY <1>3, <2>1 DEF Idle
    <3> QED BY <3>1, <2>1, <1>2 DEF JobType, NoFaults, NoGood, Maybe
  <2>2. CASE j # "checker"
    BY <1>3, <2>2 DEF Idle, JobType, NoFaults, NoGood, Maybe
  <2> QED BY <2>1, <2>2
<1>5. \A i \in Job : job'[i] = IF i = j THEN s ELSE job[i]
  BY <1>3 DEF TypeOK
<1>6. Kept
  BY <1>1 DEF Kept
<1>7. \A n \in BlockNum : good'[n] = IF n \in BlocksOf(job[j].chunk) THEN job[j].good[n] ELSE good[n]
  BY DEF StoreGood
<1>8. TypeOK'
  <2>1. job' \in [Job -> JobType]
    BY <1>3, <1>4 DEF TypeOK
  <2>2. \A i \in Job : job'[i].phase # "idle" => job'[i].chunk \in Chunk
    BY <1>2, <1>4, <1>5 DEF TypeOK
  <2>3. good' \in [BlockNum -> Maybe(Replica)]
    <3>1. job[j].good \in [BlockNum -> Maybe(Replica)] /\ good \in [BlockNum -> Maybe(Replica)]
      BY <1>2 DEF JobType, TypeOK
    <3> QED BY <3>1 DEF StoreGood
  <2> QED BY <1>1, <2>1, <2>2, <2>3 DEF TypeOK
<1>9. SeenInv'
  BY <1>1, <1>4, <1>5, SeenFrame
<1>10. FoundInv'
  BY <1>4, <1>5, <1>6, FoundFrame
<1>11. GoodIsSound'
  <2>1. \A n \in BlocksOf(job[j].chunk) :
          job[j].good[n] # None => SelfConsistent(n, data[job[j].good[n]][n])
    BY <1>2 DEF FoundInv
  <2> QED BY <1>1, <1>7, <2>1 DEF GoodIsSound
<1>12. FixInv'
  BY <1>1 DEF FixInv
<1>13. ProgressInv'
  <2>1. CASE j = "checker"
    <3>1. \A q \in Replica : Reported(job[j].chunk, q)
      BY <1>2, <2>1 DEF ProgressInv
    <3> QED BY <1>1, <1>2, <1>4, <1>5, <2>1, <3>1 DEF ProgressInv, Reported
  <2>2. CASE j # "checker"
    BY <1>1, <1>2, <1>5, <2>2 DEF ProgressInv, Reported
  <2> QED BY <2>1, <2>2
<1> QED BY <1>6, <1>8, <1>9, <1>10, <1>11, <1>12, <1>13

(* The checker marks a chunk when it and those before it are reported. *)
LEMMA MarkOK ==
  ASSUME IInv, NEW q \in Replica, Mark(q)
  PROVE  IInv' /\ Kept
<1> USE DEF IInv
<1>1. UNCHANGED <<data, uploaded, faults, good, fixOf, fixFaults, fixGood,
                  task, payload, failures>>
  BY DEF Mark, archives, fixer
<1> DEFINE d == job["checker"].chunk
<1>2. /\ "checker" \in Job /\ job["checker"] \in JobType
      /\ job["checker"].phase = "mark" /\ d \in Chunk
  BY DEF Mark, TypeOK, Job
<1>3. next = d /\ \A r \in Replica : Reported(d, r)
  BY <1>2 DEF ProgressInv
<1>4. d \in Nat /\ LastOf(d) \in Nat /\ d # None
  BY <1>2, ChunkBlocks, CheckAssumption
<1>5. ASSUME NEW c \in Chunk, LastOf(c) <= LastOf(d), NEW r \in Replica
      PROVE  Reported(c, r)
  <2>1. c \in Nat /\ c <= d
    BY <1>2, <1>4, <1>5, ChunkBlocks, ChunkOrder, CheckAssumption DEF LastOf
  <2>2. CASE c = d
    BY <2>2, <1>3
  <2>3. CASE c < d
    BY <2>3, <1>2, <1>3, <1>4, ChunkOrder DEF ProgressInv
  <2> QED BY <2>1, <2>2, <2>3, <1>4
<1>6. PICK s : /\ job' = [job EXCEPT !["checker"] = s]
               /\ \/ s = Idle /\ next' = LastOf(d) + 1
                  \/ s = [job["checker"] EXCEPT !.todo = @ \ {q}] /\ next' = next
  BY DEF Mark
<1>7. /\ s \in JobType
      /\ \/ s.phase = "idle" /\ next' = LastOf(d) + 1
         \/ s.phase = "mark" /\ s.chunk = d /\ next' = next
  <2>1. CASE s = Idle /\ next' = LastOf(d) + 1
    BY <2>1 DEF Idle, JobType, NoFaults, NoGood, Maybe
  <2>2. CASE s = [job["checker"] EXCEPT !.todo = @ \ {q}] /\ next' = next
    BY <2>2, <1>2 DEF JobType
  <2> QED BY <2>1, <2>2, <1>6
<1>8. \A i \in Job : job'[i] = IF i = "checker" THEN s ELSE job[i]
  BY <1>6 DEF TypeOK
<1>9. Kept
  BY <1>1 DEF Kept
<1>10. TypeOK'
  <2>1. job' \in [Job -> JobType]
    BY <1>6, <1>7 DEF TypeOK
  <2>2. \A i \in Job : job'[i].phase # "idle" => job'[i].chunk \in Chunk
    BY <1>2, <1>7, <1>8 DEF TypeOK
  <2>3. next' \in Maybe(Nat)
    BY <1>3, <1>4, <1>7 DEF Maybe
  <2>4. latestChecked' \in [Replica -> Nat]
    BY <1>4 DEF Mark, TypeOK
  <2> QED BY <1>1, <2>1, <2>2, <2>3, <2>4 DEF TypeOK
<1>11. SeenInv'
  BY <1>1, <1>7, <1>8, SeenFrame
<1>12. FoundInv'
  BY <1>7, <1>8, <1>9, FoundFrame
<1>13. GoodIsSound' /\ FixInv'
  BY <1>1 DEF GoodIsSound, FixInv
<1>14. \A c \in Chunk, r \in Replica : Reported(c, r) <=> Reported(c, r)'
  BY <1>1 DEF Reported
<1>15. ASSUME NEW c \in Chunk, NEW r \in Replica, NEW t \in Replica,
              latestChecked'[t] >= LastOf(c)
       PROVE  Reported(c, r)
  <2>1. CASE t = q
    <3>1. latestChecked'[t] = LastOf(d)
      BY <2>1 DEF Mark, TypeOK
    <3> QED BY <3>1, <1>4, <1>5, <1>15, ChunkBlocks
  <2>2. CASE t # q
    <3>1. latestChecked'[t] = latestChecked[t]
      BY <2>2 DEF Mark, TypeOK
    <3> QED BY <3>1, <1>15 DEF ProgressInv
  <2> QED BY <2>1, <2>2
<1>16. ASSUME NEW c \in Chunk, NEW r \in Replica, LastOf(c) < next'
       PROVE  Reported(c, r)
  <2>1. CASE next' = LastOf(d) + 1
    BY <2>1, <1>4, <1>5, <1>16, ChunkBlocks
  <2>2. CASE next' = next
    BY <2>2, <1>3, <1>4, <1>16 DEF ProgressInv
  <2> QED BY <2>1, <2>2, <1>7
<1>17. ProgressInv'
  <2>1. /\ job'["checker"].phase # "idle" => next' = job'["checker"].chunk
        /\ job'["checker"].phase # "store"
    BY <1>2, <1>3, <1>7, <1>8
  <2>2. job'["checker"].phase = "mark" => \A r \in Replica : Reported(job["checker"].chunk, r)
    BY <1>3
  <2>3. job'["checker"].phase = "mark" => job'["checker"].chunk = d
    BY <1>2, <1>7, <1>8
  <2> QED BY <1>1, <1>14, <1>15, <1>16, <2>1, <2>2, <2>3, <1>2 DEF ProgressInv
<1> QED BY <1>9, <1>10, <1>11, <1>12, <1>13, <1>17

LEMMA CrashOK ==
  ASSUME IInv, NEW j \in Job, Crash(j)
  PROVE  IInv' /\ Kept
<1> USE DEF IInv
<1>1. UNCHANGED <<data, uploaded, latestChecked, faults, good, fixOf, fixFaults, fixGood,
                  task, payload>>
  BY DEF Crash, archives, results, fixer
<1>2. failures' \in 0 .. MaxFailures /\ next' = (IF j = "checker" THEN None ELSE next)
  BY CheckerAssumption DEF Crash, TypeOK
<1>3. Idle \in JobType /\ Idle.phase = "idle" /\ "checker" \in Job
  BY DEF Idle, JobType, NoFaults, NoGood, Maybe, Job
<1>4. job' = [job EXCEPT ![j] = Idle]
  BY DEF Crash
<1>5. \A i \in Job : job'[i] = IF i = j THEN Idle ELSE job[i]
  BY <1>4 DEF TypeOK
<1>6. Kept
  BY <1>1 DEF Kept
<1>7. TypeOK'
  <2>1. job' \in [Job -> JobType]
    BY <1>3, <1>4 DEF TypeOK
  <2>2. \A i \in Job : job'[i].phase # "idle" => job'[i].chunk \in Chunk
    BY <1>3, <1>5 DEF TypeOK
  <2> QED BY <1>1, <1>2, <2>1, <2>2 DEF TypeOK, Maybe
<1>8. SeenInv'
  BY <1>1, <1>3, <1>5, SeenFrame
<1>9. FoundInv'
  BY <1>3, <1>5, <1>6, FoundFrame
<1>10. GoodIsSound' /\ FixInv'
  BY <1>1 DEF GoodIsSound, FixInv
<1>11. ProgressInv'
  <2>1. CASE j = "checker"
    BY <1>1, <1>2, <1>3, <1>5, <2>1 DEF ProgressInv, Reported
  <2>2. CASE j # "checker"
    BY <1>1, <1>2, <1>3, <1>5, <2>2 DEF ProgressInv, Reported
  <2> QED BY <2>1, <2>2
<1> QED BY <1>6, <1>7, <1>8, <1>9, <1>10, <1>11

-----------------------------------------------------------------------------
(* A step of the fixer that writes no block.  It may set off a rechecker.  *)
LEMMA FixerFrame ==
  ASSUME IInv, UNCHANGED <<data, results, next>>,
         uploaded' \in [Replica -> Nat], failures' \in 0 .. MaxFailures,
         job' \in [Job -> JobType],
         \A j \in Job : \/ job'[j] = job[j]
                        \/ j # "checker" /\ \E c \in Chunk : job'[j] = Fetching(c),
         fixOf' \in [Chunk -> Maybe(Replica)], fixFaults' \in [Chunk -> SUBSET Fault],
         fixGood' \in [BlockNum -> Maybe(Replica)],
         task' \in [BlockNum -> {"none", "fetch", "latest", "bump", "done"} \cup Part],
         payload' \in [BlockNum -> Maybe(Cell)],
         FixInv'
  PROVE  IInv' /\ Kept
<1> USE DEF IInv
<1>1. UNCHANGED <<data, latestChecked, faults, good, next>> /\ "checker" \in Job
  BY DEF results, Job
<1>2. Kept
  BY <1>1 DEF Kept
<1>3. ASSUME NEW j \in Job
      PROVE  \/ job'[j] = job[j]
             \/ job'[j].phase = "fetch" /\ job'[j].chunk \in Chunk
  BY FetchingType
<1>4. TypeOK'
  BY <1>1, <1>3 DEF TypeOK
<1>5. SeenInv'
  BY <1>1, <1>3, SeenFrame
<1>6. FoundInv'
  BY <1>2, <1>3, FoundFrame
<1>7. GoodIsSound'
  BY <1>1 DEF GoodIsSound
<1>8. ProgressInv'
  <2>1. job'["checker"] = job["checker"]
    BY <1>1
  <2> QED BY <1>1, <2>1 DEF ProgressInv, Reported
<1> QED BY <1>2, <1>4, <1>5, <1>6, <1>7, <1>8

LEMMA FixBeginOK ==
  ASSUME IInv, NEW q \in Replica, NEW c \in Chunk, FixBegin(q, c)
  PROVE  IInv' /\ Kept
<1> USE DEF IInv
<1>1. UNCHANGED <<data, uploaded, results, next, job, fixGood, task, payload, failures>>
  BY DEF FixBegin, archives
<1>2. fixOf' \in [Chunk -> Maybe(Replica)] /\ fixFaults' \in [Chunk -> SUBSET Fault]
  BY DEF FixBegin, TypeOK, Maybe
<1>3. \A d \in Chunk : fixOf[d] # None => fixOf'[d] # None
  BY CheckAssumption DEF FixBegin, TypeOK
<1>4. FixInv'
  BY <1>1, <1>3 DEF FixInv
<1> QED BY <1>1, <1>2, <1>4, FixerFrame DEF TypeOK

LEMMA FixRangeOK ==
  ASSUME IInv, NEW c \in Chunk, FixRange(c)
  PROVE  IInv' /\ Kept
<1> USE DEF IInv
<1>1. UNCHANGED <<data, uploaded, results, next, job, fixOf, fixFaults, payload, failures>>
  BY DEF FixRange, archives
<1>2. fixGood' \in [BlockNum -> Maybe(Replica)]
  BY DEF FixRange, TypeOK
<1>3. task' \in [BlockNum -> {"none", "fetch", "latest", "bump", "done"} \cup Part]
  BY DEF FixRange, TypeOK
<1>4. \A n \in BlockNum : fixGood'[n] # None => SelfConsistent(n, data[fixGood'[n]][n])
  BY DEF FixRange, FixInv, GoodIsSound
<1>5. \A n \in BlockNum : \/ task'[n] = task[n]
                          \/ task'[n] = "fetch" /\ n \in BlocksOf(c)
  BY DEF FixRange
<1>6. \A n \in BlockNum : task'[n] \in Part => payload'[n] \in Cell /\ SelfConsistent(n, payload'[n])
  BY <1>1, <1>5 DEF FixInv, Part
<1>7. ASSUME NEW d \in Chunk, NEW n \in BlocksOf(d), task'[n] # "none"
      PROVE  fixOf'[d] # None
  <2>1. n \in BlockNum
    BY ChunkBlocks
  <2>2. CASE task'[n] = task[n]
    BY <2>2, <1>1, <1>7 DEF FixInv
  <2>3. CASE n \in BlocksOf(c)
    <3>1. c = d
      BY <2>3, ChunksDisjoint
    <3> QED BY <3>1, <1>1 DEF FixRange
  <2> QED BY <2>1, <2>2, <2>3, <1>5
<1>8. FixInv'
  BY <1>1, <1>4, <1>6, <1>7 DEF FixInv
<1> QED BY <1>1, <1>2, <1>3, <1>8, FixerFrame DEF TypeOK

(* A block with a good replica on record is fetched as a sound copy. *)
LEMMA FixFetchOK ==
  ASSUME IInv, NEW c \in Chunk, NEW n \in BlocksOf(c), FixFetch(c, n)
  PROVE  IInv' /\ Kept
<1> USE DEF IInv
<1>1. UNCHANGED <<data, uploaded, results, next, job, fixOf, fixFaults, fixGood, failures>>
  BY DEF FixFetch, archives
<1>2. n \in BlockNum /\ fixGood[n] \in Replica
  BY ChunkBlocks DEF FixFetch, TypeOK, Maybe
<1> DEFINE d == data[fixGood[n]][n]
<1>3. SelfConsistent(n, d) /\ d \in PartialCell
  BY <1>2 DEF FixFetch, FixInv, TypeOK
<1>4. d \in Cell
  <2> HIDE DEF d
  <2> QED BY <1>3 DEF SelfConsistent, Whole, PartialCell, Cell, Maybe, Content
<1>5. /\ payload' = [payload EXCEPT ![n] = d]
      /\ task' = [task EXCEPT ![n] = "block"]
      /\ task[n] = "fetch"
  BY DEF FixFetch
<1> HIDE DEF d
<1>6. payload' \in [BlockNum -> Maybe(Cell)]
  BY <1>4, <1>5 DEF TypeOK, Maybe
<1>7. task' \in [BlockNum -> {"none", "fetch", "latest", "bump", "done"} \cup Part]
  BY <1>5 DEF TypeOK, Part
<1>8. /\ \A m \in BlockNum : task'[m] = IF m = n THEN "block" ELSE task[m]
      /\ \A m \in BlockNum : payload'[m] = IF m = n THEN d ELSE payload[m]
  BY <1>5 DEF TypeOK
<1>9. \A m \in BlockNum : task'[m] \in Part => payload'[m] \in Cell /\ SelfConsistent(m, payload'[m])
  BY <1>3, <1>4, <1>8 DEF FixInv
<1>10. \A e \in Chunk : \A m \in BlocksOf(e) : task'[m] # "none" => fixOf[e] # None
  BY <1>5, <1>8, ChunkBlocks DEF FixInv
<1>11. FixInv'
  BY <1>1, <1>9, <1>10 DEF FixInv
<1> QED BY <1>1, <1>6, <1>7, <1>11, FixerFrame DEF TypeOK

(* The fixer writes parts of a sound copy. *)
LEMMA FixPutOK ==
  ASSUME IInv, NEW c \in Chunk, NEW n \in BlocksOf(c), FixPut(c, n)
  PROVE  IInv' /\ Kept
<1> USE DEF IInv
<1>1. n \in BlockNum /\ task[n] \in Part
  BY ChunkBlocks DEF FixPut
<1>2. payload[n] \in Cell /\ SelfConsistent(n, payload[n])
  BY <1>1 DEF FixInv
<1>3. fixOf[c] \in Replica
  BY <1>1 DEF FixInv, TypeOK, Maybe, Part
<1>4. Write(fixOf[c], n, task[n], payload[n][task[n]])
  BY <1>2 DEF FixPut, SelfConsistent
<1>5. /\ payload[n][task[n]] \in Contents(task[n])
      /\ SoundPart(n, task[n], payload[n][task[n]])
  BY <1>1, <1>2 DEF Cell, SoundPart
<1>6. /\ data' \in [Replica -> [BlockNum -> PartialCell]]
      /\ job' \in [Job -> JobType]
      /\ SameJobs /\ Kept /\ SeenInv'
  BY <1>1, <1>3, <1>4, <1>5, WriteKeeps
<1>7. UNCHANGED <<uploaded, latestChecked, faults, good, next, fixOf, fixFaults, fixGood,
                  failures>>
  BY DEF FixPut, results
<1>8. \A m \in BlockNum :
        IF m = n
        THEN /\ task'[n] \in {"receipts", "traces", "latest", "done"}
             /\ payload'[n] = IF task[n] = "traces" THEN None ELSE payload[n]
             /\ task[n] = "traces" => task'[n] \notin Part
        ELSE task'[m] = task[m] /\ payload'[m] = payload[m]
  BY <1>1 DEF FixPut, TypeOK, Part
<1>9. task' \in [BlockNum -> {"none", "fetch", "latest", "bump", "done"} \cup Part]
  <2>1. PICK t : task' = [task EXCEPT ![n] = t]
    BY DEF FixPut
  <2>2. t \in {"none", "fetch", "latest", "bump", "done"} \cup Part
    <3>1. task'[n] = t
      BY <1>1, <2>1 DEF TypeOK
    <3> QED BY <1>1, <1>8, <3>1 DEF Part
  <2> QED BY <2>1, <2>2 DEF TypeOK
<1>10. payload' \in [BlockNum -> Maybe(Cell)]
  BY DEF FixPut, TypeOK, Maybe
<1>11. TypeOK'
  BY <1>6, <1>7, <1>9, <1>10 DEF TypeOK, SameJobs
<1>12. FixInv'
  <2>1. \A m \in BlockNum : fixGood'[m] # None => SelfConsistent(m, data'[fixGood'[m]][m])
    BY <1>6, <1>7 DEF FixInv, Kept, TypeOK, Maybe
  <2>2. \A m \in BlockNum : task'[m] \in Part =>
          payload'[m] \in Cell /\ SelfConsistent(m, payload'[m])
    BY <1>2, <1>8 DEF FixInv
  <2>3. \A e \in Chunk : \A m \in BlocksOf(e) : task'[m] # "none" => fixOf'[e] # None
    BY <1>1, <1>7, <1>8, ChunkBlocks DEF FixInv, Part
  <2> QED BY <2>1, <2>2, <2>3 DEF FixInv
<1>13. FoundInv'
  BY <1>6, FoundFrame DEF SameJobs
<1>14. GoodIsSound'
  BY <1>6, <1>7, GoodFrame
<1>15. ProgressInv'
  <2>1. "checker" \in Job
    BY DEF Job
  <2>2. job["checker"].phase # "idle" => next = job["checker"].chunk
    BY DEF ProgressInv
  <2> QED BY <1>6, <1>7, <2>1, <2>2, ProgressFrame DEF SameJobs
<1> QED BY <1>6, <1>11, <1>12, <1>13, <1>14, <1>15

LEMMA FixLatestOK ==
  ASSUME IInv, NEW c \in Chunk, NEW n \in BlocksOf(c), FixLatest(c, n) \/ FixBump(c, n)
  PROVE  IInv' /\ Kept
<1> USE DEF IInv
<1>1. UNCHANGED <<data, results, next, job, fixOf, fixFaults, fixGood, payload, failures>>
  BY DEF FixLatest, FixBump, archives
<1>2. n \in BlockNum /\ n \in Nat /\ task[n] \in {"latest", "bump"}
  BY ChunkBlocks DEF FixLatest, FixBump, BlockNum
<1>3. uploaded' \in [Replica -> Nat]
  BY <1>2 DEF FixLatest, FixBump, archives, TypeOK
<1>4. PICK t \in {"bump", "done"} : task' = [task EXCEPT ![n] = t]
  <2>1. CASE FixLatest(c, n)
    BY <2>1 DEF FixLatest
  <2>2. CASE FixBump(c, n)
    BY <2>2 DEF FixBump
  <2> QED BY <2>1, <2>2
<1>5. task' \in [BlockNum -> {"none", "fetch", "latest", "bump", "done"} \cup Part]
  BY <1>4 DEF TypeOK
<1>6. \A m \in BlockNum : task'[m] = IF m = n THEN t ELSE task[m]
  BY <1>4 DEF TypeOK
<1>7. \A m \in BlockNum : task'[m] \in Part => payload'[m] \in Cell /\ SelfConsistent(m, payload'[m])
  BY <1>1, <1>6 DEF FixInv, Part
<1>8. \A e \in Chunk : \A m \in BlocksOf(e) : task'[m] # "none" => fixOf'[e] # None
  BY <1>1, <1>2, <1>6, ChunkBlocks DEF FixInv
<1>9. FixInv'
  BY <1>1, <1>7, <1>8 DEF FixInv
<1> QED BY <1>1, <1>3, <1>5, <1>9, FixerFrame DEF TypeOK

(* A fixer that is done with some chunks leaves the others as they are. *)
LEMMA FixOverOK ==
  ASSUME IInv, NEW cs \in SUBSET Chunk, FixOver(cs), data' = data
  PROVE  /\ fixOf' \in [Chunk -> Maybe(Replica)] /\ fixFaults' \in [Chunk -> SUBSET Fault]
         /\ fixGood' \in [BlockNum -> Maybe(Replica)]
         /\ task' \in [BlockNum -> {"none", "fetch", "latest", "bump", "done"} \cup Part]
         /\ payload' \in [BlockNum -> Maybe(Cell)]
         /\ FixInv'
<1> USE DEF IInv
<1>1. fixOf' \in [Chunk -> Maybe(Replica)] /\ fixFaults' \in [Chunk -> SUBSET Fault]
  BY DEF FixOver, TypeOK, Maybe
<1>2. fixGood' \in [BlockNum -> Maybe(Replica)]
  BY DEF FixOver, TypeOK, Maybe
<1>3. task' \in [BlockNum -> {"none", "fetch", "latest", "bump", "done"} \cup Part]
  BY DEF FixOver, TypeOK
<1>4. payload' \in [BlockNum -> Maybe(Cell)]
  BY DEF FixOver, TypeOK, Maybe
<1>5. \A n \in BlockNum :
        \/ /\ fixGood'[n] = None /\ task'[n] = "none"
           /\ \E c \in cs : n \in BlocksOf(c)
        \/ /\ fixGood'[n] = fixGood[n] /\ task'[n] = task[n] /\ payload'[n] = payload[n]
           /\ \A c \in cs : n \notin BlocksOf(c)
  BY DEF FixOver
<1>6. \A n \in BlockNum : fixGood'[n] # None => SelfConsistent(n, data'[fixGood'[n]][n])
  BY <1>5 DEF FixInv
<1>7. \A n \in BlockNum : task'[n] \in Part => payload'[n] \in Cell /\ SelfConsistent(n, payload'[n])
  BY <1>5 DEF FixInv, Part
<1>8. ASSUME NEW c \in Chunk, NEW n \in BlocksOf(c), task'[n] # "none"
      PROVE  fixOf'[c] # None
  <2>1. n \in BlockNum
    BY ChunkBlocks
  <2>2. task'[n] = task[n] /\ c \notin cs
    BY <2>1, <1>5, <1>8
  <2>3. fixOf'[c] = fixOf[c]
    BY <2>2 DEF FixOver
  <2> QED BY <2>2, <2>3, <1>8 DEF FixInv
<1>9. FixInv'
  BY <1>6, <1>7, <1>8 DEF FixInv
<1> QED BY <1>1, <1>2, <1>3, <1>4, <1>9

LEMMA FixDoneOK ==
  ASSUME IInv, NEW c \in Chunk, FixDone(c)
  PROVE  IInv' /\ Kept
<1> USE DEF IInv
<1>1. UNCHANGED <<data, uploaded, results, next, failures>> /\ FixOver({c})
  BY DEF FixDone, archives
<1>2. /\ job' \in [Job -> JobType]
      /\ \A j \in Job : \/ job'[j] = job[j]
                        \/ j # "checker" /\ \E d \in Chunk : job'[j] = Fetching(d)
  <2>1. CASE job' = job
    BY <2>1 DEF TypeOK
  <2>2. CASE \E j \in Rechecker : job' = [job EXCEPT ![j] = Fetching(c)]
    <3>1. PICK j \in Rechecker : job' = [job EXCEPT ![j] = Fetching(c)]
      BY <2>2
    <3>2. j # "checker" /\ Fetching(c) \in JobType
      BY CheckerAssumption, FetchingType
    <3> HIDE DEF Fetching
    <3> QED BY <3>1, <3>2 DEF TypeOK
  <2> QED BY <2>1, <2>2 DEF FixDone
<1>3. {c} \in SUBSET Chunk
  OBVIOUS
<1> QED BY <1>1, <1>2, <1>3, FixOverOK, FixerFrame DEF TypeOK

LEMMA FixAbortOK ==
  ASSUME IInv, FixAbort
  PROVE  IInv' /\ Kept
<1> USE DEF IInv
<1>1. UNCHANGED <<data, uploaded, results, next, job>> /\ FixOver(Chunk)
  BY DEF FixAbort, archives
<1>2. failures' \in 0 .. MaxFailures
  BY CheckerAssumption DEF FixAbort, TypeOK
<1>3. Chunk \in SUBSET Chunk
  OBVIOUS
<1> QED BY <1>1, <1>2, <1>3, FixOverOK, FixerFrame DEF TypeOK

-----------------------------------------------------------------------------
(* Every step keeps the invariant and spoils no copy. *)
LEMMA StepOK ==
  ASSUME IInv, [Next]_vars
  PROVE  IInv' /\ Kept
<1>1. CASE Next
  <2>1. CASE JobStep
    BY <2>1, CheckerStartOK, CheckBeginOK, RecheckBeginOK, ReadOldOK, CompareOK,
       FetchDoneOK, StoreGoodOK, CrashOK, StoreOK, MarkOK DEF JobStep
  <2>2. CASE FixStep
    BY <2>2, FixBeginOK, FixRangeOK, FixDoneOK, FixFetchOK, FixPutOK, FixLatestOK,
       FixAbortOK DEF FixStep
  <2> QED BY <1>1, <2>1, <2>2, UploadOK, UploadMarkerOK DEF Next
<1>2. CASE UNCHANGED vars
  <2>1. UNCHANGED <<data, uploaded, latestChecked, faults, good, next, job, fixOf,
                    fixFaults, fixGood, task, payload, failures>>
    BY <1>2 DEF vars, archives, results, fixer
  <2>2. TypeOK' /\ Kept
    BY <2>1 DEF IInv, TypeOK, Kept
  <2>3. SeenInv' /\ FoundInv' /\ GoodIsSound' /\ FixInv'
    BY <2>1 DEF IInv, SeenInv, FoundInv, GoodIsSound, FixInv
  <2>4. ProgressInv'
    BY <2>1 DEF IInv, ProgressInv, Reported
  <2> QED BY <2>2, <2>3, <2>4 DEF IInv
<1> QED BY <1>1, <1>2

(* The inductive invariant holds throughout. *)
THEOREM Invariance == Spec => []IInv
<1>1. IInv /\ [Next]_vars => IInv'
  BY StepOK
<1> QED BY InitOK, <1>1, PTL DEF Spec

(* The state of the replicas, of the result store, and of the checker, the *)
(* recheckers and the fixer is always of its type.                         *)
THEOREM TypeCorrect == Spec => []TypeOK
<1>1. IInv => TypeOK
  BY DEF IInv
<1> QED BY Invariance, <1>1, PTL

(* Once process_block_batch has marked any replica with a chunk, a block   *)
(* of the chunk with no fault on record is sound, for any number of        *)
(* recheckers, any order of their steps and the fixer's, and any crashes.  *)
THEOREM ReportsComplete == Spec => []UnreportedIsSound
<1>1. IInv => UnreportedIsSound
  BY DEF IInv, ProgressInv, Reported, Clear, UnreportedIsSound
<1> QED BY Invariance, <1>1, PTL

(* The replica that store_checking_results has recorded to repair a block  *)
(* from keeps a sound copy of it, so that fix_fault may copy it unseen.    *)
THEOREM GoodCopies == Spec => []GoodIsSound
<1>1. IInv => GoodIsSound
  BY DEF IInv
<1> QED BY Invariance, <1>1, PTL

(* What is on record about the replicas is true of them, both what is      *)
(* missing from the faults and what repairs are made from (check_chunk).   *)
THEOREM RecordsTrue == Spec => []ReportsSound
<1>1. UnreportedIsSound /\ GoodIsSound => ReportsSound
  BY DEF ReportsSound
<1> QED
  BY <1>1, ReportsComplete, GoodCopies, PTL

(* Neither an archiver's nor the fixer's writes ever spoil a sound copy of *)
(* a block, whatever they interleave with.                                 *)
THEOREM NothingSpoilt == Spec => SoundStays
<1>1. IInv /\ [Next]_vars =>
        [\A q \in Replica, n \in BlockNum :
           SelfConsistent(n, data[q][n]) => SelfConsistent(n, data'[q][n])]_vars
  BY StepOK DEF Kept
<1> QED BY Invariance, <1>1, PTL DEF Spec, SoundStays
===============================================================================
