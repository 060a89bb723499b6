------------------------------ MODULE KVStores -----------------------------
(***************************************************************************)
(* The key value stores of monad-archive, each as the requests it makes.   *)
(* A value is a sequence of chunks: MongoDB writes one of several chunks   *)
(* as several documents; a file is opened and then written; an S3 request  *)
(* may be applied and its answer lost, and its client be stuck until it is *)
(* made anew; DynamoDB writes batches.  Writers retry until they have an   *)
(* answer, and may die in between.                                         *)
(***************************************************************************)
EXTENDS Naturals, Sequences, FiniteSets

CONSTANTS
    Backends,       \* the kinds of store
    KvWriters,      \* the processes that put
    Puts,           \* what they put: [key, value, policy] records
    MaxKvFaults     \* bound: how many requests fail, and writers die

\* Values are sequences of chunks.  Nothing says that the puts of a key agree:
\* the fixer overwrites the objects of a block with another replica's.
ASSUME KvAssumption ==
    /\ Backends \subseteq {"Memory", "FileSystem", "AwsS3", "Mongo", "AwsDynamoDB"}
    /\ \A p \in Puts : /\ Len(p.value) \in Nat
                      /\ p.value = [n \in 1 .. Len(p.value) |-> p.value[n]]
    /\ MaxKvFaults \in Nat

Keys == {p.key : p \in Puts}

VARIABLES
    backend,       \* the store
    docs,          \* what it holds: a function from ids to documents
    putting,       \* the put every writer is in, and its next request
    reading,       \* a reader between the main document and its chunks
    got,           \* what the step answered a reader
    client,        \* the S3 client: "good" or "stuck"
    stale,         \* CLIENT_RECREATE_AFTER_SECS without a success
    pending,       \* history: what has not been put yet, or has to be put again
    torn,          \* history: the keys whose chunks are not those of one put
    disturbed,     \* history: the writers whose chunks another put replaced
    kvFaults       \* history: the faults so far

tearVars == <<torn, disturbed>>
kvVars == <<backend, docs, putting, reading, got, client, stale,
            pending, tearVars, kvFaults>>

\* The id of a key's document, and chunk_id of its n-th chunk.
Main(key) == <<key, 0>>
chunk_id(key, n) == <<key, n>>

Inline(value) == [value |-> value, chunks |-> 0]
Chunked(n) == [value |-> <<>>, chunks |-> n]

NoPut == [request |-> "none"]
NotReading == [key |-> "none"]
NoAnswer == [result |-> "none"]

KvInit(b) ==
    /\ backend = b
    /\ docs = [i \in {} |-> Inline(<<>>)]
    /\ putting = [w \in KvWriters |-> NoPut]
    /\ reading = NotReading
    /\ got = NoAnswer
    /\ client = "good"
    /\ stale = FALSE
    /\ pending = Puts
    /\ torn = {} /\ disturbed = {}
    /\ kvFaults = 0

Holds(i) == i \in DOMAIN docs
With(i, doc) == [j \in DOMAIN docs \cup {i} |-> IF j = i THEN doc ELSE docs[j]]
Without(i) == [j \in DOMAIN docs \ {i} |-> docs[j]]

exists(key) == Holds(Main(key))

-----------------------------------------------------------------------------
(***************************************************************************)
(* A put begins with its first request, given by the kind of store.        *)
(***************************************************************************)
FirstRequest(p) ==
    CASE backend = "Memory" -> [request |-> "memory", put |-> p]
      [] backend = "FileSystem" -> [request |-> "open", put |-> p]
      [] backend = "AwsS3" -> [request |-> "put_object", put |-> p]
      [] backend = "AwsDynamoDB" -> [request |-> "batch_write", put |-> p]
      [] backend = "Mongo" ->
           IF Len(p.value) <= 1 THEN [request |-> "main", put |-> p]
           ELSE IF p.policy = "NoClobber" THEN [request |-> "check", put |-> p]
           ELSE [request |-> "chunk", put |-> p, n |-> 1]

BeginPut(w, p) ==
    /\ putting[w] = NoPut
    /\ p \in pending
    /\ putting' = [putting EXCEPT ![w] = FirstRequest(p)]
    /\ disturbed' = disturbed \ {w}
    /\ got' = NoAnswer
    /\ UNCHANGED <<backend, docs, reading, client, stale, pending, torn, kvFaults>>

\* The put ends with an answer; one that failed is put again.
Answer(w, result) ==
    /\ putting' = [putting EXCEPT ![w] = NoPut]
    /\ pending' = IF result = "Err" THEN pending ELSE pending \ {putting[w].put}

GoOn(w, request) ==
    /\ putting' = [putting EXCEPT ![w] = request]
    /\ UNCHANGED pending

At(w, request) == putting[w].request = request
Key(w) == putting[w].put.key
Value(w) == putting[w].put.value
Skips(w) == putting[w].put.policy = "NoClobber" /\ exists(Key(w))

Fault ==
    /\ kvFaults < MaxKvFaults
    /\ kvFaults' = kvFaults + 1

\* MemoryStorage::put, under its lock; should_fail makes it fail.
MemoryPut(w) ==
    /\ At(w, "memory")
    /\ \/ /\ docs' = IF Skips(w) THEN docs ELSE With(Main(Key(w)), Inline(Value(w)))
          /\ Answer(w, IF Skips(w) THEN "Skipped" ELSE "Written")
          /\ UNCHANGED kvFaults
       \/ /\ Fault
          /\ Answer(w, "Err")
          /\ UNCHANGED docs
    /\ got' = NoAnswer
    /\ UNCHANGED <<backend, reading, client, stale, tearVars>>

\* FsStorage::put: create_new fails on a file that is there, an overwrite cuts
\* it to nothing; the directory or the file may fail to be made.
FsOpen(w) ==
    /\ At(w, "open")
    /\ \/ /\ Skips(w)
          /\ Answer(w, "Skipped")
          /\ UNCHANGED <<docs, kvFaults>>
       \/ /\ ~Skips(w)
          /\ docs' = With(Main(Key(w)), Inline(<<>>))
          /\ GoOn(w, [putting[w] EXCEPT !.request = "write_all"])
          /\ UNCHANGED kvFaults
       \/ /\ Fault
          /\ Answer(w, "Err")
          /\ UNCHANGED docs
    /\ got' = NoAnswer
    /\ UNCHANGED <<backend, reading, client, stale, tearVars>>

FsWrite(w) ==
    /\ At(w, "write_all")
    /\ \/ /\ docs' = With(Main(Key(w)), Inline(Value(w)))
          /\ Answer(w, "Written")
          /\ UNCHANGED kvFaults
       \/ /\ Fault
          /\ Answer(w, "Err")
          /\ UNCHANGED docs
    /\ got' = NoAnswer
    /\ UNCHANGED <<backend, reading, client, stale, tearVars>>

(***************************************************************************)
(* Bucket::put.  on_result resets the timer, or makes the client anew once *)
(* there was no success for CLIENT_RECREATE_AFTER_SECS.                    *)
(***************************************************************************)
ForgetFailure == UNCHANGED <<client, stale>>
maybe_recreate_client ==
    IF stale THEN client' = "good" /\ stale' = FALSE
             ELSE UNCHANGED <<client, stale>>

on_result(is_success) ==
    IF is_success THEN stale' = FALSE /\ UNCHANGED client
                  ELSE maybe_recreate_client

S3Put(w) ==
    /\ At(w, "put_object")
    /\ \/ /\ client = "good"
          /\ docs' = IF Skips(w) THEN docs ELSE With(Main(Key(w)), Inline(Value(w)))
          /\ \/ /\ Answer(w, IF Skips(w) THEN "Skipped" ELSE "Written")
                /\ on_result(TRUE)
                /\ UNCHANGED kvFaults
             \/ /\ Fault
                /\ Answer(w, "Err")
                /\ on_result(FALSE)
       \/ /\ client = "stuck"
          /\ Answer(w, "Err")
          /\ on_result(FALSE)
          /\ UNCHANGED <<docs, kvFaults>>
    /\ got' = NoAnswer
    /\ UNCHANGED <<backend, reading, tearVars>>

\* The client's connections break; time passes without a success.
S3Stuck ==
    /\ backend = "AwsS3" /\ client = "good"
    /\ Fault
    /\ client' = "stuck"
    /\ got' = NoAnswer
    /\ UNCHANGED <<backend, docs, putting, reading, stale,
                   pending, tearVars>>

S3Stale ==
    /\ backend = "AwsS3" /\ client = "stuck" /\ ~stale
    /\ stale' = TRUE
    /\ got' = NoAnswer
    /\ UNCHANGED <<backend, docs, putting, reading, client,
                   pending, tearVars, kvFaults>>

(***************************************************************************)
(* MongoDbStorage::put: a large value with NoClobber is checked first, its *)
(* chunks are written one by one under the ids the key's chunks always     *)
(* have, and the document that names them last.  A chunk that takes the    *)
(* place of another put's tears the key, and disturbs the puts and the     *)
(* reader that rely on the other; the key is whole again once a put that   *)
(* nobody disturbed has written its document.                              *)
(***************************************************************************)
Replaces(id, doc) == Holds(id) /\ docs[id] # doc

WriteChunk(w) ==
    LET n   == putting[w].n
        id  == chunk_id(Key(w), n)
        doc == Inline(<<Value(w)[n]>>)
        others == {v \in KvWriters \ {w} :
                     putting[v].request \in {"chunk", "main"} /\ Key(v) = Key(w)}
    IN  /\ docs' = With(id, doc)
        /\ IF Replaces(id, doc)
           THEN /\ torn' = torn \cup {Key(w)}
                /\ disturbed' = disturbed \cup others
                /\ reading' = IF reading # NotReading /\ reading.key = Key(w)
                              THEN [reading EXCEPT !.torn = TRUE] ELSE reading
           ELSE UNCHANGED <<tearVars, reading>>

KeyValueDocument(value) ==
    IF Len(value) > 1 THEN Chunked(Len(value)) ELSE Inline(value)

WriteMain(w) ==
    /\ IF Skips(w) THEN UNCHANGED <<docs, torn>>
       ELSE /\ docs' = With(Main(Key(w)), KeyValueDocument(Value(w)))
            /\ torn' = IF w \in disturbed THEN torn \cup {Key(w)}
                       ELSE torn \ {Key(w)}
    /\ UNCHANGED <<reading, disturbed>>

MongoCheck(w) ==
    /\ At(w, "check")
    /\ IF Skips(w) THEN Answer(w, "Skipped")
       ELSE GoOn(w, [request |-> "chunk", put |-> putting[w].put, n |-> 1])
    /\ got' = NoAnswer
    /\ UNCHANGED <<backend, docs, reading, client, stale, tearVars, kvFaults>>

\* The last chunk is left out.
AfterChunkButLast(w) ==
    LET n == putting[w].n
    IN  IF n + 1 < Len(Value(w)) THEN [putting[w] EXCEPT !.n = n + 1]
        ELSE [request |-> "main", put |-> putting[w].put]

\* After the n-th chunk: the next one, or the main document.
AfterChunk(w) ==
    LET n == putting[w].n
    IN  IF n < Len(Value(w)) THEN [putting[w] EXCEPT !.n = n + 1]
        ELSE [request |-> "main", put |-> putting[w].put]

MongoChunk(w) ==
    /\ At(w, "chunk")
    /\ WriteChunk(w)
    /\ GoOn(w, AfterChunk(w))
    /\ got' = NoAnswer
    /\ UNCHANGED <<backend, client, stale, kvFaults>>

MongoMain(w) ==
    /\ At(w, "main")
    /\ WriteMain(w)
    /\ Answer(w, IF Skips(w) THEN "Skipped" ELSE "Written")
    /\ got' = NoAnswer
    /\ UNCHANGED <<backend, client, stale, kvFaults>>

\* A request fails, or is applied and its answer lost.
MongoFails(w) ==
    /\ Fault
    /\ \/ /\ putting[w].request \in {"check", "chunk", "main"}
          /\ UNCHANGED <<docs, reading, tearVars>>
       \/ At(w, "chunk") /\ WriteChunk(w)
       \/ At(w, "main") /\ WriteMain(w)
    /\ Answer(w, "Err")
    /\ got' = NoAnswer
    /\ UNCHANGED <<backend, client, stale>>

\* DynamoDB's batch_write_item: the batch is written, whatever the key held, or
\* fails, or leaves items unprocessed, which is a failure too.
upload_to_db(w, ok) ==
    \/ /\ ok
       /\ docs' = With(Main(Key(w)), Inline(Value(w)))
       /\ UNCHANGED kvFaults
    \/ /\ ~ok
       /\ Fault
       /\ UNCHANGED docs

\* DynamoDBArchive::bulk_put ignores the policy, and joins the tasks of the
\* batches without looking at what they returned: a batch that failed is
\* answered as written.  The table only holds the transaction index, which is
\* put in bulk; nobody calls the single put.
DynamoBulkPut(w) ==
    /\ At(w, "batch_write")
    /\ \E ok \in BOOLEAN : upload_to_db(w, ok)
    /\ Answer(w, "Written")
    /\ got' = NoAnswer
    /\ UNCHANGED <<backend, reading, client, stale, tearVars>>

\* A writer dies; what it was putting is put again by its successor.
Die(w) ==
    /\ putting[w] # NoPut
    /\ Fault
    /\ putting' = [putting EXCEPT ![w] = NoPut]
    /\ got' = NoAnswer
    /\ UNCHANGED <<backend, docs, reading, client, stale, pending, tearVars>>

-----------------------------------------------------------------------------
(***************************************************************************)
(* Readers.  An S3 object that is empty reads as none; MongoDB's document  *)
(* is read first and its chunks in a second request.                       *)
(***************************************************************************)
Some(key, value, mixed) ==
    [result |-> "some", key |-> key, value |-> value, mixed |-> mixed]
None(key) == [result |-> "none_found", key |-> key]
ChunkNotFound(key) == [result |-> "chunk_not_found", key |-> key]

Lookup(key) ==
    IF exists(key) THEN Some(key, docs[Main(key)].value, FALSE) ELSE None(key)

Reads(b) ==
    /\ backend = b
    /\ reading = NotReading
    /\ UNCHANGED <<backend, docs, putting, pending, tearVars>>

\* Memory and files; a read that fails changes nothing.
LocalGet(key) ==
    /\ Reads("Memory") \/ Reads("FileSystem")
    /\ got' = Lookup(key)
    /\ UNCHANGED <<reading, client, stale, kvFaults>>

\* Bucket::get, through the same client as the puts.
S3Get(key) ==
    /\ Reads("AwsS3")
    /\ IF client = "good"
       THEN /\ got' = IF exists(key) /\ docs[Main(key)].value = <<>>
                      THEN None(key) ELSE Lookup(key)
            /\ on_result(TRUE)
       ELSE /\ on_result(FALSE)
            /\ got' = NoAnswer
    /\ UNCHANGED <<reading, kvFaults>>

\* batch_get asks again for the keys that were not processed.
batch_get(key) ==
    /\ Reads("AwsDynamoDB")
    /\ got' = Lookup(key)
    /\ UNCHANGED <<reading, client, stale, kvFaults>>

MongoGet(key) ==
    /\ Reads("Mongo")
    /\ IF exists(key) /\ docs[Main(key)].chunks > 0
       THEN /\ reading' = [key |-> key, chunks |-> docs[Main(key)].chunks,
                          torn |-> key \in torn]
            /\ got' = NoAnswer
       ELSE /\ got' = Lookup(key)
            /\ UNCHANGED reading
    /\ UNCHANGED <<client, stale, kvFaults>>

\* KeyValueDocument::resolve
resolve ==
    /\ reading # NotReading
    /\ LET ids == {chunk_id(reading.key, n) : n \in 1 .. reading.chunks}
       IN  got' = IF \A i \in ids : Holds(i)
                  THEN Some(reading.key, [n \in 1 .. reading.chunks |->
                              docs[chunk_id(reading.key, n)].value[1]], reading.torn)
                  ELSE ChunkNotFound(reading.key)
    /\ reading' = NotReading
    /\ UNCHANGED <<backend, docs, putting, client, stale, pending,
                   tearVars, kvFaults>>

\* delete: MongoDB leaves a key's chunks, DynamoDB has no delete.  Nobody
\* deletes a key while its file is open.
delete(key) ==
    /\ backend # "AwsDynamoDB"
    /\ exists(key)
    /\ \A w \in KvWriters : At(w, "write_all") => Key(w) # key
    /\ Fault
    /\ docs' = Without(Main(key))
    /\ pending' = pending \cup {p \in Puts : p.key = key}
    /\ got' = NoAnswer
    /\ UNCHANGED <<backend, putting, reading, client, stale, tearVars>>

KvRequest(w) ==
    \/ \E p \in Puts : BeginPut(w, p)
    \/ MemoryPut(w)
    \/ FsOpen(w) \/ FsWrite(w)
    \/ S3Put(w)
    \/ MongoCheck(w) \/ MongoChunk(w) \/ MongoMain(w)
    \/ DynamoBulkPut(w)

KvNext ==
    \/ \E w \in KvWriters : KvRequest(w)
    \/ \E w \in KvWriters : MongoFails(w)
    \/ \E w \in KvWriters : Die(w)
    \/ S3Stuck \/ S3Stale
    \/ \E key \in Keys : LocalGet(key)
    \/ \E key \in Keys : S3Get(key)
    \/ \E key \in Keys : batch_get(key)
    \/ \E key \in Keys : MongoGet(key)
    \/ resolve
    \/ \E key \in Keys : delete(key)

-----------------------------------------------------------------------------
(***************************************************************************)
(* A get finds every chunk, and answers with a value somebody put under    *)
(* the key, whole, although puts of the key overlap it, failed, died or    *)
(* were repeated.  There are two exceptions: a file that is being written  *)
(* or was left half written; and a MongoDB key whose chunks another put    *)
(* replaced while they were read, or left replaced without a document of   *)
(* its own: there the chunks may be of several puts, each the n-th of one. *)
(***************************************************************************)
Whole(key, value) == \E p \in Puts : p.key = key /\ p.value = value
ChunkWise(key, value) ==
    \A n \in 1 .. Len(value) :
        \E p \in Puts : p.key = key /\ n <= Len(p.value) /\ p.value[n] = value[n]

ReadsExact ==
    /\ got.result # "chunk_not_found"
    /\ got.result = "some" =>
         \/ Whole(got.key, got.value)
         \/ backend = "FileSystem" /\ got.value = <<>>
         \/ backend = "Mongo" /\ got.mixed /\ ChunkWise(got.key, got.value)

(***************************************************************************)
(* Every put is written or skipped.                                        *)
(***************************************************************************)
PutsSettled == pending = {}
=============================================================================
