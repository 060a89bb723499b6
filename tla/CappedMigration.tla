-------------------------- MODULE CappedMigration --------------------------
(***************************************************************************)
(* `monad-indexer migrate-capped`: a capped MongoDB collection is renamed, *)
(* an uncapped one takes its name, the documents are copied back in        *)
(* batches and the renamed one is dropped, while writers go on writing to  *)
(* the collection by its name.  The phase and the last copied id are kept  *)
(* in a document of `_migrations`, and the command may stop between any    *)
(* two of its requests (crash or error) and be started again.              *)
(***************************************************************************)
EXTENDS Naturals, FiniteSets, FiniteSetsExt

CONSTANTS
    LastId,      \* the documents' ids are 1 .. LastId
    BatchSize,   \* the command's batch_size
    MaxVersion,  \* bound: how often the writers write a document
    MaxStops     \* bound: how often the command stops half way

ASSUME MigrationAssumption ==
    /\ LastId \in Nat /\ BatchSize \in Nat \ {0}
    /\ MaxVersion \in Nat \ {0} /\ MaxStops \in Nat

Ids == 1 .. LastId

VARIABLES
    coll,       \* the collection: whether it exists, is capped, its documents
    capped,     \* `<coll>_capped`
    meta,       \* the document of `_migrations`: whether it exists, its state
    state,      \* the running command's copy of that document
    step,       \* what the command does next; "off" when it does not run
    written,    \* history: the version last written of every id, 0 for none
    returned,   \* history: the command has returned Ok
    stops       \* history: how often the command has stopped half way

migrationVars == <<coll, capped, meta, state, step, written, returned, stops>>

NoCollection == [exists |-> FALSE, capped |-> FALSE, docs |-> [i \in {} |-> 0]]
Uncapped == [NoCollection EXCEPT !.exists = TRUE]
NewState == [phase |-> "DiskCheck", last_id |-> 0]

HasDoc(c, i) == i \in DOMAIN c.docs

MigrationInit ==
    /\ \E ids \in SUBSET Ids :
          /\ coll = [exists |-> TRUE, capped |-> TRUE,
                     docs |-> [i \in ids |-> 1]]
          /\ written = [i \in Ids |-> IF i \in ids THEN 1 ELSE 0]
    /\ capped = NoCollection
    /\ meta = [exists |-> FALSE, state |-> NewState]
    /\ state = NewState
    /\ step = "off"
    /\ returned = FALSE
    /\ stops = 0

(***************************************************************************)
(* A writer of the collection: an insert creates a collection that is not  *)
(* there.                                                                  *)
(***************************************************************************)
Write(i) ==
    /\ written[i] < MaxVersion
    /\ written' = [written EXCEPT ![i] = @ + 1]
    /\ coll' = [coll EXCEPT !.exists = TRUE,
                  !.docs = [j \in DOMAIN @ \cup {i} |->
                              IF j = i THEN written[i] + 1 ELSE @[j]]]
    /\ UNCHANGED <<capped, meta, state, step, returned, stops>>

(***************************************************************************)
(* The command: opening the index store creates the collection if it is    *)
(* missing, then the state is loaded.                                      *)
(***************************************************************************)
run_migrate_capped ==
    /\ step = "off"
    /\ coll' = IF coll.exists THEN coll ELSE Uncapped
    /\ state' = IF meta.exists THEN meta.state ELSE NewState
    /\ step' = state'.phase
    /\ returned' = FALSE
    /\ UNCHANGED <<capped, meta, written, stops>>

upsert(s) ==
    /\ state' = s
    /\ meta' = [exists |-> TRUE, state |-> s]

\* The disk has room; a command that finds none stops (see Stop).
ensure_disk_space ==
    /\ step = "DiskCheck"
    /\ upsert([state EXCEPT !.phase = "Renamed"])
    /\ step' = "Renamed"
    /\ UNCHANGED <<coll, capped, written, returned, stops>>

\* A collection that is not capped is taken to have been migrated.
maybe_rename ==
    /\ step = "Renamed"
    /\ IF coll.capped
       THEN /\ capped' = coll
            /\ coll' = NoCollection
            /\ step' = "Create"
       ELSE /\ step' = "Delete"
            /\ UNCHANGED <<coll, capped>>
    /\ UNCHANGED <<meta, state, written, returned, stops>>

create_uncapped_and_indexes ==
    /\ step = "Create"
    /\ coll' = IF coll.exists THEN coll ELSE Uncapped
    /\ step' = "Created"
    /\ UNCHANGED <<capped, meta, state, written, returned, stops>>

EnterCopying ==
    /\ step = "Created"
    /\ upsert([state EXCEPT !.phase = "Copying"])
    /\ step' = "Copying"
    /\ UNCHANGED <<coll, capped, written, returned, stops>>

\* The first BatchSize ids after last_id.
Remaining == {i \in DOMAIN capped.docs : i > state.last_id}
NextIds == {i \in Remaining : Cardinality({j \in Remaining : j < i}) < BatchSize}

\* A merge that replaces what it finds.
MergeOver(dst, ids) ==
    [i \in DOMAIN dst \cup ids |-> IF i \in ids THEN capped.docs[i] ELSE dst[i]]

\* $merge with keepExisting: what the writers have written since is newer.
MergeInto(dst, ids) ==
    [i \in DOMAIN dst \cup ids |-> IF i \in DOMAIN dst THEN dst[i]
                                                       ELSE capped.docs[i]]

copy_batches ==
    /\ step = "Copying"
    /\ IF NextIds = {}
       THEN /\ step' = "Copied"
            /\ UNCHANGED <<coll, state>>
       ELSE /\ coll' = [coll EXCEPT !.docs = MergeInto(@, NextIds)]
            /\ state' = [state EXCEPT !.last_id = Max(NextIds)]
            /\ step' = "Checkpoint"
    /\ UNCHANGED <<capped, meta, written, returned, stops>>

SaveCheckpoint ==
    /\ step = "Checkpoint"
    /\ upsert(state)
    /\ step' = "Copying"
    /\ UNCHANGED <<coll, capped, written, returned, stops>>

EnterDropping ==
    /\ step = "Copied"
    /\ upsert([state EXCEPT !.phase = "Dropping"])
    /\ step' = "Dropping"
    /\ UNCHANGED <<coll, capped, written, returned, stops>>

\* The counts of the two collections are compared and only logged.
drop_source ==
    /\ step = "Dropping"
    /\ capped' = NoCollection
    /\ step' = "Delete"
    /\ UNCHANGED <<coll, meta, state, written, returned, stops>>

DeleteState ==
    /\ step = "Delete"
    /\ meta' = [exists |-> FALSE, state |-> NewState]
    /\ step' = "off"
    /\ returned' = TRUE
    /\ state' = NewState
    /\ UNCHANGED <<coll, capped, written, stops>>

\* A crash, or a request that fails: `?` ends the command.
Stop ==
    /\ step # "off"
    /\ stops < MaxStops
    /\ stops' = stops + 1
    /\ step' = "off"
    /\ state' = NewState
    /\ UNCHANGED <<coll, capped, meta, written, returned>>

MigrationNext ==
    \/ \E i \in Ids : Write(i)
    \/ run_migrate_capped
    \/ ensure_disk_space
    \/ maybe_rename
    \/ create_uncapped_and_indexes
    \/ EnterCopying
    \/ copy_batches
    \/ SaveCheckpoint
    \/ EnterDropping
    \/ drop_source
    \/ DeleteState
    \/ Stop

-----------------------------------------------------------------------------
(***************************************************************************)
(* No document is lost and none goes back in time, whenever the command    *)
(* stops and whatever the writers do: the collection holds the version     *)
(* written last, or has none and the renamed collection holds it.          *)
(***************************************************************************)
DocumentsKept ==
    \A i \in Ids : written[i] > 0 =>
        IF HasDoc(coll, i) THEN coll.docs[i] = written[i]
        ELSE HasDoc(capped, i) /\ capped.docs[i] = written[i]

(***************************************************************************)
(* "Call it as many times as you like; it is crash-resumable": once the    *)
(* command has returned Ok, every document is in the collection.           *)
(***************************************************************************)
MigrationComplete ==
    returned => \A i \in Ids : written[i] > 0 => HasDoc(coll, i)

=============================================================================
