--------------------------- MODULE MCArchiveFiles --------------------------
(***************************************************************************)
(* The archiver's programs around the block pipeline, side by side: each   *)
(* behaviour is one of them, chosen at the start, so that one run checks   *)
(* the stores, the two file workers, the block writer, the migration, the  *)
(* transaction index and the reader with its circuit breaker.              *)
(***************************************************************************)
EXTENDS KVStores, FolderArchiver, BlockWriter, CappedMigration, TxIndex,
        CircuitBreaker

CONSTANT Programs

VARIABLE program

vars == <<program, kvVars, folderVars, writerVars, migrationVars,
          txIndexVars, breakerVars>>

MCPuts ==
    {[key |-> "body", value |-> <<"b1", "b2">>, policy |-> "NoClobber"],
     [key |-> "body", value |-> <<"c1", "c2", "c3">>, policy |-> "AllowOverwrite"]}

MCDirOf == [f \in {"f1"} |-> "sub"] @@ [f \in {"tmp"} |-> "root"]
MCParentOf == [d \in {"sub"} |-> "root"]

MCWriteRanges == {<<0, 0>>, <<1, 3>>}

MCTx(code, size, logs, gas) == [code |-> code, size |-> size, logs |-> logs, gas |-> gas]
MCContent ==
    {<< >>, <<MCTx(1, 4, 2, 1)>>, <<MCTx(1, 1, 1, 2), MCTx(2, 9, 3, 1), MCTx(3, 2, 0, 4)>>}

Init ==
    /\ program \in Programs
    /\ IF program = "stores" THEN \E b \in Backends : KvInit(b)
       ELSE KvInit("Memory")
    /\ FolderInit
    /\ WriterInit
    /\ IF program = "migration" THEN MigrationInit
       ELSE MigrationInit /\ \A i \in Ids : written[i] = 0
    /\ IF program = "txindex" THEN \E c \in IndexedBlocks : TxIndexInit(c)
       ELSE /\ content = << >> /\ txEntry = << >> /\ scanned = << >>
            /\ stored = [kind \in Kinds |-> Missing]
    /\ BreakerInit /\ (program # "reader" => hasFallback)

Next ==
    \/ /\ program = "stores"
       /\ KvNext
       /\ UNCHANGED <<program, folderVars, writerVars, migrationVars, txIndexVars, breakerVars>>
    \/ /\ program = "folders"
       /\ FolderNext
       /\ UNCHANGED <<program, kvVars, writerVars, migrationVars, txIndexVars, breakerVars>>
    \/ /\ program = "ledger"
       /\ BftNext
       /\ UNCHANGED <<program, kvVars, writerVars, migrationVars, txIndexVars, breakerVars>>
    \/ /\ program = "writer"
       /\ WriterNext
       /\ UNCHANGED <<program, kvVars, folderVars, migrationVars, txIndexVars, breakerVars>>
    \/ /\ program = "migration"
       /\ MigrationNext
       /\ UNCHANGED <<program, kvVars, folderVars, writerVars, txIndexVars, breakerVars>>
    \/ /\ program = "txindex"
       /\ TxIndexNext
       /\ UNCHANGED <<program, kvVars, folderVars, writerVars, migrationVars, breakerVars>>
    \/ /\ program = "reader"
       /\ BreakerNext
       /\ UNCHANGED <<program, kvVars, folderVars, writerVars, migrationVars, txIndexVars>>

(***************************************************************************)
(* Every program is a loop that goes on: a client's requests answer or     *)
(* fail, the workers rescan on a timer, and time passes for files and      *)
(* directories.  Readers keep asking, sources answer or time out, and not  *)
(* every request is dropped while it waits for the primary.                *)
(***************************************************************************)
Fairness ==
    /\ \A w \in KvWriters : WF_kvVars(program = "stores" /\ KvRequest(w))
    /\ WF_kvVars(program = "stores" /\ S3Stale)
    /\ WF_folderVars(\/ program = "folders" /\ FolderStep
                     \/ program = "ledger" /\ BftStep)
    /\ WF_folderVars(\/ program = "folders" /\ \E f \in Files : AgeFile(f)
                     \/ program = "ledger" /\ \E f \in LedgerFiles : AgeFile(f))
    /\ \A d \in Dirs : WF_folderVars(program = "folders" /\ Cool(d))
    /\ WF_writerVars(program = "writer" /\ WriterStep)
    /\ \A r \in Request : /\ WF_breakerVars(program = "reader" /\ Execute(r))
                          /\ SF_breakerVars(program = "reader" /\ AskPrimary(r))
    /\ WF_breakerVars(program = "reader" /\ RecoveryTimeout)

Spec == Init /\ [][Next]_vars

FairSpec == Spec /\ Fairness

(***************************************************************************)
(* The programs make progress, and are done again and again with what they *)
(* have been given: repeated puts settle, since a client that is stuck is  *)
(* made anew; a file that was too new, or failed to upload, when its       *)
(* directory was marked is found again once the directory has gone cold;   *)
(* the block writer keeps up with the archive.                             *)
(***************************************************************************)
FilesProgress ==
    []<>(/\ program = "stores" => PutsSettled
         /\ FilesArchived
         /\ program = "writer" => WriterCaughtUp)
=============================================================================
