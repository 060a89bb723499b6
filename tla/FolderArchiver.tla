-------------------------- MODULE FolderArchiver ---------------------------
(***************************************************************************)
(* The archiver's file workers.  The folder worker walks a directory tree  *)
(* on every tick and, in the directories whose modification time has moved *)
(* since it last processed them, uploads the files that are old enough;    *)
(* what it knows of a directory is dropped once the directory has been     *)
(* cold for an hour.  The BFT worker does the same for the ledger's files  *)
(* without the directory cache.  Other processes create, write and remove  *)
(* the files meanwhile, which the workers know from modification times     *)
(* alone.  The store is any of KVStores whose put is atomic.               *)
(***************************************************************************)
EXTENDS Naturals, Sequences, FiniteSets, SequencesExt

CONSTANTS
    Files, LedgerFiles,   \* the folder worker's files, the BFT worker's
    Dirs, Root,           \* the folder worker's directories, the outermost
    DirOf, ParentOf,      \* a file's directory, a directory's parent
    Excluded,             \* files and directories with the exclude prefix
    MaxWrites,            \* bound: how often files are created or written
    MaxFileFaults         \* bound: how often a request fails, the clock is set
                          \* back, the archiver restarts

ASSUME FolderAssumption ==
    /\ IsFiniteSet(Dirs) /\ Root \in Dirs /\ DirOf \in [Files -> Dirs]
    /\ ParentOf \in [Dirs \ {Root} -> Dirs]
    /\ Files \cap LedgerFiles = {}
    /\ MaxWrites \in Nat /\ MaxFileFaults \in Nat

AllFiles == Files \cup LedgerFiles

VARIABLES
    present,     \* the files that exist
    version,     \* a file's content: how often it was created or written
    age,         \* its modification time: "new" and "old" by the minimum age,
                 \* "ahead" of the clock
    modified,    \* a directory's modification time, 0 while it does not exist
    object,      \* the store: the version of a file it holds, 0 for none
    upload,      \* process_single_file: its next request and the bytes read
    dir_states,  \* the directory cache: an entry, or NoEntry
    walk,        \* the folder worker: where it is, its queue, the directory it
                 \* works on, its modification time as read, the files left
    known_in_s3, \* the BFT worker's
    bft,         \* the BFT worker: whether a tick runs, and the files left
    quiet,       \* history: the first version that passed the age check, or 0
    writes,      \* history: how often files were created or written
    fileFaults   \* history: the faults so far

fileVars == <<present, version, age, quiet, writes>>
folderVars == <<fileVars, modified, object, upload, dir_states, walk,
                known_in_s3, bft, fileFaults>>

NoEntry == [cached |-> FALSE, known |-> {}, seen |-> 0, hot |-> FALSE]
NoDir == "none"
Idle == [at |-> "idle", queue |-> <<>>, dir |-> NoDir, modified |-> 0,
         left |-> {}]
BftIdle == [running |-> FALSE, left |-> {}]
NotBegun == [at |-> "exists", bytes |-> 0]

FolderInit ==
    /\ present = {}
    /\ version = [f \in AllFiles |-> 0]
    /\ age = [f \in AllFiles |-> "new"]
    /\ quiet = [f \in AllFiles |-> 0]
    /\ writes = 0
    /\ modified = [d \in Dirs |-> IF d = Root THEN 1 ELSE 0]
    /\ object = [f \in AllFiles |-> 0]
    /\ upload = [f \in AllFiles |-> NotBegun]
    /\ dir_states = [d \in Dirs |-> NoEntry]
    /\ walk = Idle
    /\ known_in_s3 = {}
    /\ bft = BftIdle
    /\ fileFaults = 0

-----------------------------------------------------------------------------
(***************************************************************************)
(* The other processes, and the clock.  A file may be written again after  *)
(* any pause, and be created anew under its name; writing to it does not   *)
(* touch its directory.                                                    *)
(***************************************************************************)
Exists(f) == f \in present

FileFault ==
    /\ fileFaults < MaxFileFaults
    /\ fileFaults' = fileFaults + 1

Touched(ds) == [d \in Dirs |-> modified[d] + IF d \in ds THEN 1 ELSE 0]

DirsMadeBy(f) ==
    LET d == DirOf[f]
    IN  IF modified[d] = 0 THEN {d, ParentOf[d]} ELSE {d}

Written(f) ==
    /\ writes < MaxWrites
    /\ writes' = writes + 1
    /\ version' = [version EXCEPT ![f] = @ + 1]
    /\ age' = [age EXCEPT ![f] = "new"]

CreateFile(f) ==
    /\ ~Exists(f)
    /\ f \in Files /\ DirOf[f] # Root => modified[ParentOf[DirOf[f]]] > 0
    /\ present' = present \cup {f}
    /\ Written(f)
    /\ modified' = IF f \in Files THEN Touched(DirsMadeBy(f)) ELSE modified
    /\ UNCHANGED <<object, upload, dir_states, walk, known_in_s3, bft, quiet,
                   fileFaults>>

WriteFile(f) ==
    /\ Exists(f)
    /\ Written(f)
    /\ UNCHANGED <<present, modified, object, upload, dir_states, walk,
                   known_in_s3, bft, quiet, fileFaults>>

RemoveFile(f) ==
    /\ Exists(f)
    /\ present' = present \ {f}
    /\ age' = [age EXCEPT ![f] = "new"]
    /\ modified' = IF f \in Files THEN Touched({DirOf[f]}) ELSE modified
    /\ UNCHANGED <<version, object, upload, dir_states, walk, known_in_s3, bft,
                   quiet, writes, fileFaults>>

\* The version a file has now passes the age check.
Passes(f) == quiet' = [quiet EXCEPT ![f] = IF @ = 0 THEN version[f] ELSE @]

\* Time passes: a modification time comes to be past, or the minimum age goes
\* by.
AgeFile(f) ==
    /\ Exists(f) /\ age[f] # "old"
    /\ \/ age[f] = "new" /\ age' = [age EXCEPT ![f] = "old"] /\ Passes(f)
       \/ age[f] = "ahead" /\ age' = [age EXCEPT ![f] = "new"] /\ UNCHANGED quiet
    /\ UNCHANGED <<present, version, modified, object, upload, dir_states, walk,
                   known_in_s3, bft, writes, fileFaults>>

\* The clock is set back behind a file's modification time.
SetClockBack(f) ==
    /\ Exists(f) /\ age[f] # "ahead"
    /\ FileFault
    /\ age' = [age EXCEPT ![f] = "ahead"]
    /\ Passes(f)
    /\ UNCHANGED <<present, version, modified, object, upload, dir_states, walk,
                   known_in_s3, bft, writes>>

\* An hour without the directory being processed.
Cool(d) ==
    /\ dir_states[d].hot
    /\ dir_states' = [dir_states EXCEPT ![d].hot = FALSE]
    /\ UNCHANGED <<fileVars, modified, object, upload, walk, known_in_s3, bft,
                   fileFaults>>

-----------------------------------------------------------------------------
(***************************************************************************)
(* What both workers do with a file: three requests, each of which may     *)
(* fail, a put also after it was applied.  A time that cannot be compared  *)
(* with the clock's is not too new.                                        *)
(***************************************************************************)
NeverTooNew(f) == FALSE
file_is_too_new(f) == age[f] = "new"

entry_has_excluded_prefix(x) == x \in Excluded

Put(f) ==
    object' = [object EXCEPT ![f] = IF @ = 0 THEN upload[f].bytes ELSE @]

GoesOn(f, next) == upload' = [upload EXCEPT ![f] = next]

\* The next request of a file; answer says whether the worker goes on with it,
\* and what it gets in the end.
process_single_file(f, answer) ==
    \/ /\ upload[f].at = "exists"
       /\ UNCHANGED <<object, fileFaults>>
       /\ \/ object[f] # 0 /\ answer = "exists" /\ GoesOn(f, NotBegun)
          \/ /\ object[f] = 0 /\ answer = "goes on"
             /\ GoesOn(f, [NotBegun EXCEPT !.at = "read"])
    \/ /\ upload[f].at = "read"
       /\ UNCHANGED <<object, fileFaults>>
       /\ \/ ~Exists(f) /\ answer = "error" /\ GoesOn(f, NotBegun)
          \/ /\ Exists(f) /\ answer = "goes on"
             /\ GoesOn(f, [at |-> "put", bytes |-> version[f]])
    \/ /\ upload[f].at = "put" /\ answer = "put"
       /\ Put(f)
       /\ GoesOn(f, NotBegun)
       /\ UNCHANGED fileFaults
    \/ /\ FileFault /\ answer = "error"
       /\ object' = object \/ (upload[f].at = "put" /\ Put(f))
       /\ GoesOn(f, NotBegun)

Answers == {"goes on", "exists", "put", "error"}
Left(left, f, answer) == IF answer = "goes on" THEN left ELSE left \ {f}

-----------------------------------------------------------------------------
(***************************************************************************)
(* The folder worker.                                                      *)
(***************************************************************************)
recursive_dir_archiver ==
    /\ walk.at = "idle"
    /\ walk' = [Idle EXCEPT !.at = "walk", !.queue = <<Root>>]
    /\ UNCHANGED <<fileVars, modified, object, upload, dir_states, known_in_s3, bft,
                   fileFaults>>

\* last_seen_modified is None in an entry that has not been processed.
directory_changed(d) ==
    dir_states[d].seen = 0 \/ modified[d] > dir_states[d].seen

ChildDirs(d) ==
    {c \in Dirs \ {Root} : /\ ParentOf[c] = d /\ modified[c] > 0
                           /\ ~entry_has_excluded_prefix(c)}

\* The subdirectories that read_dir lists join the queue.
EnqueueChildren(d, queue) == queue \o SetToSeq(ChildDirs(d))

\* The next directory of the queue is looked at; one that has not changed is
\* only walked through.
archive_recursive_tick ==
    /\ walk.at = "walk" /\ walk.queue # <<>>
    /\ LET d == Head(walk.queue)
       IN  IF directory_changed(d)
           THEN /\ walk' = [walk EXCEPT !.at = "list", !.queue = Tail(@),
                              !.dir = d, !.modified = modified[d]]
                /\ dir_states' = [dir_states EXCEPT
                     ![d] = IF @.cached THEN @
                            ELSE [NoEntry EXCEPT !.cached = TRUE, !.hot = TRUE]]
           ELSE /\ walk' = [walk EXCEPT !.queue = EnqueueChildren(d, Tail(@))]
                /\ UNCHANGED dir_states
    /\ UNCHANGED <<fileVars, modified, object, upload, known_in_s3, bft, fileFaults>>

LocalFiles(d) ==
    {f \in Files : /\ DirOf[f] = d /\ Exists(f)
                   /\ ~entry_has_excluded_prefix(f) /\ ~file_is_too_new(f)}

\* The files are listed; with none old enough archive_dir returns at once and
\* the keys known are kept.
archive_dir ==
    /\ walk.at = "list"
    /\ LET d == walk.dir
           local == LocalFiles(d)
           known == dir_states[d].known \cap local
       IN  /\ dir_states' = [dir_states EXCEPT
                               ![d].known = IF local = {} THEN @ ELSE known]
           /\ walk' = [walk EXCEPT !.at = "files", !.left = local \ known]
    /\ UNCHANGED <<fileVars, modified, object, upload, known_in_s3, bft, fileFaults>>

\* The listing fails and ends the tick: the directory is not marked.
ListingFails ==
    /\ walk.at = "list"
    /\ FileFault
    /\ walk' = [Idle EXCEPT !.at = "walk"]
    /\ UNCHANGED <<fileVars, modified, object, upload, dir_states, known_in_s3, bft>>

\* A file that was uploaded is not marked as known: the next look at the
\* directory finds it in the store.
FolderFile(f) ==
    /\ walk.at = "files" /\ f \in walk.left
    /\ \E answer \in Answers :
          /\ process_single_file(f, answer)
          /\ walk' = [walk EXCEPT !.left = Left(@, f, answer)]
          /\ dir_states' = [dir_states EXCEPT ![walk.dir].known =
                               IF answer = "exists" THEN @ \cup {f} ELSE @]
    /\ UNCHANGED <<fileVars, modified, known_in_s3, bft>>

\* Uploads that failed, and files that were too new, do not keep the directory
\* from being marked with the time read before it was listed.
mark_processed ==
    /\ walk.at = "files" /\ walk.left = {}
    /\ dir_states' = [dir_states EXCEPT ![walk.dir].seen = walk.modified,
                                        ![walk.dir].hot = TRUE]
    /\ walk' = [Idle EXCEPT !.at = "walk",
                  !.queue = EnqueueChildren(walk.dir, walk.queue)]
    /\ UNCHANGED <<fileVars, modified, object, upload, known_in_s3, bft, fileFaults>>

KeepDirStates == dir_states' = dir_states
gc_dir_state ==
    dir_states' = [d \in Dirs |-> IF dir_states[d].hot THEN dir_states[d]
                                                       ELSE NoEntry]

EndTick ==
    /\ walk.at = "walk" /\ walk.queue = <<>>
    /\ gc_dir_state
    /\ walk' = Idle
    /\ UNCHANGED <<fileVars, modified, object, upload, known_in_s3, bft, fileFaults>>

-----------------------------------------------------------------------------
(***************************************************************************)
(* The BFT worker.  A directory that cannot be read counts as empty.       *)
(***************************************************************************)
add_dir_to_local_map(unread) ==
    {f \in LedgerFiles \ unread : Exists(f) /\ ~file_is_too_new(f)}

archive_bft_blocks ==
    /\ ~bft.running
    /\ \E unread \in SUBSET LedgerFiles :
         /\ IF unread = {} THEN UNCHANGED fileFaults ELSE FileFault
         /\ LET local == add_dir_to_local_map(unread)
                known == known_in_s3 \cap local
            IN  IF local = {}
                THEN UNCHANGED <<known_in_s3, bft>>
                ELSE /\ known_in_s3' = known
                     /\ bft' = [running |-> TRUE, left |-> local \ known]
    /\ UNCHANGED <<fileVars, modified, object, upload, dir_states, walk>>

\* Here a file that was uploaded is known at once.
BftFile(f) ==
    /\ f \in bft.left
    /\ \E answer \in Answers :
          /\ process_single_file(f, answer)
          /\ bft' = [bft EXCEPT !.left = Left(@, f, answer)]
          /\ known_in_s3' = known_in_s3 \cup
                              IF answer \in {"exists", "put"} THEN {f} ELSE {}
    /\ UNCHANGED <<fileVars, modified, dir_states, walk>>

bft_block_archive_worker ==
    /\ bft.running /\ bft.left = {}
    /\ bft' = BftIdle
    /\ UNCHANGED <<fileVars, modified, object, upload, dir_states, walk, known_in_s3,
                   fileFaults>>

\* The archiver restarts: both workers begin with nothing known.
Restart ==
    /\ FileFault
    /\ dir_states' = [d \in Dirs |-> NoEntry]
    /\ walk' = Idle /\ bft' = BftIdle
    /\ upload' = [f \in AllFiles |-> NotBegun]
    /\ known_in_s3' = {}
    /\ UNCHANGED <<fileVars, modified, object>>

-----------------------------------------------------------------------------
FolderStep ==
    \/ recursive_dir_archiver
    \/ archive_recursive_tick
    \/ archive_dir
    \/ \E f \in Files : FolderFile(f)
    \/ mark_processed
    \/ EndTick

BftStep ==
    \/ archive_bft_blocks
    \/ \E f \in LedgerFiles : BftFile(f)
    \/ bft_block_archive_worker

\* What the other processes and the clock do to a worker's files.
FilesChange(files) ==
    \/ \E f \in files : CreateFile(f)
    \/ \E f \in files : WriteFile(f)
    \/ \E f \in files : RemoveFile(f)
    \/ \E f \in files : AgeFile(f)
    \/ \E f \in files : SetClockBack(f)

FolderNext ==
    \/ FilesChange(Files)
    \/ \E d \in Dirs : Cool(d)
    \/ FolderStep
    \/ ListingFails
    \/ Restart

BftNext ==
    \/ FilesChange(LedgerFiles)
    \/ BftStep
    \/ Restart

-----------------------------------------------------------------------------
\* The prefix hides what the folder worker lists: neither its root directory
\* nor the BFT worker's files.
Hidden(f) == f \in Files /\ (f \in Excluded \/ DirOf[f] \in Excluded \ {Root})

(***************************************************************************)
(* NoClobber keeps the first upload of a name for good.  It is no older    *)
(* than the first version that nobody wrote for the minimum age, or that   *)
(* the clock fell behind: a file whose writer does not pause so long       *)
(* before it is done is stored as its writer left it, whatever writes,     *)
(* removals, faults and restarts come between the listing, the read and    *)
(* the put.  Nothing hidden is stored, and what the workers will not look  *)
(* at again, because they know it to be stored, is.                        *)
(***************************************************************************)
StoredQuiet ==
    /\ \A f \in AllFiles :
         object[f] # 0 => /\ quiet[f] # 0 /\ ~Hidden(f)
                          /\ object[f] \in quiet[f] .. version[f]
    /\ \A f \in known_in_s3 : object[f] # 0
    /\ \A d \in Dirs : \A f \in dir_states[d].known : object[f] # 0

(***************************************************************************)
(* Every file that is there is archived.                                   *)
(***************************************************************************)
FilesArchived == \A f \in AllFiles : Exists(f) /\ ~Hidden(f) => object[f] # 0
=============================================================================
