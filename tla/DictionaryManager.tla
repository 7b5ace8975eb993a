-------------------------- MODULE DictionaryManager -------------------------
(* dict::DictionaryManager (dictionarymanager.cpp) with the import jobs it   *)
(* creates (dictionaryimportjob.cpp), the writer that installs their files   *)
(* from the import thread (StoreWriter::finish() in store.cpp), the dialog   *)
(* that removes and restores entries, the lookups that keep the Stores of a  *)
(* published snapshot open, and the process, which may end at any step.      *)
(*                                                                           *)
(* Left out: order and priority, the word-class table, source files and      *)
(* downloads, an unreadable list, a store of another schema version, and a   *)
(* failing delete or save.  At most one import of a dictionary runs at once. *)
EXTENDS StoreFiles, FiniteSets

CONSTANTS
    Ids,            \* the dictionaries
    Platforms,      \* the values of `windows` to consider
    UnseenImports,  \* Application imports an update while the dialog is open
    MaxCrashes      \* bound: the times the process ends

ASSUME PlatformsAssumption == Platforms \subseteq BOOLEAN
ASSUME UnseenImportsAssumption == UnseenImports \in BOOLEAN
ASSUME MaxCrashesAssumption == MaxCrashes \in Nat

VARIABLES
    windows,            \* an open file can be neither replaced nor deleted
    builtIns,           \* the dictionaries builtInDictionaries() offers
    files,              \* the store files of each dictionary
    entry,              \* m_dictionaries
    snapshot,           \* m_snapshot: the Store each dictionary publishes
    held,               \* the Stores a lookup or its response keeps
    pendingRemovals,    \* m_pendingRemovals
    pendingPromotions,  \* m_pendingPromotions
    retryTimer,         \* m_retryTimer is active
    job,                \* the import job of each dictionary
    backup,             \* DictionaryManagerDialog::m_removed
    savePending,        \* DictionaryManagerDialog::m_savePending
    diskList,           \* dictionaries.json
    diskRemovals,       \* the pending-removals file
    imports,            \* history: the number of imports started
    crashes,            \* history: the number of times the process ended
    restored,           \* history: removed entries put back by an undo, or
                        \* by the list an earlier process had not saved yet
    torn                \* history: imports cut between two of their files

fixed == <<windows, builtIns>>
disk == <<diskList, diskRemovals>>
history == <<crashes, restored, torn>>
vars == <<fixed, files, entry, snapshot, held, pendingRemovals,
          pendingPromotions, retryTimer, job, backup, savePending, disk,
          imports, history>>

(* `imported` stands for importedAt, `unavailable` for storeUnavailable.     *)
Entry == [listed : BOOLEAN, enabled : BOOLEAN, imported : File,
          needsReimport : BOOLEAN, unavailable : BOOLEAN,
          store : Store \cup {NoStore}]

(* Dictionary::toJson() writes neither needsReimport nor storeUnavailable.   *)
Saved == [listed : BOOLEAN, enabled : BOOLEAN, imported : File]
Json(e) == [listed |-> e.listed, enabled |-> e.enabled, imported |-> e.imported]
Parsed(s) == [listed |-> s.listed, enabled |-> s.enabled, imported |-> s.imported,
              needsReimport |-> FALSE, unavailable |-> FALSE, store |-> NoStore]

(* The stages of a job: run() and begin() precede "writing"; the others up   *)
(* to "done" are the file moves of StoreWriter::finish().                    *)
Installing == {"dropStagedDb", "dropStagedKeys", "moveKeys", "stageKeys"}
Stage == {"none", "queued", "writing", "moveDb", "done"} \cup Installing
Job == [stage : Stage, import : File, ok : BOOLEAN]
NoJob == [stage |-> "none", import |-> Absent, ok |-> FALSE]

(* The keys of m_runningImports.                                             *)
Running == {id \in Ids : job[id].stage # "none"}

Backup == [entry : Entry, db : File, keys : File]
NoBackup == [entry |-> Parsed([listed |-> FALSE, enabled |-> FALSE, imported |-> Absent]),
             db |-> Absent, keys |-> Absent]

TypeOK ==
    /\ windows \in Platforms
    /\ builtIns \in SUBSET Ids
    /\ files \in [Ids -> Files]
    /\ entry \in [Ids -> Entry]
    /\ snapshot \in [Ids -> Store \cup {NoStore}]
    /\ held \in [Ids -> Store \cup {NoStore}]
    /\ pendingRemovals \subseteq Ids
    /\ pendingPromotions \subseteq Ids
    /\ retryTimer \in BOOLEAN
    /\ job \in [Ids -> Job]
    /\ backup \in [Ids -> Backup]
    /\ savePending \in BOOLEAN
    /\ diskList \in [Ids -> Saved]
    /\ diskRemovals \subseteq Ids
    /\ imports \in 0 .. MaxImports
    /\ crashes \in 0 .. MaxCrashes
    /\ restored \subseteq Ids
    /\ torn \subseteq Ids

(* A first start, and custom dictionaries added but not imported.            *)
Init ==
    /\ windows \in Platforms
    /\ builtIns \in SUBSET Ids
    /\ files = [id \in Ids |-> NoFiles]
    /\ diskList = [id \in Ids |->
                     [listed |-> TRUE, enabled |-> TRUE, imported |-> Absent]]
    /\ entry = [id \in Ids |-> Parsed(diskList[id])]
    /\ snapshot = [id \in Ids |-> NoStore]
    /\ held = [id \in Ids |-> NoStore]
    /\ pendingRemovals = {}
    /\ pendingPromotions = {}
    /\ retryTimer = FALSE
    /\ job = [id \in Ids |-> NoJob]
    /\ backup = [id \in Ids |-> NoBackup]
    /\ savePending = FALSE
    /\ diskRemovals = {}
    /\ imports = 0
    /\ crashes = 0
    /\ restored = {}
    /\ torn = {}

-----------------------------------------------------------------------------
(* The Stores of id that keep its files busy: those of the last snapshot and *)
(* of a lookup, and the one the entry owns.                                  *)
Open(id, own) ==
    IF windows THEN {snapshot[id], held[id], own} \ {NoStore} ELSE {}

(* openStore(): what becomes of the entry e and the files f of a dictionary  *)
(* while the Stores in `open` are alive.  `waits` says how pendingPromotions *)
(* changes: the dictionary joins it, leaves it, or neither.                  *)
OpenOutcome(e, f, waits) == [entry |-> e, files |-> f, waits |-> waits]

LoadStore(e, f, waits) ==
    OpenOutcome(IF f.db = Absent THEN [e EXCEPT !.unavailable = TRUE]
                                 ELSE [e EXCEPT !.store = Opened(f)], f, waits)

Skipped(e) == e.store # NoStore \/ e.imported = Absent \/ e.unavailable

(* Mutant: a store is opened although files staged beside it wait.           *)
OpenStoreSuperseded(running, e, f, open) ==
    IF Skipped(e) THEN OpenOutcome(e, f, "same")
    ELSE IF running THEN LoadStore(e, f, "same")
    ELSE LoadStore(e, Promote(f, open), IF PromotePending(f, open) THEN "join" ELSE "leave")

OpenStore(running, e, f, open) ==
    IF Skipped(e) THEN OpenOutcome(e, f, "same")
    ELSE IF running
    THEN IF HasStaged(f) THEN OpenOutcome(e, f, "same") ELSE LoadStore(e, f, "same")
    ELSE IF PromotePending(f, open) THEN OpenOutcome(e, Promote(f, open), "join")
    ELSE LoadStore(e, Promote(f, open), "leave")

Published(e) == e.listed /\ e.enabled /\ ~e.needsReimport

(* publishSnapshot() after an operation left the entries es, the files fs    *)
(* and the imports `running`, while the Stores in open[id] are alive.        *)
OpenStores(running, es, fs, open) ==
    [id \in Ids |-> IF Published(es[id])
                    THEN OpenStore(id \in running, es[id], fs[id], open[id])
                    ELSE OpenOutcome(es[id], fs[id], "same")]

Joining(out) == {id \in Ids : out[id].waits = "join"}
Leaving(out) == {id \in Ids : out[id].waits = "leave"}

PublishStores(out, waiting) ==
    /\ entry' = [id \in Ids |-> out[id].entry]
    /\ files' = [id \in Ids |-> out[id].files]
    /\ snapshot' = [id \in Ids |->
                      IF Published(out[id].entry) THEN out[id].entry.store ELSE NoStore]
    /\ pendingPromotions' = (waiting \cup Joining(out)) \ Leaving(out)

(* schedulePendingRetry() starts the timer for an id that has to wait;       *)
(* `timer` says it runs already.  The replaced snapshot is alive until then. *)
Publish(running, es, fs, waiting, timer) ==
    LET out == OpenStores(running, es, fs, [id \in Ids |-> Open(id, NoStore)])
    IN /\ PublishStores(out, waiting)
       /\ retryTimer' = (timer \/ Joining(out) # {})

-----------------------------------------------------------------------------
(* The operations of the dialogs.  Each ends in changed(), which schedules   *)
(* the save of the list.                                                     *)

(* Mutant: an entry is changed and no snapshot published.                    *)
EditedQuietly(id, e) ==
    /\ entry' = [entry EXCEPT ![id] = e]
    /\ UNCHANGED <<files, snapshot, pendingPromotions, retryTimer>>

Edited(id, e) == Publish(Running, [entry EXCEPT ![id] = e], files, pendingPromotions, retryTimer)

DialogFrame ==
    /\ savePending' = TRUE
    /\ UNCHANGED <<fixed, held, job, disk, imports, crashes, torn>>

Toggled(e, on) ==
    IF on THEN [e EXCEPT !.enabled = TRUE]
    ELSE [e EXCEPT !.enabled = FALSE, !.store = NoStore]

SetEnabled(id, on) ==
    /\ entry[id].listed
    /\ entry[id].enabled # on
    /\ Edited(id, Toggled(entry[id], on))
    /\ DialogFrame
    /\ UNCHANGED <<pendingRemovals, backup, restored>>

(* setOptions() with an option that changes which records an import writes.  *)
SetOptions(id) ==
    /\ entry[id].listed
    /\ Edited(id, [entry[id] EXCEPT !.needsReimport = TRUE])
    /\ DialogFrame
    /\ UNCHANGED <<pendingRemovals, backup, restored>>

SetSourcePath(id) ==
    /\ entry[id].listed
    /\ Edited(id, [entry[id] EXCEPT !.unavailable = FALSE])
    /\ DialogFrame
    /\ UNCHANGED <<pendingRemovals, backup, restored>>

(* rename(), move() and sortDictionaries(), as far as stores are concerned.  *)
Rearrange ==
    /\ Publish(Running, entry, files, pendingPromotions, retryTimer)
    /\ DialogFrame
    /\ UNCHANGED <<pendingRemovals, backup, restored>>

(* remove(): the files go at once, except those a Store keeps busy, whose    *)
(* removal is recorded on disk and left to the retry timer.                  *)

Removed(id, e) ==
    LET closed == [e EXCEPT !.store = NoStore, !.unavailable = FALSE]
    IN IF id \in builtIns
       THEN [closed EXCEPT !.imported = Absent, !.needsReimport = FALSE]
       ELSE [closed EXCEPT !.listed = FALSE]

(* Mutant: a removal that has to wait is not written to pending-removals.    *)
RemoveFilesOrWaitUnrecorded(id) ==
    /\ files[id] # NoFiles
    /\ pendingRemovals' = IF RemovePending(files[id], Open(id, NoStore))
                          THEN pendingRemovals \cup {id} ELSE pendingRemovals
    /\ UNCHANGED diskRemovals

RemoveFilesOrWait(id) ==
    IF RemovePending(files[id], Open(id, NoStore))
    THEN /\ pendingRemovals' = pendingRemovals \cup {id}
         /\ diskRemovals' = pendingRemovals'
    ELSE UNCHANGED <<pendingRemovals, diskRemovals>>

(* removeSelected() copies the files of a custom entry first; the staged     *)
(* ones are not among them.  The dialog refuses while it imports the entry   *)
(* itself, and knows of no other import.                                     *)
Remove(id) ==
    /\ entry[id].listed
    /\ id \in Running => UnseenImports
    /\ backup' = IF id \in builtIns THEN backup
                 ELSE [backup EXCEPT ![id] =
                         [entry |-> [entry[id] EXCEPT !.store = NoStore],
                          db |-> files[id].db, keys |-> files[id].keys]]
    /\ RemoveFilesOrWait(id)
    /\ Publish(Running, [entry EXCEPT ![id] = Removed(id, entry[id])],
               [files EXCEPT ![id] = RemoveFiles(files[id], Open(id, NoStore))],
               pendingPromotions \ {id},
               retryTimer \/ RemovePending(files[id], Open(id, NoStore)))
    /\ savePending' = TRUE
    /\ UNCHANGED <<fixed, held, job, diskList, imports, history>>

(* undoRemove(): QFile::copy() does not overwrite a file still there.        *)
Undo(id) ==
    /\ backup[id] # NoBackup
    /\ LET put(old, new) == IF old = Absent THEN new ELSE old
       IN Publish(Running, [entry EXCEPT ![id] = backup[id].entry],
                  [files EXCEPT ![id].db = put(@, backup[id].db),
                                ![id].keys = put(@, backup[id].keys)],
                  pendingPromotions, retryTimer)
    /\ backup' = [backup EXCEPT ![id] = NoBackup]
    /\ restored' = restored \cup {id}
    /\ DialogFrame
    /\ UNCHANGED pendingRemovals

(* The single-shot timer of scheduleSave().                                  *)
Save ==
    /\ savePending
    /\ savePending' = FALSE
    /\ diskList' = [id \in Ids |-> Json(entry[id])]
    /\ UNCHANGED <<fixed, files, entry, snapshot, held, pendingRemovals,
                   pendingPromotions, retryTimer, job, backup, diskRemovals,
                   imports, history>>

-----------------------------------------------------------------------------
(* An import job.  createImportJob() counts it as running from the start.    *)

JobFrame == UNCHANGED <<fixed, entry, snapshot, held, pendingRemovals,
                        pendingPromotions, retryTimer, backup, savePending,
                        disk, history>>

Advance(id, from, to) ==
    /\ job[id].stage = from
    /\ job' = [job EXCEPT ![id].stage = to]

CreateImportJob(id) ==
    /\ entry[id].listed
    /\ id \notin Running
    /\ imports < MaxImports
    /\ imports' = imports + 1
    /\ job' = [job EXCEPT ![id] = [stage |-> "queued", import |-> imports', ok |-> FALSE]]
    /\ JobFrame
    /\ UNCHANGED files

(* run(), and the worker up to the closing of the temporary database.        *)
StartImport(id) ==
    /\ Advance(id, "queued", "writing")
    /\ JobFrame /\ UNCHANGED <<files, imports>>

WriteImport(id) ==
    /\ Advance(id, "writing", "moveDb")
    /\ JobFrame /\ UNCHANGED <<files, imports>>

(* The importer fails, or the database can be moved nowhere: abort().        *)
FailImport(id) ==
    /\ job[id].stage \in {"writing", "moveDb"}
    /\ job' = [job EXCEPT ![id].stage = "done"]
    /\ JobFrame /\ UNCHANGED <<files, imports>>

(* The new database replaces the old one, or is staged beside it.            *)
MoveDb(id) ==
    /\ IF DbBusy(Open(id, entry[id].store))
       THEN /\ Advance(id, "moveDb", "stageKeys")
            /\ files' = [files EXCEPT ![id].stagedDb = job[id].import]
       ELSE /\ Advance(id, "moveDb", "dropStagedDb")
            /\ files' = [files EXCEPT ![id].db = job[id].import]
    /\ JobFrame /\ UNCHANGED imports

StagedKeys(id, moved) ==
    [files EXCEPT ![id].stagedKeys = IF moved THEN job[id].import ELSE Absent]

StageKeys(id) ==
    /\ job[id].stage = "stageKeys"
    /\ job' = [job EXCEPT ![id].stage = "done", ![id].ok = TRUE]
    /\ \E moved \in BOOLEAN : files' = StagedKeys(id, moved)
    /\ JobFrame /\ UNCHANGED imports

(* The staged files of an earlier import predate the database moved in.      *)
DropStagedDb(id) ==
    /\ Advance(id, "dropStagedDb", "dropStagedKeys")
    /\ files' = [files EXCEPT ![id].stagedDb = Absent]
    /\ JobFrame /\ UNCHANGED imports

DropStagedKeys(id) ==
    /\ Advance(id, "dropStagedKeys", "moveKeys")
    /\ files' = [files EXCEPT ![id].stagedKeys = Absent]
    /\ JobFrame /\ UNCHANGED imports

(* The filter of the import before is deleted when the new one cannot move;  *)
(* an open one stays beside the new database.                                *)
MoveKeys(id) ==
    LET busy == KeysBusy(Open(id, entry[id].store))
    IN /\ job[id].stage = "moveKeys"
       /\ job' = [job EXCEPT ![id].stage = "done", ![id].ok = TRUE]
       /\ \E moved \in {FALSE, ~busy} :
            /\ files' = [files EXCEPT ![id].keys =
                           IF moved THEN job[id].import
                           ELSE IF busy THEN @ ELSE Absent]
            /\ torn' = IF busy THEN torn \cup {id} ELSE torn
       /\ UNCHANGED <<fixed, entry, snapshot, held, pendingRemovals,
                      pendingPromotions, retryTimer, backup, savePending, disk,
                      imports, crashes, restored>>

(* The slot createImportJob() connects to finished(): a successful import    *)
(* wrote over the files of a pending removal.                                *)

(* Mutant: the pending removal survives the import.                          *)
JobEndedOnly(id, ok) ==
    /\ job' = [job EXCEPT ![id] = NoJob]
    /\ UNCHANGED <<pendingRemovals, diskRemovals>>

JobEnded(id, ok) ==
    /\ job' = [job EXCEPT ![id] = NoJob]
    /\ pendingRemovals' = IF ok THEN pendingRemovals \ {id} ELSE pendingRemovals
    /\ diskRemovals' = IF ok /\ id \in pendingRemovals THEN pendingRemovals'
                       ELSE diskRemovals

TimerAfter(id, removals) ==
    retryTimer \/ removals # {} \/ id \in pendingPromotions

(* applyImportResult()                                                       *)
Imported(e, import) ==
    [e EXCEPT !.imported = import, !.needsReimport = FALSE,
              !.unavailable = FALSE, !.store = NoStore]

(* onWorkerFinished(): finished() and result() of the job, and the slots of  *)
(* both.  The list is saved after a successful import.                       *)
FinishImport(id) ==
    /\ job[id].stage = "done"
    /\ JobEnded(id, job[id].ok)
    /\ IF job[id].ok /\ entry[id].listed
       THEN LET out == OpenStore(FALSE, Imported(entry[id], job[id].import),
                                 files[id], Open(id, NoStore))
            IN /\ Publish(Running \ {id}, [entry EXCEPT ![id] = out.entry],
                          [files EXCEPT ![id] = out.files],
                          CASE out.waits = "join" -> pendingPromotions \cup {id}
                            [] out.waits = "leave" -> pendingPromotions \ {id}
                            [] OTHER -> pendingPromotions,
                          TimerAfter(id, pendingRemovals') \/ out.waits = "join")
               /\ savePending' = TRUE
       ELSE /\ retryTimer' = TimerAfter(id, pendingRemovals')
            /\ UNCHANGED <<entry, files, snapshot, pendingPromotions, savePending>>
    /\ UNCHANGED <<fixed, held, backup, diskList, imports, history>>

(* doKill() waits for the worker, which abandons the import unless it has    *)
(* entered StoreWriter::finish(); that wait is over when the stage is done.  *)
Kill(id) ==
    /\ job[id].stage \in {"queued", "writing", "done"}
    /\ JobEnded(id, FALSE)
    /\ retryTimer' = TimerAfter(id, pendingRemovals')
    /\ UNCHANGED <<fixed, files, entry, snapshot, held, pendingPromotions,
                   backup, savePending, diskList, imports, history>>

-----------------------------------------------------------------------------
(* retryPending(): the removals first, then the promotions.  The files of an *)
(* id with a running import belong to that import until it finishes.         *)

(* Mutant: a retry does not look at the running imports.                     *)
RetriedAnyway(waiting) == waiting

Retried(waiting) == waiting \ Running

RetryOutcome ==
    LET open == [id \in Ids |-> Open(id, entry[id].store)]
        removing == Retried(pendingRemovals)
        promoting == Retried(pendingPromotions)
        kept == [id \in Ids |-> IF id \in removing THEN RemoveFiles(files[id], open[id])
                                ELSE files[id]]
    IN [removed |-> {id \in removing : ~RemovePending(files[id], open[id])},
        settled |-> {id \in promoting : ~PromotePending(kept[id], open[id])},
        files |-> [id \in Ids |-> IF id \in promoting THEN Promote(kept[id], open[id])
                                  ELSE kept[id]]]

(* Mutant: the timer is not started again while something waits.             *)
NoFurtherRetry == retryTimer' = FALSE

FurtherRetry == retryTimer' = (pendingRemovals' \cup pendingPromotions' # {})

RetryPending ==
    /\ retryTimer
    /\ LET out == RetryOutcome
           waiting == pendingPromotions \ out.settled
       IN /\ pendingRemovals' = pendingRemovals \ out.removed
          /\ diskRemovals' = IF out.removed # {} THEN pendingRemovals' ELSE diskRemovals
          /\ IF out.settled # {}
             THEN PublishStores(OpenStores(Running, entry, out.files,
                                           [id \in Ids |-> Open(id, NoStore)]), waiting)
             ELSE /\ files' = out.files
                  /\ UNCHANGED <<entry, snapshot, pendingPromotions>>
          /\ FurtherRetry
          /\ savePending' = (savePending \/ out.settled # {})
    /\ UNCHANGED <<fixed, held, job, backup, diskList, imports, history>>

-----------------------------------------------------------------------------
(* A lookup takes the published snapshot; its response keeps the Stores      *)
(* until the next one, or until changed() finds one that is not current.     *)
TakeSnapshot ==
    /\ \A id \in Ids : held[id] = NoStore
    /\ \E id \in Ids : snapshot[id] # NoStore
    /\ held' = snapshot
    /\ UNCHANGED <<fixed, files, entry, snapshot, pendingRemovals, pendingPromotions,
                   retryTimer, job, backup, savePending, disk, imports, history>>

ReleaseSnapshot ==
    /\ \E id \in Ids : held[id] # NoStore
    /\ held' = [id \in Ids |-> NoStore]
    /\ UNCHANGED <<fixed, files, entry, snapshot, pendingRemovals, pendingPromotions,
                   retryTimer, job, backup, savePending, disk, imports, history>>

-----------------------------------------------------------------------------
(* The process ends, at any step of an import, and starts again: load()      *)
(* parses the list, adoptPendingRemovals() deletes the files of the recorded *)
(* removals, and the snapshot is published.  No file is open then.           *)

(* Mutant: every recorded id is adopted.                                     *)
AdoptedAll(id) == id \in diskRemovals

HasImport(e) == e.listed /\ e.imported # Absent

Adopted(id) == id \in diskRemovals /\ ~HasImport(diskList[id])

Restart ==
    /\ crashes < MaxCrashes
    /\ crashes' = crashes + 1
    /\ LET out == OpenStores({}, [id \in Ids |-> Parsed(diskList[id])],
                             [id \in Ids |-> IF Adopted(id) THEN NoFiles ELSE files[id]],
                             [id \in Ids |-> {}])
       IN PublishStores(out, {})
    /\ held' = [id \in Ids |-> NoStore]
    /\ pendingRemovals' = {}
    /\ diskRemovals' = {}
    /\ retryTimer' = FALSE
    /\ job' = [id \in Ids |-> NoJob]
    /\ backup' = [id \in Ids |-> NoBackup]
    /\ savePending' = FALSE
    /\ torn' = torn \cup {id \in Ids : job[id].stage \in Installing}
    /\ restored' = restored \cup {id \in Ids : HasImport(diskList[id]) /\ ~HasImport(entry[id])}
    /\ UNCHANGED <<fixed, diskList, imports>>

-----------------------------------------------------------------------------
Next ==
    \/ \E id \in Ids :
         \/ \E on \in BOOLEAN : SetEnabled(id, on)
         \/ SetOptions(id)
         \/ SetSourcePath(id)
         \/ Remove(id)
         \/ Undo(id)
         \/ CreateImportJob(id)
         \/ StartImport(id)
         \/ WriteImport(id)
         \/ MoveDb(id)
         \/ StageKeys(id)
         \/ DropStagedDb(id)
         \/ DropStagedKeys(id)
         \/ MoveKeys(id)
         \/ FinishImport(id)
         \/ FailImport(id)
         \/ Kill(id)
    \/ Rearrange
    \/ Save
    \/ RetryPending
    \/ TakeSnapshot
    \/ ReleaseSnapshot
    \/ Restart

Spec == Init /\ [][Next]_vars

-----------------------------------------------------------------------------
(* The published snapshot names exactly Stores the manager holds for listed, *)
(* enabled entries whose data is current: a disabled, removed or outdated    *)
(* dictionary answers no lookup that starts later.                           *)
SnapshotIsCurrent ==
    \A id \in Ids : snapshot[id] # NoStore =>
        /\ Published(entry[id])
        /\ snapshot[id] = entry[id].store

(* A lookup that starts after a reimport was applied is not answered from    *)
(* the files the reimport supersedes (openStore()), also after a restart.    *)
SupersededNotPublished ==
    \A id \in Ids \ restored :
        snapshot[id] # NoStore => snapshot[id].db >= entry[id].imported

(* The filter beside a database belongs to it, or there is none, except      *)
(* while an import moves its two files and after it was cut between them.    *)
FilterMatchesDatabase ==
    \A id \in Ids \ (torn \cup restored) : job[id].stage \notin Installing =>
        /\ files[id].keys \in {Absent, files[id].db}
        /\ files[id].stagedKeys \in {Absent, files[id].stagedDb}

(* The retry of older removals never loses the newest files of an import     *)
(* that was reported successful or is being installed.                       *)
RetryKeepsImports ==
    [][RetryPending => \A id \in Ids \ restored :
         HasImport(entry[id]) \/ id \in Running =>
             Newest(files'[id]) = Newest(files[id])]_vars

(* A start completes each removal that was waiting, unless the saved list    *)
(* has an import of the entry, and deletes the files of nothing else.        *)
RestartRecovers ==
    [][Restart => \A id \in Ids :
         IF id \in pendingRemovals /\ ~HasImport(diskList[id])
         THEN files'[id] = NoFiles
         ELSE Newest(files'[id]) = Newest(files[id])]_vars

(* Nothing that waits for an open file is forgotten: while a removal or a    *)
(* promotion waits, the retry timer runs.                                    *)
WaitingIsRetried == pendingRemovals \cup pendingPromotions # {} => retryTimer

(* store.cpp of the filter of another import: Store::find() would reject a   *)
(* candidate the new database answers.  No import running, the published     *)
(* Store has the filter of its own database or none.                         *)
PublishedFilterMatches ==
    \A id \in Ids \ Running : snapshot[id] # NoStore =>
        snapshot[id].keys \in {Absent, snapshot[id].db}
=============================================================================
