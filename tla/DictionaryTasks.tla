--------------------------- MODULE DictionaryTasks --------------------------
(* The work that brings a dictionary from its server or from the user's file *)
(* into its store: the queue of DictionaryManagerDialog, the update chain of *)
(* Application (check, download, import) and the three jobs both create      *)
(* (updatecheckjob.cpp, dictionarydownloadjob.cpp, dictionaryimportjob.cpp). *)
(*                                                                           *)
(* The files are those of a system where an open file can be renamed and     *)
(* removed.  Two jobs that use one temporary file share it through its path, *)
(* and a job keeps writing the file it opened wherever that file has moved.  *)
(* A version numbers the contents of a source in the order they appear.      *)
(*                                                                           *)
(* Left out: the key filter and the retries of DictionaryManager, the list   *)
(* file, Yomitan sources, undo, and the text of the message bar, so that any *)
(* task can be asked for whenever the dialog is open.                        *)
EXTENDS Naturals, Sequences, FiniteSetsExt

CONSTANTS
    Downloads,   \* built-in dictionaries, which a server publishes
    Lists,       \* custom lists, whose source the dialog appends to
    MaxChanges,  \* bound: the times a source changes
    MaxQueued,   \* bound: the tasks waiting in the dialog
    MaxFaults    \* bound: the kills, failures, removals and closings

ASSUME DisjointAssumption == Downloads \cap Lists = {}
ASSUME MaxChangesAssumption == MaxChanges \in Nat
ASSUME MaxQueuedAssumption == MaxQueued \in Nat \ {0}
ASSUME MaxFaultsAssumption == MaxFaults \in Nat

Ids == Downloads \cup Lists

(* Who answers the result of a job.  A job of a dialog that was closed runs  *)
(* on, but nobody answers it any more.                                       *)
Runner == {"dialog", "app", "left"}

VARIABLES
    server,     \* the version the server offers
    source,     \* the file at Dictionary::sourcePath
    part,       \* the jobs that write the file at <source>.part
    tmp,        \* the job that created the file at <database>.tmp, or "none"
    db,         \* the file at <database>
    work,       \* the running jobs
    queue,      \* DictionaryManagerDialog::m_queue
    open,       \* the dialog exists
    listed,     \* the entries of DictionaryManager
    imported,   \* the version their importedAt and recordCount tell of, or 0
    dropped,    \* history: work was cancelled, failed, or its result removed
    leftOver,   \* history: the dialog was closed on unfinished work
    met,        \* history: two jobs, or an import and a removal, worked on
                \* the same file at once
    faults      \* history: the number of kills, failures, removals, closings

files == <<source, part, tmp, db>>
history == <<dropped, leftOver, met, faults>>
vars == <<server, files, work, queue, open, listed, imported, history>>

(* `stamp` is the newest version the server had when the file was written:   *)
(* what If-Modified-Since says with the time of modification.                *)
Version == Nat
Source == [version : Version, whole : BOOLEAN, stamp : Version]
NoSource == [version |-> 0, whole |-> FALSE, stamp |-> 0]

(* `writer` is the job that still has the file open.                         *)
Database == [version : Version, whole : BOOLEAN, writer : Runner \cup {"none"}]
NoDatabase == [version |-> 0, whole |-> FALSE, writer |-> "none"]

(* A job that was created is "request" or "import" until the event loop runs *)
(* it; "installed" and "failed" imports wait for the GUI thread.             *)
Downloading == {"request", "transfer"}
Importing == {"import", "write", "installed", "failed"}
Stage == {"none", "check"} \cup Downloading \cup Importing
Work == [stage : Stage, version : Version]
NoWork == [stage |-> "none", version |-> 0]
Created(stage) == [stage |-> stage, version |-> 0]

(* A custom list has no server: its entry is only ever imported.             *)
Task == [id : Downloads, kind : {"check", "request", "import"}]
        \cup [id : Lists, kind : {"import"}]

TypeOK ==
    /\ server \in [Downloads -> Version]
    /\ source \in [Ids -> Source]
    /\ part \in [Ids -> SUBSET Runner]
    /\ tmp \in [Ids -> Runner \cup {"none"}]
    /\ db \in [Ids -> Database]
    /\ work \in [Ids -> [Runner -> Work]]
    /\ queue \in Seq(Task)
    /\ open \in BOOLEAN
    /\ listed \subseteq Ids
    /\ imported \in [Ids -> Version]
    /\ dropped \cup leftOver \cup met \subseteq Ids
    /\ faults \in 0 .. MaxFaults

(* No dictionary has been downloaded, and every custom list was imported.    *)
Init ==
    /\ server = [id \in Downloads |-> 1]
    /\ source = [id \in Ids |-> IF id \in Lists THEN [version |-> 1, whole |-> TRUE, stamp |-> 0]
                                                ELSE NoSource]
    /\ part = [id \in Ids |-> {}]
    /\ tmp = [id \in Ids |-> "none"]
    /\ db = [id \in Ids |-> IF id \in Lists THEN [version |-> 1, whole |-> TRUE, writer |-> "none"]
                                            ELSE NoDatabase]
    /\ work = [id \in Ids |-> [r \in Runner |-> NoWork]]
    /\ queue = <<>>
    /\ open = TRUE
    /\ listed = Ids
    /\ imported = [id \in Ids |-> source[id].version]
    /\ dropped = {}
    /\ leftOver = {}
    /\ met = {}
    /\ faults = 0

-----------------------------------------------------------------------------
Runs(id, r) == work[id][r].stage # "none"
DialogRuns == {id \in Ids : Runs(id, "dialog")}  \* m_job, as a set

(* The dictionaries of which two jobs download, or import, at once.          *)
Meet(w, v) == \/ w.stage \in Downloading /\ v.stage \in Downloading
              \/ w.stage \in Importing /\ v.stage \in Importing
Shared == {id \in Ids : \/ Meet(work[id]["dialog"], work[id]["app"])
                        \/ Meet(work[id]["dialog"], work[id]["left"])
                        \/ Meet(work[id]["app"], work[id]["left"])}
ObserveSharing == met' = met \cup Shared'

(* The versions published since the start and the entries appended.          *)
Changes == MapThenSumSet(LAMBDA id : server[id] - 1, Downloads)
           + MapThenSumSet(LAMBDA id : source[id].version - 1, Lists)

Faulty == faults < MaxFaults /\ faults' = faults + 1

Put(id, r, w) == [work EXCEPT ![id][r] = w]

(* startNextTask() with the queue q, once the job of the dialog is answered  *)
(* and the running jobs are w: the first task whose entry still exists.      *)
StartNextTask(q, w) ==
    \/ /\ \A i \in DOMAIN q : q[i].id \notin listed
       /\ queue' = <<>>
       /\ work' = w
    \/ \E first \in DOMAIN q :
          /\ q[first].id \in listed
          /\ \A i \in DOMAIN q : i < first => q[i].id \notin listed
          /\ queue' = SubSeq(q, first + 1, Len(q))
          /\ work' = [w EXCEPT ![q[first].id]["dialog"] = Created(q[first].kind)]

(* Mutant: enqueue() replaces the task that runs.                            *)
EnqueuedAnyway(task) == StartNextTask(Append(queue, task), work)

Enqueued(task) ==
    IF DialogRuns = {} THEN StartNextTask(Append(queue, task), work)
    ELSE queue' = Append(queue, task) /\ UNCHANGED work

(* Mutant: a result handler forgets to start the next task.                  *)
AnsweredOnly(id, q) == queue' = q /\ work' = Put(id, "dialog", NoWork)

(* The result handler of the dialog, after onX() left the queue q.           *)
Answered(id, q) == StartNextTask(q, Put(id, "dialog", NoWork))

(* updateSelected(), configureSelected(), runAddDialog(), importDictionary() *)
(* and the actions of the message bar.  Check for Updates takes a source and *)
(* is disabled while this dialog imports the entry.                          *)
Enqueue(id, kind) ==
    /\ open /\ id \in listed
    /\ id \in Lists => kind = "import"
    /\ kind = "check" => /\ source[id].version # 0
                         /\ work[id]["dialog"].stage \notin Importing
    /\ Len(queue) < MaxQueued
    /\ Enqueued([id |-> id, kind |-> kind])
    /\ ObserveSharing
    /\ UNCHANGED <<server, files, open, listed, imported, dropped, leftOver, faults>>

(* Mutant: an entry is appended and the list not imported again.             *)
AppendOnly(task) == UNCHANGED <<queue, work>>

ImportAppended(task) == Enqueued(task)

(* addCustomEntry(): the entry is in the file when its dialog returns.       *)
AddCustomEntry(id) ==
    /\ open /\ id \in listed \cap Lists
    /\ Changes < MaxChanges
    /\ Len(queue) < MaxQueued
    /\ source' = [source EXCEPT ![id] =
                     [version |-> @.version + 1, whole |-> TRUE, stamp |-> 0]]
    /\ ImportAppended([id |-> id, kind |-> "import"])
    /\ ObserveSharing
    /\ UNCHANGED <<server, part, tmp, db, open, listed, imported, dropped, leftOver, faults>>

(* checkDictionaryUpdates(), at start or by the timer of six hours.  One     *)
(* chain of a dictionary at a time.                                          *)
CheckUpdates(id) ==
    /\ id \in Downloads /\ ~Runs(id, "app")
    /\ work' = Put(id, "app", Created("check"))
    /\ UNCHANGED <<server, files, queue, open, listed, imported, history>>

(* A later version appears on the server.                                    *)
Publish(id) ==
    /\ Changes < MaxChanges
    /\ server' = [server EXCEPT ![id] = @ + 1]
    /\ UNCHANGED <<files, work, queue, open, listed, imported, history>>

-----------------------------------------------------------------------------
(* The server answers 304: nothing newer than the file was published.        *)
NotModified(id) == source[id].version # 0 /\ source[id].stamp >= server[id]

(* UpdateCheckJob::onFinished() and onUpdateCheckFinished() of the dialog,   *)
(* which only offers the download, or of Application, which starts it        *)
AnswerCheck(id, r, error) ==
    /\ work[id][r].stage = "check"
    /\ CASE r = "dialog" -> Answered(id, queue)
         [] r = "left"   -> work' = Put(id, r, NoWork) /\ UNCHANGED queue
         [] r = "app"    -> /\ work' = Put(id, r, IF ~error /\ ~NotModified(id) /\ id \in listed
                                                  THEN Created("request") ELSE NoWork)
                            /\ UNCHANGED queue
    /\ ObserveSharing
    /\ UNCHANGED <<server, files, open, listed, imported, dropped, leftOver, faults>>

(* "already up to date", for a dictionary that has data                     *)
UpToDate(id, notModified) == notModified /\ imported[id] # 0

(* The result of a download that succeeded: onDownloadFinished(), or the     *)
(* handler in startDictionaryDownload().                                     *)
DownloadFinished(id, r, notModified) ==
    CASE r = "dialog" -> Answered(id, IF UpToDate(id, notModified) THEN queue
                                      ELSE <<[id |-> id, kind |-> "import"]>> \o queue)
      [] r = "left"   -> work' = Put(id, r, NoWork) /\ UNCHANGED queue
      [] r = "app"    -> /\ work' = Put(id, r, IF notModified \/ id \notin listed
                                               THEN NoWork ELSE Created("import"))
                         /\ UNCHANGED queue

(* The result of a job that failed or was killed: nothing follows it.        *)
EndedInError(id, r, q) ==
    IF r = "dialog" THEN Answered(id, q)
    ELSE work' = Put(id, r, NoWork) /\ UNCHANGED queue

(* DictionaryDownloadJob::run() up to the head of the answer: the .part file *)
(* is created or truncated, and removed again when there is nothing to get.  *)
Request(id, r) ==
    /\ work[id][r].stage = "request"
    /\ IF NotModified(id)
       THEN DownloadFinished(id, r, TRUE) /\ part' = [part EXCEPT ![id] = {}]
       ELSE /\ work' = Put(id, r, [stage |-> "transfer", version |-> server[id]])
            /\ part' = [part EXCEPT ![id] = @ \cup {r}]
            /\ UNCHANGED queue
    /\ ObserveSharing
    /\ UNCHANGED <<server, source, tmp, db, open, listed, imported, dropped, leftOver, faults>>

(* finishDownloadedFile(): .part, unpacked if need be, replaces the source.  *)
FinishDownload(id, r) ==
    /\ work[id][r].stage = "transfer" /\ part[id] # {}
    /\ source' = [source EXCEPT ![id] = [version |-> work[id][r].version,
                                         whole |-> part[id] = {r}, stamp |-> server[id]]]
    /\ part' = [part EXCEPT ![id] = {}]
    /\ DownloadFinished(id, r, FALSE)
    /\ ObserveSharing
    /\ UNCHANGED <<server, tmp, db, open, listed, imported, dropped, leftOver, faults>>

(* Mutant: what arrived before the error is moved over the source.           *)
InstalledInPart(id, r) ==
    [version |-> work[id][r].version, whole |-> FALSE, stamp |-> server[id]]

LeftInPlace(id, r) == source[id]

(* An error of the network, of writing or of unpacking: .part goes and the   *)
(* source stays, except when the move itself fails, after the old source was *)
(* removed (`unmoved`).                                                      *)
FailDownload(id, r, unmoved) ==
    /\ work[id][r].stage \in Downloading
    /\ unmoved => work[id][r].stage = "transfer" /\ part[id] # {}
    /\ source' = [source EXCEPT ![id] = IF unmoved THEN NoSource ELSE LeftInPlace(id, r)]
    /\ part' = [part EXCEPT ![id] = {}]
    /\ EndedInError(id, r, queue)
    /\ ObserveSharing
    /\ Faulty
    /\ UNCHANGED <<server, tmp, db, open, listed, imported, dropped, leftOver>>

-----------------------------------------------------------------------------
(* ImportWorker::work() with StoreWriter::begin(): a temporary file that is  *)
(* there is removed, and the importer opens the source.                      *)
BeginImport(id, r) ==
    /\ work[id][r].stage = "import"
    /\ tmp' = [tmp EXCEPT ![id] = r]
    /\ work' = Put(id, r, [stage |-> "write", version |-> source[id].version])
    /\ UNCHANGED <<server, source, part, db, queue, open, listed, imported, history>>

(* Mutant: the database is moved into place before its meta rows are written.*)
MovedEarly(id, r) == [version |-> work[id][r].version, whole |-> FALSE, writer |-> r]

(* The file at <database>.tmp once r closed the one it wrote                 *)
Moved(id, r) ==
    IF tmp[id] = r THEN [version |-> work[id][r].version, whole |-> TRUE, writer |-> "none"]
    ELSE [version |-> work[id][tmp[id]].version, whole |-> FALSE, writer |-> tmp[id]]

(* The file at <database> when r closes the one it wrote: it is complete if  *)
(* another job has moved it there.                                           *)
Closed(id, r) ==
    IF db[id].writer = r THEN [db[id] EXCEPT !.whole = TRUE, !.writer = "none"] ELSE db[id]

(* StoreWriter::finish()                                                     *)
InstallImport(id, r) ==
    /\ work[id][r].stage = "write" /\ work[id][r].version # 0
    /\ db' = [db EXCEPT ![id] = IF tmp[id] = "none" THEN Closed(id, r) ELSE Moved(id, r)]
    /\ tmp' = [tmp EXCEPT ![id] = "none"]
    /\ work' = [work EXCEPT ![id][r].stage = IF tmp[id] = "none" THEN "failed" ELSE "installed"]
    /\ UNCHANGED <<server, source, part, queue, open, listed, imported, history>>

(* The file at <database> when r gives up the one it wrote.                  *)
Abandoned(id, r) == IF db[id].writer = r THEN [db[id] EXCEPT !.writer = "none"] ELSE db[id]

(* An importer fails, with StoreWriter::abort().                             *)
FailImport(id, r) ==
    /\ work[id][r].stage \in {"import", "write"}
    /\ db' = [db EXCEPT ![id] = Abandoned(id, r)]
    /\ tmp' = [tmp EXCEPT ![id] = "none"]
    /\ work' = [work EXCEPT ![id][r].stage = "failed"]
    /\ Faulty
    /\ UNCHANGED <<server, source, part, queue, open, listed, imported, dropped, leftOver, met>>

(* onWorkerFinished() and the handlers of its result: onImportFinished() of  *)
(* the dialog, the handler in startDictionaryImport(), or nobody.            *)
ImportResult(id, r) ==
    LET w == work[id][r]
        applied == w.stage = "installed" /\ r # "left" /\ id \in listed
        current == /\ applied /\ w.version = source[id].version
                   /\ \A other \in Runner \ {r} : ~Runs(id, other)
    IN /\ w.stage \in {"installed", "failed"}
       /\ imported' = IF applied THEN [imported EXCEPT ![id] = w.version] ELSE imported
       /\ dropped' = IF current THEN dropped \ {id}
                     ELSE IF w.stage = "failed" THEN dropped \cup {id} ELSE dropped
       /\ leftOver' = IF current THEN leftOver \ {id} ELSE leftOver
       /\ EndedInError(id, r, queue)
       /\ ObserveSharing
       /\ UNCHANGED <<server, files, open, listed, faults>>

-----------------------------------------------------------------------------
(* KJob::kill() of a job: its doKill() and then its result.  The cancel      *)
(* button of the dialog empties the queue first (`clears`); the job tracker  *)
(* of the desktop kills a job alone.                                         *)
Kill(id, r, clears) ==
    LET stage == work[id][r].stage
        q == IF clears THEN <<>> ELSE queue
        lost == {queue[i].id : i \in DOMAIN queue}
    IN /\ Runs(id, r)
       /\ clears => r = "dialog"
       /\ part' = IF stage \in Downloading THEN [part EXCEPT ![id] = {}] ELSE part
       /\ tmp' = IF stage = "write" THEN [tmp EXCEPT ![id] = "none"] ELSE tmp
       /\ db' = [db EXCEPT ![id] = Abandoned(id, r)]
       /\ dropped' = dropped \cup {id} \cup (IF clears THEN lost ELSE {})
       /\ EndedInError(id, r, q)
       /\ ObserveSharing
       /\ Faulty
       /\ UNCHANGED <<server, source, open, listed, imported, leftOver>>

(* The dialog is closed, which deletes it.  Its queue goes with it, and the  *)
(* job that runs loses its handlers.  One such job at a time.                *)
Close ==
    /\ open
    /\ DialogRuns # {} => \A id \in Ids : ~Runs(id, "left")
    /\ open' = FALSE
    /\ queue' = <<>>
    /\ work' = [id \in Ids |-> IF Runs(id, "dialog")
                               THEN [work[id] EXCEPT !["left"] = work[id]["dialog"],
                                                     !["dialog"] = NoWork]
                               ELSE work[id]]
    /\ LET moved(owner, id) == IF id \in DialogRuns /\ owner = "dialog" THEN "left" ELSE owner
       IN /\ part' = [id \in Ids |-> {moved(owner, id) : owner \in part[id]}]
          /\ tmp' = [id \in Ids |-> moved(tmp[id], id)]
          /\ db' = [id \in Ids |-> [db[id] EXCEPT !.writer = moved(@, id)]]
    /\ leftOver' = leftOver \cup DialogRuns \cup {queue[i].id : i \in DOMAIN queue}
    /\ Faulty
    /\ UNCHANGED <<server, source, listed, imported, dropped, met>>

(* showDictionaryManager()                                                   *)
Reopen ==
    /\ ~open
    /\ open' = TRUE
    /\ UNCHANGED <<server, files, work, queue, listed, imported, history>>

(* removeSelected(), which is disabled while this dialog imports the entry.  *)
(* A built-in entry only loses its data.                                     *)
Remove(id) ==
    /\ open /\ id \in listed
    /\ work[id]["dialog"].stage \notin Importing
    /\ db' = [db EXCEPT ![id] = NoDatabase]
    /\ imported' = [imported EXCEPT ![id] = 0]
    /\ listed' = IF id \in Lists THEN listed \ {id} ELSE listed
    /\ dropped' = dropped \cup {id}
    /\ met' = IF \E r \in Runner : work[id][r].stage \in Importing THEN met \cup {id} ELSE met
    /\ Faulty
    /\ UNCHANGED <<server, source, part, tmp, work, queue, open, leftOver>>

DialogStep ==
    \/ \E id \in Ids : \/ AddCustomEntry(id)
                       \/ Remove(id)
                       \/ \E kind \in {"check", "request", "import"} : Enqueue(id, kind)
    \/ Close
    \/ Reopen

JobStep(id, r) ==
    \/ \E error \in BOOLEAN : AnswerCheck(id, r, error)
    \/ Request(id, r)
    \/ FinishDownload(id, r)
    \/ \E unmoved \in BOOLEAN : FailDownload(id, r, unmoved)
    \/ BeginImport(id, r)
    \/ InstallImport(id, r)
    \/ FailImport(id, r)
    \/ ImportResult(id, r)
    \/ \E clears \in BOOLEAN : Kill(id, r, clears)

Next ==
    \/ DialogStep
    \/ \E id \in Ids : CheckUpdates(id)
    \/ \E id \in Downloads : Publish(id)
    \/ \E id \in Ids, r \in Runner : JobStep(id, r)

Spec == Init /\ [][Next]_vars

-----------------------------------------------------------------------------
(* A task never waits in a dialog that does nothing: whichever way a job     *)
(* ends, refused, failed, killed or done, its handler starts the next task   *)
(* that still has an entry, and one job runs at a time.                      *)
QueueIsServed ==
    /\ queue # <<>> => DialogRuns # {}
    /\ \A id, other \in DialogRuns : id = other

(* An import never reads half a download: a transfer that was cancelled or   *)
(* cut leaves the previous source, unless a second job wrote the same file.  *)
SourceIsWhole ==
    \A id \in Ids \ met : source[id].version # 0 => source[id].whole

(* The file at the path of a store is one its writer has finished, whatever  *)
(* was cancelled or removed, unless two jobs met on its files.            *)
InstalledIsWhole ==
    \A id \in Ids \ met : db[id] # NoDatabase => db[id].whole

(* Nothing works on the dictionary or waits to.                              *)
Quiet(id) ==
    /\ \A r \in Runner : ~Runs(id, r)
    /\ \A i \in DOMAIN queue : queue[i].id # id

UpToDateStore(id) ==
    /\ imported[id] = source[id].version
    /\ db[id] = [version |-> source[id].version, whole |-> TRUE, writer |-> "none"]

(* What was downloaded or appended reaches the store: once nothing works on  *)
(* a dictionary, its entry and its store are those of its source, unless     *)
(* the user cancelled, an import failed, two jobs met, or the dialog was     *)
(* closed on the work.  (The chain download, import, result is started by    *)
(* three handlers and cut by a fourth.)                                      *)
WorkReachesStore ==
    \A id \in listed \ (dropped \cup met \cup leftOver) :
        Quiet(id) /\ source[id].version # 0 => UpToDateStore(id)

(* docs/ARCHITECTURE.md:170, "Custom entries are appended to TSV sources and *)
(* reimported": a list nobody works on holds what was appended to it, unless *)
(* the user cancelled, an import failed or two jobs met.                     *)
CustomEntriesAreReimported ==
    \A id \in (Lists \cap listed) \ (dropped \cup met) :
        Quiet(id) /\ source[id].version # 0 => UpToDateStore(id)
=============================================================================
