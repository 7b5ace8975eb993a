----------------------- MODULE DictionaryManagerProofs ----------------------
(* What holds of DictionaryManager for every set of dictionaries and every   *)
(* number of imports and restarts.                                           *)
EXTENDS DictionaryManager, TLAPS

(* A removal that waits is of a dictionary without an import, unless an undo *)
(* or an unsaved list brought the dictionary back: the slot of finished()    *)
(* drops the removal before the slot of result() records the import.         *)
RemovalsSpareImports ==
    \A id \in pendingRemovals \ restored : ~HasImport(entry[id])

(* The file of pending removals is rewritten whenever they change.           *)
RemovalsRecorded == diskRemovals = pendingRemovals

IInv ==
    /\ TypeOK
    /\ WaitingIsRetried
    /\ SnapshotIsCurrent
    /\ RemovalsSpareImports
    /\ RemovalsRecorded

-----------------------------------------------------------------------------
(* The files.                                                                *)

LEMMA FileTypes == /\ NoFiles \in Files
                   /\ NoStore \notin Store
                   /\ Absent \in File /\ Absent \notin Import
                   /\ Import \subseteq File
BY MaxImportsAssumption DEF NoFiles, Files, NoStore, Store, File, Import, Absent

(* promoteStagedStore() moves files and loses none that a lookup should read.*)
LEMMA PromoteKeepsNewest ==
    ASSUME NEW f \in Files, NEW open
    PROVE  /\ Promote(f, open) \in Files
           /\ Newest(Promote(f, open)) = Newest(f)
<1> DEFINE kb == KeysBusy(open)
           db == DbBusy(open)
           filterless == IF f.stagedDb # Absent /\ ~kb
                         THEN [f EXCEPT !.keys = Absent] ELSE f
           moved == IF f.stagedDb # Absent /\ ~kb /\ ~db
                    THEN [filterless EXCEPT !.db = f.stagedDb, !.stagedDb = Absent]
                    ELSE filterless
<1>1. /\ filterless \in Files
      /\ filterless.db = f.db /\ filterless.stagedDb = f.stagedDb
  BY FileTypes DEF Files
<1>2. moved \in Files /\ Newest(moved) = Newest(f)
  BY <1>1, FileTypes DEF Files, Newest
<1> HIDE DEF moved
<1>3. LET last == [moved EXCEPT !.keys = f.stagedKeys, !.stagedKeys = Absent]
      IN last \in Files /\ Newest(last) = Newest(moved)
  BY <1>2, FileTypes DEF Files, Newest
<1>4. Promote(f, open) =
        IF moved.stagedDb = Absent /\ f.stagedKeys # Absent /\ ~kb
        THEN [moved EXCEPT !.keys = f.stagedKeys, !.stagedKeys = Absent]
        ELSE moved
  BY DEF Promote, moved
<1> QED BY <1>2, <1>3, <1>4

LEMMA RemoveFilesType ==
    ASSUME NEW f \in Files, NEW open
    PROVE  RemoveFiles(f, open) \in Files
BY FileTypes DEF RemoveFiles, NoFiles, Files

(* openStore() changes nothing of an entry but its Store and the mark of a   *)
(* store that did not open.                                                  *)
SameEntry(e, f) ==
    /\ e.listed = f.listed /\ e.enabled = f.enabled
    /\ e.imported = f.imported /\ e.needsReimport = f.needsReimport

LEMMA OpenStoreKeeps ==
    ASSUME NEW running, NEW e \in Entry, NEW f \in Files, NEW open
    PROVE  LET out == OpenStore(running, e, f, open)
           IN /\ out.entry \in Entry /\ SameEntry(out.entry, e)
              /\ out.files \in Files /\ Newest(out.files) = Newest(f)
<1>1. ASSUME NEW g \in Files, NEW waits
      PROVE  LET out == LoadStore(e, g, waits)
             IN out.entry \in Entry /\ SameEntry(out.entry, e) /\ out.files = g
  <2>1. [e EXCEPT !.unavailable = TRUE] \in Entry
        /\ SameEntry([e EXCEPT !.unavailable = TRUE], e)
    BY DEF Entry, SameEntry
  <2>2. ASSUME g.db # Absent
        PROVE  /\ [e EXCEPT !.store = Opened(g)] \in Entry
               /\ SameEntry([e EXCEPT !.store = Opened(g)], e)
    <3>1. Opened(g) \in Store
      BY <2>2 DEF Opened, Store, Files, File
    <3> QED BY <3>1 DEF Entry, SameEntry
  <2> QED BY <2>1, <2>2 DEF LoadStore, OpenOutcome
<1>2. SameEntry(e, e)
  BY DEF SameEntry
<1>3. Promote(f, open) \in Files /\ Newest(Promote(f, open)) = Newest(f)
  BY PromoteKeepsNewest
<1> QED BY <1>1, <1>2, <1>3 DEF OpenStore, OpenOutcome

LEMMA OpenStoresKeeps ==
    ASSUME NEW running, NEW es \in [Ids -> Entry], NEW fs \in [Ids -> Files], NEW open
    PROVE  LET out == OpenStores(running, es, fs, open)
           IN \A id \in Ids :
                /\ out[id].entry \in Entry /\ SameEntry(out[id].entry, es[id])
                /\ out[id].files \in Files /\ Newest(out[id].files) = Newest(fs[id])
<1> SUFFICES ASSUME NEW id \in Ids
    PROVE  LET out == OpenStores(running, es, fs, open)
           IN /\ out[id].entry \in Entry /\ SameEntry(out[id].entry, es[id])
              /\ out[id].files \in Files /\ Newest(out[id].files) = Newest(fs[id])
  OBVIOUS
<1> DEFINE opened == OpenStore(id \in running, es[id], fs[id], open[id])
<1>1. OpenStores(running, es, fs, open)[id] =
        IF Published(es[id]) THEN opened ELSE OpenOutcome(es[id], fs[id], "same")
  BY DEF OpenStores
<1>2. /\ opened.entry \in Entry /\ SameEntry(opened.entry, es[id])
      /\ opened.files \in Files /\ Newest(opened.files) = Newest(fs[id])
  BY OpenStoreKeeps
<1> HIDE DEF opened
<1> QED BY <1>1, <1>2 DEF OpenOutcome, SameEntry

-----------------------------------------------------------------------------
(* Publishing a snapshot keeps the types, makes it current and changes no    *)
(* entry and no newest file.                                                 *)

Kept(es, fs) ==
    /\ entry' \in [Ids -> Entry]
    /\ files' \in [Ids -> Files]
    /\ \A id \in Ids : /\ SameEntry(entry'[id], es[id])
                       /\ Newest(files'[id]) = Newest(fs[id])

SnapshotIsCurrentNext ==
    \A id \in Ids : snapshot'[id] # NoStore =>
        /\ Published(entry'[id])
        /\ snapshot'[id] = entry'[id].store

LEMMA PublishStoresKeeps ==
    ASSUME NEW running, NEW es \in [Ids -> Entry], NEW fs \in [Ids -> Files],
           NEW open, NEW waiting \in SUBSET Ids,
           PublishStores(OpenStores(running, es, fs, open), waiting)
    PROVE  /\ Kept(es, fs)
           /\ snapshot' \in [Ids -> Store \cup {NoStore}]
           /\ pendingPromotions' \in SUBSET Ids
           /\ pendingPromotions' \subseteq waiting \cup Joining(OpenStores(running, es, fs, open))
           /\ SnapshotIsCurrentNext
<1> DEFINE out == OpenStores(running, es, fs, open)
<1>1. \A id \in Ids :
         /\ out[id].entry \in Entry /\ SameEntry(out[id].entry, es[id])
         /\ out[id].files \in Files /\ Newest(out[id].files) = Newest(fs[id])
  BY OpenStoresKeeps
<1>2. PublishStores(out, waiting)
  OBVIOUS
<1> HIDE DEF out
<1>3. Kept(es, fs)
  BY <1>1, <1>2 DEF PublishStores, Kept
<1>4. snapshot' \in [Ids -> Store \cup {NoStore}]
  BY <1>1, <1>2 DEF PublishStores, Entry
<1>5. pendingPromotions' \subseteq waiting \cup Joining(out) /\ Joining(out) \subseteq Ids
  BY <1>2 DEF PublishStores, Joining
<1>6. SnapshotIsCurrentNext
  BY <1>2 DEF PublishStores, SnapshotIsCurrentNext
<1> QED BY <1>3, <1>4, <1>5, <1>6 DEF out

(* publishSnapshot() also starts the timer for what has to wait.             *)
LEMMA PublishKeeps ==
    ASSUME NEW running, NEW es \in [Ids -> Entry], NEW fs \in [Ids -> Files],
           NEW waiting \in SUBSET Ids, NEW timer \in BOOLEAN,
           Publish(running, es, fs, waiting, timer)
    PROVE  /\ Kept(es, fs)
           /\ snapshot' \in [Ids -> Store \cup {NoStore}]
           /\ pendingPromotions' \in SUBSET Ids
           /\ SnapshotIsCurrentNext
           /\ retryTimer' \in BOOLEAN
           /\ timer => retryTimer'
           /\ pendingPromotions' \subseteq waiting \/ retryTimer'
<1> DEFINE out == OpenStores(running, es, fs, [id \in Ids |-> Open(id, NoStore)])
<1>1. PublishStores(out, waiting) /\ retryTimer' = (timer \/ Joining(out) # {})
  BY DEF Publish
<1>2. /\ Kept(es, fs)
      /\ snapshot' \in [Ids -> Store \cup {NoStore}]
      /\ pendingPromotions' \in SUBSET Ids
      /\ pendingPromotions' \subseteq waiting \cup Joining(out)
      /\ SnapshotIsCurrentNext
  BY <1>1, PublishStoresKeeps
<1> HIDE DEF out
<1> QED BY <1>1, <1>2

-----------------------------------------------------------------------------
(* What one step keeps, in the parts of the invariant.                       *)

(* The variables no publication touches.                                     *)
RestTypeOK ==
    /\ windows \in Platforms
    /\ builtIns \in SUBSET Ids
    /\ held \in [Ids -> Store \cup {NoStore}]
    /\ pendingRemovals \in SUBSET Ids
    /\ job \in [Ids -> Job]
    /\ backup \in [Ids -> Backup]
    /\ savePending \in BOOLEAN
    /\ diskList \in [Ids -> Saved]
    /\ diskRemovals \in SUBSET Ids
    /\ imports \in 0 .. MaxImports
    /\ crashes \in 0 .. MaxCrashes
    /\ restored \in SUBSET Ids
    /\ torn \in SUBSET Ids

StoresTypeOK ==
    /\ entry \in [Ids -> Entry]
    /\ files \in [Ids -> Files]
    /\ snapshot \in [Ids -> Store \cup {NoStore}]
    /\ pendingPromotions \in SUBSET Ids
    /\ retryTimer \in BOOLEAN

LEMMA TypeOKParts == TypeOK <=> RestTypeOK /\ StoresTypeOK
BY DEF TypeOK, RestTypeOK, StoresTypeOK

(* The parts of the invariant that a publication touches.                    *)
StoresInv ==
    /\ StoresTypeOK
    /\ WaitingIsRetried
    /\ SnapshotIsCurrent
    /\ RemovalsSpareImports

RestInv == RestTypeOK /\ RemovalsRecorded

LEMMA IInvParts == IInv <=> RestInv /\ StoresInv
BY TypeOKParts DEF IInv, RestInv, StoresInv

LEMMA IInvPartsNext == RestInv' /\ StoresInv' => IInv'
BY DEF RestInv, RestTypeOK, StoresInv, StoresTypeOK, TypeOK, IInv

LEMMA PublishKeepsStoresInv ==
    ASSUME NEW running, NEW es \in [Ids -> Entry], NEW fs \in [Ids -> Files],
           NEW timer \in BOOLEAN, NEW waiting \in SUBSET Ids,
           Publish(running, es, fs, waiting, timer),
           pendingRemovals' \in SUBSET Ids,
           pendingRemovals' \cup waiting # {} => timer,
           \A id \in pendingRemovals' \ restored' : ~HasImport(es[id])
    PROVE  StoresInv'
<1>1. /\ Kept(es, fs)
      /\ snapshot' \in [Ids -> Store \cup {NoStore}]
      /\ pendingPromotions' \in SUBSET Ids
      /\ SnapshotIsCurrentNext
      /\ retryTimer' \in BOOLEAN
      /\ timer => retryTimer'
      /\ pendingPromotions' \subseteq waiting \/ retryTimer'
  BY PublishKeeps
<1>2. StoresTypeOK'
  BY <1>1 DEF StoresTypeOK, Kept
<1>3. WaitingIsRetried'
  BY <1>1 DEF WaitingIsRetried
<1>4. SnapshotIsCurrent'
  BY <1>1 DEF SnapshotIsCurrent, SnapshotIsCurrentNext
<1>5. RemovalsSpareImports'
  BY <1>1 DEF RemovalsSpareImports, Kept, SameEntry, HasImport
<1> QED BY <1>2, <1>3, <1>4, <1>5 DEF StoresInv

(* An edit that gives no entry an import.                                    *)
LEMMA EditedKeepsStoresInv ==
    ASSUME IInv, NEW id \in Ids, NEW e \in Entry, HasImport(e) => HasImport(entry[id]),
           Edited(id, e), UNCHANGED <<pendingRemovals, restored>>
    PROVE  StoresInv'
<1> DEFINE es == [entry EXCEPT ![id] = e]
<1>1. /\ es \in [Ids -> Entry] /\ files \in [Ids -> Files] /\ retryTimer \in BOOLEAN
      /\ pendingPromotions \in SUBSET Ids /\ pendingRemovals' \in SUBSET Ids
      /\ \A d \in Ids : HasImport(es[d]) => HasImport(entry[d])
  BY DEF IInv, TypeOK
<1>2. Publish(Running, es, files, pendingPromotions, retryTimer)
  BY DEF Edited
<1>3. /\ pendingRemovals' \cup pendingPromotions # {} => retryTimer
      /\ \A d \in pendingRemovals' \ restored' : ~HasImport(es[d])
  BY <1>1 DEF IInv, WaitingIsRetried, RemovalsSpareImports
<1> HIDE DEF es
<1> QED BY <1>1, <1>2, <1>3, PublishKeepsStoresInv

-----------------------------------------------------------------------------
THEOREM InitIInv == Init => IInv
<1> SUFFICES ASSUME Init PROVE IInv
  OBVIOUS
<1>1. \A id \in Ids : diskList[id] = [listed |-> TRUE, enabled |-> TRUE, imported |-> Absent]
  BY DEF Init
<1>2. diskList \in [Ids -> Saved]
  BY FileTypes DEF Init, Saved
<1>3. entry \in [Ids -> Entry]
  BY <1>1, FileTypes DEF Init, Parsed, Entry
<1>4. NoBackup \in Backup
  BY FileTypes DEF NoBackup, Backup, Parsed, Entry
<1>5. NoJob \in Job
  BY FileTypes DEF NoJob, Job, Stage
<1>6. RestTypeOK
  <2>1. imports \in 0 .. MaxImports /\ crashes \in 0 .. MaxCrashes
    BY MaxImportsAssumption, MaxCrashesAssumption DEF Init
  <2>2. job \in [Ids -> Job] /\ backup \in [Ids -> Backup]
    BY <1>4, <1>5 DEF Init
  <2>3. held \in [Ids -> Store \cup {NoStore}]
    BY DEF Init
  <2> QED BY <1>2, <2>1, <2>2, <2>3 DEF Init, RestTypeOK
<1>7. StoresTypeOK
  BY <1>3, FileTypes DEF Init, StoresTypeOK
<1>8. WaitingIsRetried /\ SnapshotIsCurrent
      /\ RemovalsSpareImports /\ RemovalsRecorded
  BY DEF Init, WaitingIsRetried, SnapshotIsCurrent, RemovalsSpareImports, RemovalsRecorded
<1> QED BY <1>6, <1>7, <1>8, IInvParts DEF StoresInv, RestInv

-----------------------------------------------------------------------------
(* The operations of the dialogs.                                            *)

LEMMA SetEnabledKeeps ==
    ASSUME IInv, NEW id \in Ids, NEW on \in BOOLEAN, SetEnabled(id, on)
    PROVE  IInv'
<1>1. entry[id] \in Entry
  BY DEF IInv, TypeOK
<1>2. /\ Toggled(entry[id], on) \in Entry
      /\ HasImport(Toggled(entry[id], on)) => HasImport(entry[id])
  BY <1>1 DEF Toggled, Entry, HasImport
<1>3. StoresInv'
  BY <1>2, EditedKeepsStoresInv DEF SetEnabled
<1>4. RestInv'
  BY IInvParts DEF SetEnabled, DialogFrame, fixed, disk, RestInv, RestTypeOK, RemovalsRecorded
<1> QED BY <1>3, <1>4, IInvPartsNext

LEMMA SetOptionsKeeps ==
    ASSUME IInv, NEW id \in Ids, SetOptions(id)
    PROVE  IInv'
<1> DEFINE e == [entry[id] EXCEPT !.needsReimport = TRUE]
<1>1. entry[id] \in Entry
  BY DEF IInv, TypeOK
<1>2. e \in Entry /\ (HasImport(e) => HasImport(entry[id]))
  BY <1>1 DEF Entry, HasImport
<1>3. Edited(id, e) /\ UNCHANGED <<pendingRemovals, restored>>
  BY DEF SetOptions
<1> HIDE DEF e
<1>4. StoresInv'
  BY <1>2, <1>3, EditedKeepsStoresInv
<1>5. RestInv'
  BY IInvParts DEF SetOptions, DialogFrame, fixed, disk, RestInv, RestTypeOK, RemovalsRecorded
<1> QED BY <1>4, <1>5, IInvPartsNext

LEMMA SetSourcePathKeeps ==
    ASSUME IInv, NEW id \in Ids, SetSourcePath(id)
    PROVE  IInv'
<1> DEFINE e == [entry[id] EXCEPT !.unavailable = FALSE]
<1>1. entry[id] \in Entry
  BY DEF IInv, TypeOK
<1>2. e \in Entry /\ (HasImport(e) => HasImport(entry[id]))
  BY <1>1 DEF Entry, HasImport
<1>3. Edited(id, e) /\ UNCHANGED <<pendingRemovals, restored>>
  BY DEF SetSourcePath
<1> HIDE DEF e
<1>4. StoresInv'
  BY <1>2, <1>3, EditedKeepsStoresInv
<1>5. RestInv'
  BY IInvParts DEF SetSourcePath, DialogFrame, fixed, disk, RestInv, RestTypeOK, RemovalsRecorded
<1> QED BY <1>4, <1>5, IInvPartsNext

LEMMA RearrangeKeeps ==
    ASSUME IInv, Rearrange
    PROVE  IInv'
<1>1. /\ entry \in [Ids -> Entry] /\ files \in [Ids -> Files] /\ retryTimer \in BOOLEAN
      /\ Publish(Running, entry, files, pendingPromotions, retryTimer)
      /\ UNCHANGED <<pendingRemovals, restored>>
      /\ pendingPromotions \in SUBSET Ids /\ pendingRemovals' \in SUBSET Ids
  BY DEF IInv, TypeOK, Rearrange
<1>2. StoresInv'
  BY <1>1, PublishKeepsStoresInv DEF IInv, WaitingIsRetried, RemovalsSpareImports
<1>3. RestInv'
  BY IInvParts DEF Rearrange, DialogFrame, fixed, disk, RestInv, RestTypeOK, RemovalsRecorded
<1> QED BY <1>2, <1>3, IInvPartsNext

(* A removal waits for an entry without an import: remove() clears           *)
(* importedAt of a built-in and takes a custom entry from the list.          *)
LEMMA RemoveKeeps ==
    ASSUME IInv, NEW id \in Ids, Remove(id)
    PROVE  IInv'
<1> DEFINE es == [entry EXCEPT ![id] = Removed(id, entry[id])]
           fs == [files EXCEPT ![id] = RemoveFiles(files[id], Open(id, NoStore))]
           wait == RemovePending(files[id], Open(id, NoStore))
<1>1. /\ entry[id] \in Entry /\ files[id] \in Files
      /\ pendingPromotions \ {id} \in SUBSET Ids
      /\ retryTimer \in BOOLEAN /\ pendingRemovals \in SUBSET Ids
  BY DEF IInv, TypeOK
<1>2. Removed(id, entry[id]) \in Entry /\ ~HasImport(Removed(id, entry[id]))
  BY <1>1, FileTypes DEF Removed, Entry, HasImport
<1>3. es \in [Ids -> Entry] /\ fs \in [Ids -> Files]
  BY <1>1, <1>2, RemoveFilesType DEF IInv, TypeOK
<1>4. /\ Publish(Running, es, fs, pendingPromotions \ {id}, retryTimer \/ wait)
      /\ restored' = restored
  BY DEF Remove, history
<1>5. /\ pendingRemovals' = IF wait THEN pendingRemovals \cup {id} ELSE pendingRemovals
      /\ RemovalsRecorded'
  BY DEF Remove, RemoveFilesOrWait, IInv, RemovalsRecorded
<1>6. StoresInv'
  <2>1. pendingRemovals' \cup (pendingPromotions \ {id}) # {} => retryTimer \/ wait
    BY <1>5 DEF IInv, WaitingIsRetried
  <2>2. ASSUME NEW d \in pendingRemovals' \ restored' PROVE ~HasImport(es[d])
    <3>1. CASE d = id
      BY <1>2, <3>1 DEF IInv, TypeOK
    <3>2. CASE d # id
      BY <1>1, <1>4, <1>5, <3>2 DEF IInv, TypeOK, RemovalsSpareImports
    <3> QED BY <3>1, <3>2
  <2> HIDE DEF es, fs, wait
  <2> QED BY <1>1, <1>3, <1>4, <1>5, <2>1, <2>2, PublishKeepsStoresInv
<1>7. backup' \in [Ids -> Backup]
  <2>1. [entry |-> [entry[id] EXCEPT !.store = NoStore],
         db |-> files[id].db, keys |-> files[id].keys] \in Backup
    BY <1>1 DEF Backup, Entry, Files
  <2> QED BY <2>1 DEF IInv, TypeOK, Remove
<1>8. pendingRemovals' \in SUBSET Ids /\ diskRemovals' \in SUBSET Ids
  BY <1>1, <1>5 DEF RemovalsRecorded
<1>9. RestInv'
  BY <1>5, <1>7, <1>8, IInvParts DEF Remove, fixed, history, RestInv, RestTypeOK
<1> QED BY <1>6, <1>9, IInvPartsNext

LEMMA UndoKeeps ==
    ASSUME IInv, NEW id \in Ids, Undo(id)
    PROVE  IInv'
<1> DEFINE put(old, new) == IF old = Absent THEN new ELSE old
           es == [entry EXCEPT ![id] = backup[id].entry]
           fs == [files EXCEPT ![id].db = put(@, backup[id].db),
                               ![id].keys = put(@, backup[id].keys)]
<1>1. /\ backup[id] \in Backup /\ files[id] \in Files
      /\ pendingPromotions \in SUBSET Ids
      /\ retryTimer \in BOOLEAN /\ pendingRemovals \in SUBSET Ids
  BY DEF IInv, TypeOK
<1>2. es \in [Ids -> Entry]
  BY <1>1 DEF IInv, TypeOK, Backup
<1>3. fs \in [Ids -> Files]
  BY <1>1 DEF IInv, TypeOK, Backup, Files
<1>4. /\ Publish(Running, es, fs, pendingPromotions, retryTimer)
      /\ restored' = restored \cup {id} /\ pendingRemovals' = pendingRemovals
  BY DEF Undo
<1>5. StoresInv'
  <2>1. pendingRemovals' \cup pendingPromotions # {} => retryTimer
    BY <1>4 DEF IInv, WaitingIsRetried
  <2>2. \A d \in pendingRemovals' \ restored' : ~HasImport(es[d])
    BY <1>1, <1>4 DEF IInv, TypeOK, RemovalsSpareImports
  <2> HIDE DEF es, fs
  <2> QED BY <1>1, <1>2, <1>3, <1>4, <2>1, <2>2, PublishKeepsStoresInv
<1>6. backup' \in [Ids -> Backup]
  <2>1. NoBackup \in Backup
    BY FileTypes DEF NoBackup, Backup, Parsed, Entry
  <2> QED BY <2>1 DEF IInv, TypeOK, Undo
<1>7. RestInv'
  BY <1>6, IInvParts DEF Undo, DialogFrame, fixed, disk, RestInv, RestTypeOK, RemovalsRecorded
<1> QED BY <1>5, <1>7, IInvPartsNext

(* The steps that publish nothing.                                           *)
LEMMA UnpublishedKeeps ==
    ASSUME IInv, UNCHANGED <<entry, snapshot, pendingPromotions>>,
           files' \in [Ids -> Files],
           pendingRemovals' \in SUBSET pendingRemovals, restored' = restored,
           retryTimer' \in BOOLEAN, retryTimer => retryTimer'
    PROVE  StoresInv'
BY DEF IInv, TypeOK, WaitingIsRetried, SnapshotIsCurrent, RemovalsSpareImports,
       StoresInv, StoresTypeOK, Published

LEMMA SaveKeeps ==
    ASSUME IInv, Save
    PROVE  IInv'
<1>1. StoresInv'
  BY UnpublishedKeeps DEF Save, history, IInv, TypeOK
<1>2. diskList' \in [Ids -> Saved]
  BY DEF Save, Json, Saved, IInv, TypeOK, Entry
<1>3. RestInv'
  BY <1>2, IInvParts DEF Save, fixed, history, RestInv, RestTypeOK, RemovalsRecorded
<1> QED BY <1>1, <1>3, IInvPartsNext

LEMMA SnapshotHolderKeeps ==
    ASSUME IInv, TakeSnapshot \/ ReleaseSnapshot
    PROVE  IInv'
<1>1. StoresInv'
  BY UnpublishedKeeps DEF TakeSnapshot, ReleaseSnapshot, history, IInv, TypeOK
<1>2. held' \in [Ids -> Store \cup {NoStore}]
  BY DEF TakeSnapshot, ReleaseSnapshot, IInv, TypeOK
<1>3. RestInv'
  BY <1>2, IInvParts
  DEF TakeSnapshot, ReleaseSnapshot, fixed, disk, history, RestInv, RestTypeOK, RemovalsRecorded
<1> QED BY <1>1, <1>3, IInvPartsNext

-----------------------------------------------------------------------------
(* The import jobs.                                                          *)

LEMMA JobFrameKeeps ==
    ASSUME IInv, files' \in [Ids -> Files], job' \in [Ids -> Job],
           imports' \in 0 .. MaxImports, torn' \in SUBSET Ids,
           UNCHANGED <<fixed, entry, snapshot, held, pendingRemovals,
                       pendingPromotions, retryTimer, backup, savePending,
                       disk, crashes, restored>>
    PROVE  IInv'
<1>1. StoresInv'
  BY UnpublishedKeeps DEF IInv, TypeOK
<1>2. RestInv'
  BY IInvParts DEF fixed, disk, RestInv, RestTypeOK, RemovalsRecorded
<1> QED BY <1>1, <1>2, IInvPartsNext

LEMMA CreateImportJobKeeps ==
    ASSUME IInv, NEW id \in Ids, CreateImportJob(id)
    PROVE  IInv'
<1>1. imports \in 0 .. MaxImports /\ imports < MaxImports /\ imports' = imports + 1
  BY DEF IInv, TypeOK, CreateImportJob
<1>2. imports' \in 0 .. MaxImports /\ imports' \in File
  BY <1>1, MaxImportsAssumption DEF File, Import
<1>3. job' \in [Ids -> Job]
  <2>1. [stage |-> "queued", import |-> imports', ok |-> FALSE] \in Job
    BY <1>2 DEF Job, Stage
  <2> QED BY <2>1 DEF IInv, TypeOK, CreateImportJob
<1> QED BY <1>2, <1>3, JobFrameKeeps DEF CreateImportJob, JobFrame, history, IInv, TypeOK

LEMMA AdvanceType ==
    ASSUME IInv, NEW id \in Ids, NEW from, NEW to \in Stage, Advance(id, from, to)
    PROVE  job' \in [Ids -> Job]
BY DEF IInv, TypeOK, Advance, Job

(* One file of one dictionary is moved or deleted.                           *)
LEMMA OneFileMoved ==
    ASSUME IInv, NEW id \in Ids, NEW import \in File
    PROVE  /\ [files EXCEPT ![id].db = import] \in [Ids -> Files]
           /\ [files EXCEPT ![id].stagedDb = import] \in [Ids -> Files]
           /\ [files EXCEPT ![id].keys = import] \in [Ids -> Files]
           /\ [files EXCEPT ![id].stagedKeys = import] \in [Ids -> Files]
<1>1. files \in [Ids -> Files] /\ files[id] \in Files
  BY DEF IInv, TypeOK
<1>2. /\ [files[id] EXCEPT !.db = import] \in Files
      /\ [files[id] EXCEPT !.stagedDb = import] \in Files
      /\ [files[id] EXCEPT !.keys = import] \in Files
      /\ [files[id] EXCEPT !.stagedKeys = import] \in Files
  BY <1>1 DEF Files
<1> QED BY <1>1, <1>2

LEMMA JobStepKeeps ==
    ASSUME IInv, NEW id \in Ids,
           StartImport(id) \/ WriteImport(id) \/ FailImport(id) \/ MoveDb(id)
             \/ StageKeys(id) \/ DropStagedDb(id) \/ DropStagedKeys(id)
    PROVE  IInv'
<1>1. job[id] \in Job /\ job[id].import \in File
  BY DEF IInv, TypeOK, Job
<1>2. {"writing", "moveDb", "done", "stageKeys", "dropStagedDb", "dropStagedKeys",
       "moveKeys"} \subseteq Stage
  BY DEF Stage, Installing
<1>3. CASE StartImport(id) \/ WriteImport(id)
  <2>1. job' \in [Ids -> Job]
    BY <1>2, <1>3, AdvanceType DEF StartImport, WriteImport
  <2> QED BY <1>3, <2>1, JobFrameKeeps
          DEF StartImport, WriteImport, JobFrame, history, IInv, TypeOK
<1>4. CASE FailImport(id)
  <2>1. job' \in [Ids -> Job]
    BY <1>1, <1>2, <1>4 DEF FailImport, IInv, TypeOK, Job
  <2> QED BY <1>4, <2>1, JobFrameKeeps DEF FailImport, JobFrame, history, IInv, TypeOK
<1>5. CASE MoveDb(id)
  <2>1. job' \in [Ids -> Job]
    BY <1>2, <1>5, AdvanceType DEF MoveDb
  <2>2. files' \in [Ids -> Files]
    <3>1. /\ [files EXCEPT ![id].db = job[id].import] \in [Ids -> Files]
          /\ [files EXCEPT ![id].stagedDb = job[id].import] \in [Ids -> Files]
      BY <1>1, OneFileMoved
    <3>2. \/ files' = [files EXCEPT ![id].stagedDb = job[id].import]
          \/ files' = [files EXCEPT ![id].db = job[id].import]
      BY <1>5, Zenon DEF MoveDb
    <3> QED BY <3>1, <3>2, Zenon
  <2> QED BY <1>5, <2>1, <2>2, JobFrameKeeps DEF MoveDb, JobFrame, history, IInv, TypeOK
<1>6. CASE StageKeys(id)
  <2>1. job' \in [Ids -> Job]
    BY <1>1, <1>2, <1>6 DEF StageKeys, IInv, TypeOK, Job
  <2>2. files' \in [Ids -> Files]
    <3>1. PICK moved \in BOOLEAN : files' = StagedKeys(id, moved)
      BY <1>6, Zenon DEF StageKeys
    <3> DEFINE import == IF moved THEN job[id].import ELSE Absent
    <3>2. import \in File
      BY <1>1, FileTypes
    <3>3. files' = [files EXCEPT ![id].stagedKeys = import]
      BY <3>1, Zenon DEF StagedKeys
    <3> HIDE DEF import
    <3> QED BY <3>2, <3>3, OneFileMoved, Zenon
  <2> QED BY <1>6, <2>1, <2>2, JobFrameKeeps DEF StageKeys, JobFrame, history, IInv, TypeOK
<1>7. CASE DropStagedDb(id) \/ DropStagedKeys(id)
  <2>1. job' \in [Ids -> Job]
    BY <1>2, <1>7, AdvanceType DEF DropStagedDb, DropStagedKeys
  <2>2. files' \in [Ids -> Files]
    <3>1. /\ [files EXCEPT ![id].stagedDb = Absent] \in [Ids -> Files]
          /\ [files EXCEPT ![id].stagedKeys = Absent] \in [Ids -> Files]
      BY FileTypes, OneFileMoved, Zenon
    <3> QED BY <1>7, <3>1, Zenon DEF DropStagedDb, DropStagedKeys
  <2> QED BY <1>7, <2>1, <2>2, JobFrameKeeps
          DEF DropStagedDb, DropStagedKeys, JobFrame, history, IInv, TypeOK
<1> QED BY <1>3, <1>4, <1>5, <1>6, <1>7

LEMMA MoveKeysKeeps ==
    ASSUME IInv, NEW id \in Ids, MoveKeys(id)
    PROVE  IInv'
<1> DEFINE busy == KeysBusy(Open(id, entry[id].store))
<1>1. job[id] \in Job /\ files[id] \in Files /\ torn \in SUBSET Ids
  BY DEF IInv, TypeOK
<1>2. job' \in [Ids -> Job]
  BY <1>1 DEF MoveKeys, IInv, TypeOK, Job, Stage
<1>3. PICK moved \in {FALSE, ~busy} :
        /\ files' = [files EXCEPT ![id].keys =
                       IF moved THEN job[id].import ELSE IF busy THEN @ ELSE Absent]
        /\ torn' = IF busy THEN torn \cup {id} ELSE torn
  BY DEF MoveKeys
<1>4. UNCHANGED <<fixed, entry, snapshot, held, pendingRemovals, pendingPromotions,
                  retryTimer, backup, savePending, disk, imports, crashes, restored>>
  BY DEF MoveKeys
<1> HIDE DEF busy
<1>5. files' \in [Ids -> Files] /\ torn' \in SUBSET Ids
  BY <1>1, <1>3, FileTypes DEF IInv, TypeOK, Files, Job
<1> QED BY <1>2, <1>4, <1>5, JobFrameKeeps DEF IInv, TypeOK

(* The slot of finished() drops a removal of the dictionary before a result  *)
(* is recorded.                                                              *)
LEMMA JobEndedKeeps ==
    ASSUME IInv, NEW id \in Ids, NEW ok \in BOOLEAN, JobEnded(id, ok)
    PROVE  /\ job' \in [Ids -> Job]
           /\ pendingRemovals' = IF ok THEN pendingRemovals \ {id} ELSE pendingRemovals
           /\ RemovalsRecorded'
           /\ TimerAfter(id, pendingRemovals') \in BOOLEAN
           /\ retryTimer => TimerAfter(id, pendingRemovals')
<1>1. NoJob \in Job
  BY FileTypes DEF NoJob, Job, Stage
<1>2. job' \in [Ids -> Job]
  BY <1>1 DEF IInv, TypeOK, JobEnded
<1>3. /\ pendingRemovals' = IF ok THEN pendingRemovals \ {id} ELSE pendingRemovals
      /\ RemovalsRecorded'
  BY DEF IInv, JobEnded, RemovalsRecorded
<1>4. /\ TimerAfter(id, pendingRemovals') \in BOOLEAN
      /\ retryTimer => TimerAfter(id, pendingRemovals')
  BY DEF TimerAfter, IInv, TypeOK
<1> QED BY <1>2, <1>3, <1>4

LEMMA KillKeeps ==
    ASSUME IInv, NEW id \in Ids, Kill(id)
    PROVE  IInv'
<1>1. /\ job' \in [Ids -> Job]
      /\ pendingRemovals' = pendingRemovals
      /\ RemovalsRecorded'
      /\ TimerAfter(id, pendingRemovals') \in BOOLEAN
      /\ retryTimer => TimerAfter(id, pendingRemovals')
  BY JobEndedKeeps DEF Kill
<1>2. StoresInv'
  BY <1>1, UnpublishedKeeps DEF Kill, history, IInv, TypeOK
<1>3. RestInv'
  BY <1>1, IInvParts DEF Kill, fixed, history, RestInv, RestTypeOK, RemovalsRecorded
<1> QED BY <1>2, <1>3, IInvPartsNext

LEMMA FinishImportKeeps ==
    ASSUME IInv, NEW id \in Ids, FinishImport(id)
    PROVE  IInv'
<1>1. /\ job[id] \in Job /\ job[id].ok \in BOOLEAN /\ job[id].import \in File
      /\ entry[id] \in Entry /\ files[id] \in Files
      /\ pendingRemovals \in SUBSET Ids /\ pendingPromotions \in SUBSET Ids
  BY DEF IInv, TypeOK, Job
<1>2. /\ job' \in [Ids -> Job]
      /\ pendingRemovals' = IF job[id].ok THEN pendingRemovals \ {id} ELSE pendingRemovals
      /\ RemovalsRecorded'
      /\ TimerAfter(id, pendingRemovals') \in BOOLEAN
      /\ retryTimer => TimerAfter(id, pendingRemovals')
  BY <1>1, JobEndedKeeps DEF FinishImport
<1>3. restored' = restored /\ pendingRemovals' \in SUBSET Ids
  BY <1>1, <1>2 DEF FinishImport, history
<1>4. CASE job[id].ok /\ entry[id].listed
  <2> DEFINE out == OpenStore(FALSE, Imported(entry[id], job[id].import),
                              files[id], Open(id, NoStore))
             es == [entry EXCEPT ![id] = out.entry]
             fs == [files EXCEPT ![id] = out.files]
             waiting == CASE out.waits = "join" -> pendingPromotions \cup {id}
                          [] out.waits = "leave" -> pendingPromotions \ {id}
                          [] OTHER -> pendingPromotions
             timer == TimerAfter(id, pendingRemovals') \/ out.waits = "join"
  <2>1. Publish(Running \ {id}, es, fs, waiting, timer) /\ savePending' = TRUE
    BY <1>4 DEF FinishImport
  <2>2. Imported(entry[id], job[id].import) \in Entry
    BY <1>1 DEF Imported, Entry
  <2>3. out.entry \in Entry /\ out.files \in Files
    BY <1>1, <2>2, OpenStoreKeeps
  <2> HIDE DEF out
  <2>4. es \in [Ids -> Entry] /\ fs \in [Ids -> Files]
    BY <2>3 DEF IInv, TypeOK
  <2>5. /\ timer \in BOOLEAN /\ waiting \in SUBSET Ids
        /\ waiting \subseteq pendingPromotions \/ timer
    BY <1>1, <1>2
  <2>6. \A d \in pendingRemovals' \ restored' : ~HasImport(es[d])
    BY <1>1, <1>2, <1>3, <1>4 DEF IInv, TypeOK, RemovalsSpareImports
  <2>7. pendingRemovals' \cup waiting # {} => timer
    BY <1>2, <2>5 DEF IInv, WaitingIsRetried
  <2> HIDE DEF es, fs, waiting, timer
  <2>8. StoresInv'
    BY <1>3, <2>1, <2>4, <2>5, <2>6, <2>7, PublishKeepsStoresInv
  <2>9. RestInv'
    BY <1>2, <1>3, <2>1, IInvParts
    DEF FinishImport, fixed, history, RestInv, RestTypeOK, RemovalsRecorded
  <2> QED BY <2>8, <2>9, IInvPartsNext
<1>5. CASE ~(job[id].ok /\ entry[id].listed)
  <2>1. /\ retryTimer' = TimerAfter(id, pendingRemovals')
        /\ UNCHANGED <<entry, files, snapshot, pendingPromotions, savePending>>
    BY <1>5 DEF FinishImport
  <2>2. StoresInv'
    BY <1>2, <1>3, <2>1, UnpublishedKeeps DEF IInv, TypeOK
  <2>3. RestInv'
    BY <1>2, <1>3, <2>1, IInvParts
    DEF FinishImport, fixed, history, RestInv, RestTypeOK, RemovalsRecorded
  <2> QED BY <2>2, <2>3, IInvPartsNext
<1> QED BY <1>4, <1>5

-----------------------------------------------------------------------------
(* The retry of removals and promotions.                                     *)

(* What a retry may not lose: the files of an entry with an import, and of   *)
(* a running import.                                                         *)
Spared(id) == HasImport(entry[id]) \/ id \in Running

LEMMA RetryOutcomeKeeps ==
    ASSUME IInv
    PROVE  LET out == RetryOutcome
           IN /\ out.files \in [Ids -> Files]
              /\ \A id \in Ids \ restored :
                   Spared(id) => Newest(out.files[id]) = Newest(files[id])
<1> DEFINE open == [id \in Ids |-> Open(id, entry[id].store)]
           removing == Retried(pendingRemovals)
           promoting == Retried(pendingPromotions)
           kept == [id \in Ids |-> IF id \in removing THEN RemoveFiles(files[id], open[id])
                                  ELSE files[id]]
           promoted == [id \in Ids |-> IF id \in promoting THEN Promote(kept[id], open[id])
                                      ELSE kept[id]]
<1>1. RetryOutcome.files = promoted
  BY Zenon DEF RetryOutcome
<1> HIDE DEF open, removing, promoting
<1>2. \A id \in Ids : files[id] \in Files
  BY DEF IInv, TypeOK
<1>3. \A id \in Ids : kept[id] \in Files
  BY <1>2, RemoveFilesType
<1>4. \A id \in Ids \ restored : Spared(id) => kept[id] = files[id]
  <2>1. \A id \in removing : id \in pendingRemovals /\ id \notin Running
    BY DEF removing, Retried
  <2> QED BY <2>1 DEF Spared, IInv, RemovalsSpareImports
<1> HIDE DEF kept
<1>5. \A id \in Ids : /\ promoted[id] \in Files
                     /\ Newest(promoted[id]) = Newest(kept[id])
  BY <1>3, PromoteKeepsNewest
<1> HIDE DEF promoted
<1>6. promoted \in [Ids -> Files]
  BY <1>5 DEF promoted
<1> QED BY <1>1, <1>4, <1>5, <1>6

LEMMA RetryPendingKeeps ==
    ASSUME IInv, RetryPending
    PROVE  /\ IInv'
           /\ \A id \in Ids \ restored :
                Spared(id) => Newest(files'[id]) = Newest(files[id])
<1> DEFINE out == RetryOutcome
           waiting == pendingPromotions \ out.settled
           opened == OpenStores(Running, entry, out.files, [id \in Ids |-> Open(id, NoStore)])
<1>1. /\ pendingRemovals' = pendingRemovals \ out.removed
      /\ diskRemovals' = IF out.removed # {} THEN pendingRemovals' ELSE diskRemovals
      /\ IF out.settled # {}
         THEN PublishStores(opened, waiting)
         ELSE files' = out.files /\ UNCHANGED <<entry, snapshot, pendingPromotions>>
      /\ FurtherRetry
      /\ savePending' = (savePending \/ out.settled # {})
      /\ UNCHANGED <<fixed, held, job, backup, diskList, imports, history>>
  BY DEF RetryPending
<1>2. /\ out.files \in [Ids -> Files]
      /\ \A id \in Ids \ restored :
           Spared(id) => Newest(out.files[id]) = Newest(files[id])
  BY RetryOutcomeKeeps
<1>3. /\ entry \in [Ids -> Entry] /\ pendingPromotions \in SUBSET Ids
      /\ pendingRemovals \in SUBSET Ids
  BY DEF IInv, TypeOK
<1> HIDE DEF out
<1>4. /\ Kept(entry, out.files)
      /\ snapshot' \in [Ids -> Store \cup {NoStore}]
      /\ pendingPromotions' \in SUBSET Ids
      /\ SnapshotIsCurrentNext
  <2>1. CASE out.settled # {}
    <3>1. waiting \in SUBSET Ids /\ PublishStores(opened, waiting)
      BY <1>1, <1>3, <2>1
    <3> HIDE DEF waiting
    <3> QED BY <1>2, <1>3, <3>1, PublishStoresKeeps
  <2>2. CASE out.settled = {}
    <3>1. files' = out.files /\ UNCHANGED <<entry, snapshot, pendingPromotions>>
      BY <1>1, <2>2
    <3>2. Kept(entry, out.files)
      BY <1>2, <1>3, <3>1 DEF Kept, SameEntry
    <3>3. SnapshotIsCurrentNext
      BY <3>1 DEF IInv, SnapshotIsCurrent, SnapshotIsCurrentNext
    <3> QED BY <3>1, <3>2, <3>3 DEF IInv, TypeOK
  <2> QED BY <2>1, <2>2
<1> HIDE DEF waiting, opened
<1>5. StoresInv'
  <2>1. StoresTypeOK'
    BY <1>1, <1>4 DEF StoresTypeOK, Kept, FurtherRetry
  <2>2. WaitingIsRetried'
    BY <1>1 DEF WaitingIsRetried, FurtherRetry
  <2>3. SnapshotIsCurrent'
    BY <1>4 DEF SnapshotIsCurrent, SnapshotIsCurrentNext
  <2>4. RemovalsSpareImports'
    BY <1>1, <1>3, <1>4
    DEF IInv, RemovalsSpareImports, Kept, SameEntry, HasImport, history
  <2> QED BY <2>1, <2>2, <2>3, <2>4 DEF StoresInv
<1>6. RestInv'
  <2>1. RemovalsRecorded'
    BY <1>1 DEF IInv, RemovalsRecorded
  <2>2. pendingRemovals' \in SUBSET Ids /\ savePending' \in BOOLEAN
    BY <1>1, <1>3
  <2> QED BY <1>1, <2>1, <2>2, IInvParts DEF fixed, history, RestInv, RestTypeOK, RemovalsRecorded
<1>7. \A id \in Ids \ restored : Spared(id) => Newest(files'[id]) = Newest(files[id])
  BY <1>2, <1>4 DEF Kept
<1> QED BY <1>5, <1>6, <1>7, IInvPartsNext

-----------------------------------------------------------------------------
(* The end of the process and its next start, when no file is open.          *)

LEMMA NothingStaysStaged ==
    ASSUME NEW f \in Files
    PROVE  ~PromotePending(f, {})
<1>1. ~DbBusy({}) /\ ~KeysBusy({})
  BY DEF DbBusy, KeysBusy
<1>2. Promote(f, {}).stagedDb = Absent /\ Promote(f, {}).stagedKeys = Absent
  BY <1>1 DEF Promote, Files
<1> QED BY <1>2 DEF PromotePending, HasStaged

(* What a start makes of the saved list and of the recorded removals.        *)
Loaded == [id \in Ids |-> Parsed(diskList[id])]
LeftFiles == [id \in Ids |-> IF Adopted(id) THEN NoFiles ELSE files[id]]
NothingOpen == [id \in Ids |-> {}]

LEMMA LoadedTypes ==
    ASSUME IInv
    PROVE  Loaded \in [Ids -> Entry] /\ LeftFiles \in [Ids -> Files]
<1>1. \A id \in Ids : Parsed(diskList[id]) \in Entry
  BY DEF IInv, TypeOK, Saved, Parsed, Entry
<1>2. \A id \in Ids : files[id] \in Files
  BY DEF IInv, TypeOK
<1> QED BY <1>1, <1>2, FileTypes DEF Loaded, LeftFiles

LEMMA RestartKeeps ==
    ASSUME IInv, Restart
    PROVE  /\ IInv'
           /\ \A id \in Ids :
                IF id \in pendingRemovals /\ ~HasImport(diskList[id])
                THEN files'[id] = NoFiles
                ELSE Newest(files'[id]) = Newest(files[id])
<1> DEFINE out == OpenStores({}, Loaded, LeftFiles, NothingOpen)
<1>1. /\ PublishStores(out, {}) /\ crashes < MaxCrashes /\ crashes' = crashes + 1
      /\ held' = [id \in Ids |-> NoStore]
      /\ pendingRemovals' = {} /\ diskRemovals' = {} /\ retryTimer' = FALSE
      /\ job' = [id \in Ids |-> NoJob] /\ backup' = [id \in Ids |-> NoBackup]
      /\ savePending' = FALSE
      /\ torn' = torn \cup {id \in Ids : job[id].stage \in Installing}
      /\ restored' = restored \cup {id \in Ids : HasImport(diskList[id])
                                               /\ ~HasImport(entry[id])}
      /\ UNCHANGED <<fixed, diskList, imports>>
  BY DEF Restart, Loaded, LeftFiles, NothingOpen
<1>2. Loaded \in [Ids -> Entry] /\ LeftFiles \in [Ids -> Files]
  BY LoadedTypes
<1>3. /\ Kept(Loaded, LeftFiles)
      /\ snapshot' \in [Ids -> Store \cup {NoStore}]
      /\ pendingPromotions' \in SUBSET Ids
      /\ pendingPromotions' \subseteq Joining(out)
      /\ SnapshotIsCurrentNext
  <2>1. {} \in SUBSET Ids /\ PublishStores(out, {})
    BY <1>1
  <2>2. {} \cup Joining(out) = Joining(out)
    OBVIOUS
  <2> QED BY <1>2, <2>1, <2>2, PublishStoresKeeps
<1>4. \A id \in Ids : out[id] = IF Published(Loaded[id])
                                THEN OpenStore(id \in {}, Loaded[id], LeftFiles[id], {})
                                ELSE OpenOutcome(Loaded[id], LeftFiles[id], "same")
  BY Zenon DEF OpenStores, NothingOpen
<1> HIDE DEF out
<1>5. Joining(out) = {}
  <2> SUFFICES ASSUME NEW id \in Ids PROVE out[id].waits # "join"
    BY DEF Joining
  <2>1. ~PromotePending(LeftFiles[id], {})
    BY <1>2, NothingStaysStaged
  <2>2. OpenStore(id \in {}, Loaded[id], LeftFiles[id], {}).waits # "join"
    BY <2>1 DEF OpenStore, LoadStore, OpenOutcome
  <2>3. OpenOutcome(Loaded[id], LeftFiles[id], "same").waits # "join"
    BY DEF OpenOutcome
  <2> QED BY <1>4, <2>2, <2>3, Zenon
<1>6. StoresInv'
  <2>1. StoresTypeOK'
    BY <1>1, <1>3 DEF StoresTypeOK, Kept
  <2>2. WaitingIsRetried' /\ RemovalsSpareImports'
    BY <1>1, <1>3, <1>5 DEF WaitingIsRetried, RemovalsSpareImports
  <2>3. SnapshotIsCurrent'
    BY <1>3 DEF SnapshotIsCurrent, SnapshotIsCurrentNext
  <2> QED BY <2>1, <2>2, <2>3 DEF StoresInv
<1>7. RestInv'
  <2>1. NoJob \in Job /\ NoBackup \in Backup
    BY FileTypes DEF NoJob, Job, Stage, NoBackup, Backup, Parsed, Entry
  <2>2. job' \in [Ids -> Job] /\ backup' \in [Ids -> Backup]
    BY <1>1, <2>1
  <2>3. crashes' \in 0 .. MaxCrashes
    BY <1>1, MaxCrashesAssumption DEF IInv, TypeOK
  <2>4. /\ held' \in [Ids -> Store \cup {NoStore}]
        /\ pendingRemovals' \in SUBSET Ids /\ diskRemovals' \in SUBSET Ids
        /\ savePending' \in BOOLEAN /\ RemovalsRecorded'
    BY <1>1 DEF RemovalsRecorded
  <2>5. torn' \in SUBSET Ids /\ restored' \in SUBSET Ids
    BY <1>1 DEF IInv, TypeOK
  <2> QED BY <1>1, <2>2, <2>3, <2>4, <2>5, IInvParts DEF fixed, RestInv, RestTypeOK
<1>8. ASSUME NEW id \in Ids
      PROVE  IF id \in pendingRemovals /\ ~HasImport(diskList[id])
             THEN files'[id] = NoFiles
             ELSE Newest(files'[id]) = Newest(files[id])
  <2>1. Adopted(id) <=> id \in pendingRemovals /\ ~HasImport(diskList[id])
    BY DEF Adopted, IInv, RemovalsRecorded
  <2>2. CASE Adopted(id)
    <3>1. LeftFiles[id] = NoFiles
      BY <2>2 DEF LeftFiles
    <3>2. Published(Loaded[id]) => Skipped(Loaded[id])
      BY <2>2 DEF Adopted, HasImport, Loaded, Parsed, Published, Skipped
    <3>3. out[id] = OpenOutcome(Loaded[id], NoFiles, "same")
      BY <1>4, <3>1, <3>2, Zenon DEF OpenStore
    <3>4. out[id].files = NoFiles
      BY <3>3 DEF OpenOutcome
    <3>5. files'[id] = NoFiles
      BY <1>1, <3>4 DEF PublishStores
    <3> QED BY <2>1, <2>2, <3>5
  <2>3. CASE ~Adopted(id)
    <3>1. LeftFiles[id] = files[id]
      BY <2>3 DEF LeftFiles
    <3> QED BY <1>3, <2>1, <2>3, <3>1 DEF Kept
  <2> QED BY <2>2, <2>3
<1> QED BY <1>6, <1>7, <1>8, IInvPartsNext

-----------------------------------------------------------------------------
LEMMA StepKeepsIInv ==
    ASSUME IInv, [Next]_vars
    PROVE  IInv'
<1>1. CASE UNCHANGED vars
  <2>1. StoresInv'
    BY <1>1, UnpublishedKeeps DEF vars, history, IInv, TypeOK
  <2>2. RestInv'
    BY <1>1, IInvParts DEF vars, fixed, disk, history, RestInv, RestTypeOK, RemovalsRecorded
  <2> QED BY <2>1, <2>2, IInvPartsNext
<1>2. ASSUME NEW id \in Ids, NEW on \in BOOLEAN, SetEnabled(id, on) PROVE IInv'
  BY <1>2, SetEnabledKeeps
<1>3. ASSUME NEW id \in Ids, SetOptions(id) \/ SetSourcePath(id) PROVE IInv'
  BY <1>3, SetOptionsKeeps, SetSourcePathKeeps
<1>4. ASSUME NEW id \in Ids, Remove(id) \/ Undo(id) PROVE IInv'
  BY <1>4, RemoveKeeps, UndoKeeps
<1>5. ASSUME NEW id \in Ids,
             StartImport(id) \/ WriteImport(id) \/ FailImport(id) \/ MoveDb(id)
               \/ StageKeys(id) \/ DropStagedDb(id) \/ DropStagedKeys(id)
      PROVE  IInv'
  BY <1>5, JobStepKeeps
<1>6. ASSUME NEW id \in Ids,
             CreateImportJob(id) \/ MoveKeys(id) \/ FinishImport(id) \/ Kill(id)
      PROVE  IInv'
  BY <1>6, CreateImportJobKeeps, MoveKeysKeeps, FinishImportKeeps, KillKeeps
<1>7. CASE Rearrange \/ Save \/ TakeSnapshot \/ ReleaseSnapshot
  BY <1>7, RearrangeKeeps, SaveKeeps, SnapshotHolderKeeps
<1>8. CASE RetryPending \/ Restart
  BY <1>8, RetryPendingKeeps, RestartKeeps
<1> QED BY <1>1, <1>2, <1>3, <1>4, <1>5, <1>6, <1>7, <1>8 DEF Next

-----------------------------------------------------------------------------
(* The files of imports, of which none is removed while it runs: what is     *)
(* held of a dictionary with the entry e, the files f, the job j and the     *)
(* saved form d, when n imports were started and `cut` says one was torn.    *)

(* Import numbers grow: what is saved is no newer than the entry, and a      *)
(* running import is newer than both.                                        *)
Numbered(e, j, d, n) ==
    /\ e.imported <= n /\ d.imported <= n /\ j.import <= n
    /\ j.stage # "none" => e.imported < j.import /\ d.imported < j.import
    /\ HasImport(d) /\ HasImport(e) => d.imported <= e.imported

(* The newest files hold the import the entry records or a later one, and    *)
(* the Store of the entry was opened on such files.                          *)
Covered(e, f) ==
    /\ HasImport(e) => Newest(f) >= e.imported
    /\ e.store # NoStore => e.store.db >= e.imported

(* What StoreWriter::finish() has moved at each of its stages.               *)
Moved(f, j) ==
    /\ j.ok => j.stage = "done"
    /\ j.stage \in {"dropStagedDb", "dropStagedKeys", "moveKeys"} => f.db = j.import
    /\ j.stage \in {"dropStagedKeys", "moveKeys"} => f.stagedDb = Absent
    /\ j.stage = "moveKeys" => f.stagedKeys = Absent
    /\ j.stage = "stageKeys" => f.stagedDb = j.import
    /\ j.stage = "done" /\ j.ok => Newest(f) = j.import

(* Each filter belongs to the database beside it.                            *)
KeysMatch(f) == f.keys \in {Absent, f.db}
StagedKeysMatch(f) == f.stagedKeys \in {Absent, f.stagedDb}

Matched(f, j) ==
    /\ j.stage \notin Installing => KeysMatch(f) /\ StagedKeysMatch(f)
    /\ j.stage = "stageKeys" => KeysMatch(f)

Placed(e, f, j, d, n, cut) ==
    Numbered(e, j, d, n) /\ Covered(e, f) /\ Moved(f, j) /\ (cut \/ Matched(f, j))

ImportsPlaced ==
    \A id \in Ids \ restored :
        Placed(entry[id], files[id], job[id], diskList[id], imports, id \in torn)

(* promoteStagedStore() leaves no filter beside a database of another import:*)
(* it drops the old filter before it moves the staged database.              *)
LEMMA PromoteMatches ==
    ASSUME NEW f \in Files, NEW open, KeysMatch(f), StagedKeysMatch(f)
    PROVE  KeysMatch(Promote(f, open)) /\ StagedKeysMatch(Promote(f, open))
<1> DEFINE kb == KeysBusy(open)
           db == DbBusy(open)
           filterless == IF f.stagedDb # Absent /\ ~kb
                         THEN [f EXCEPT !.keys = Absent] ELSE f
           moved == IF f.stagedDb # Absent /\ ~kb /\ ~db
                    THEN [filterless EXCEPT !.db = f.stagedDb, !.stagedDb = Absent]
                    ELSE filterless
<1>1. Promote(f, open) =
        IF moved.stagedDb = Absent /\ f.stagedKeys # Absent /\ ~kb
        THEN [moved EXCEPT !.keys = f.stagedKeys, !.stagedKeys = Absent]
        ELSE moved
  BY DEF Promote
<1>2. /\ filterless \in Files /\ filterless.db = f.db
      /\ filterless.stagedDb = f.stagedDb /\ filterless.stagedKeys = f.stagedKeys
      /\ filterless.keys = IF f.stagedDb # Absent /\ ~kb THEN Absent ELSE f.keys
  BY FileTypes DEF Files
<1> HIDE DEF filterless
<1>3. /\ moved \in Files /\ moved.stagedKeys = f.stagedKeys /\ moved.keys = filterless.keys
      /\ IF f.stagedDb # Absent /\ ~kb /\ ~db
         THEN moved.db = f.stagedDb /\ moved.stagedDb = Absent
         ELSE moved.db = f.db /\ moved.stagedDb = f.stagedDb
  BY <1>2 DEF Files
<1> HIDE DEF moved
<1>4. LET last == [moved EXCEPT !.keys = f.stagedKeys, !.stagedKeys = Absent]
      IN /\ last.keys = f.stagedKeys /\ last.stagedKeys = Absent
         /\ last.db = moved.db /\ last.stagedDb = moved.stagedDb
  BY <1>3 DEF Files
<1> HIDE DEF kb, db
<1>5. CASE moved.stagedDb = Absent /\ f.stagedKeys # Absent /\ ~kb
  BY <1>1, <1>2, <1>3, <1>4, <1>5 DEF KeysMatch, StagedKeysMatch
<1>6. CASE ~(moved.stagedDb = Absent /\ f.stagedKeys # Absent /\ ~kb)
  <2>1. Promote(f, open) = moved
    BY <1>1, <1>6
  <2> QED BY <1>2, <1>3, <1>6, <2>1 DEF KeysMatch, StagedKeysMatch
<1> QED BY <1>5, <1>6

(* openStore() opens the newest files or none, keeps filters and databases   *)
(* together, and leaves the files of a running import alone.                 *)
LEMMA OpenStorePlaces ==
    ASSUME NEW running, NEW e \in Entry, NEW f \in Files, NEW open
    PROVE  LET out == OpenStore(running, e, f, open)
           IN /\ \/ out.entry.store = e.store
                 \/ e.imported # Absent /\ out.entry.store.db = Newest(f)
              /\ KeysMatch(f) /\ StagedKeysMatch(f) =>
                   KeysMatch(out.files) /\ StagedKeysMatch(out.files)
<1>1. ASSUME NEW g \in Files, NEW waits, ~HasStaged(g), Newest(g) = Newest(f), ~Skipped(e)
      PROVE  LET out == LoadStore(e, g, waits)
             IN /\ \/ out.entry.store = e.store
                   \/ e.imported # Absent /\ out.entry.store.db = Newest(f)
                /\ out.files = g
  <2>1. [e EXCEPT !.unavailable = TRUE].store = e.store
        /\ [e EXCEPT !.store = Opened(g)].store = Opened(g)
    BY DEF Entry
  <2>2. Opened(g).db = Newest(f)
    BY <1>1 DEF Opened, HasStaged, Newest
  <2>3. e.imported # Absent
    BY <1>1 DEF Skipped
  <2> QED BY <2>1, <2>2, <2>3 DEF LoadStore, OpenOutcome
<1>2. Promote(f, open) \in Files /\ Newest(Promote(f, open)) = Newest(f)
  BY PromoteKeepsNewest
<1>3. KeysMatch(f) /\ StagedKeysMatch(f) =>
        KeysMatch(Promote(f, open)) /\ StagedKeysMatch(Promote(f, open))
  BY PromoteMatches
<1> QED BY <1>1, <1>2, <1>3 DEF OpenStore, OpenOutcome, PromotePending

LEMMA OpenStoreSpares ==
    ASSUME NEW e, NEW f, NEW open
    PROVE  OpenStore(TRUE, e, f, open).files = f
BY DEF OpenStore, LoadStore, OpenOutcome

PlacedAfter(es, fs) ==
    \A id \in Ids \ restored' :
        Placed(es[id], fs[id], job'[id], diskList'[id], imports', id \in torn')

(* A publication keeps what was placed.                                      *)
LEMMA PublishPlaces ==
    ASSUME NEW es \in [Ids -> Entry], NEW fs \in [Ids -> Files], NEW open,
           NEW waiting \in SUBSET Ids,
           PublishStores(OpenStores(Running', es, fs, open), waiting),
           PlacedAfter(es, fs)
    PROVE  ImportsPlaced'
<1> SUFFICES ASSUME NEW id \in Ids \ restored'
             PROVE  Placed(entry'[id], files'[id], job'[id], diskList'[id], imports', id \in torn')
  BY DEF ImportsPlaced
<1> DEFINE out == OpenStores(Running', es, fs, open)
           e == es[id]
           f == fs[id]
           opened == OpenStore(id \in Running', e, f, open[id])
<1>1. entry'[id] = out[id].entry /\ files'[id] = out[id].files
  BY DEF PublishStores
<1>2. out[id] = IF Published(e) THEN opened ELSE OpenOutcome(e, f, "same")
  BY DEF OpenStores
<1>3. e \in Entry /\ f \in Files /\ Placed(e, f, job'[id], diskList'[id], imports', id \in torn')
  BY DEF PlacedAfter
<1>4. CASE ~Published(e)
  BY <1>1, <1>2, <1>3, <1>4 DEF OpenOutcome
<1>5. CASE Published(e)
  <2>1. /\ \/ entry'[id].store = e.store
           \/ e.imported # Absent /\ entry'[id].store.db = Newest(f)
        /\ id \in Running' => files'[id] = f
        /\ KeysMatch(f) /\ StagedKeysMatch(f) =>
             KeysMatch(files'[id]) /\ StagedKeysMatch(files'[id])
        /\ entry'[id] \in Entry /\ SameEntry(entry'[id], e)
        /\ Newest(files'[id]) = Newest(f)
    <3>1. entry'[id] = opened.entry /\ files'[id] = opened.files
      BY <1>1, <1>2, <1>5, Zenon
    <3> HIDE DEF e, f
    <3>2. /\ \/ opened.entry.store = e.store
             \/ e.imported # Absent /\ opened.entry.store.db = Newest(f)
          /\ KeysMatch(f) /\ StagedKeysMatch(f) =>
               KeysMatch(opened.files) /\ StagedKeysMatch(opened.files)
      BY <1>3, OpenStorePlaces
    <3>3. /\ opened.entry \in Entry /\ SameEntry(opened.entry, e)
          /\ Newest(opened.files) = Newest(f)
      BY <1>3, OpenStoreKeeps
    <3>4. id \in Running' => opened.files = f
      BY OpenStoreSpares
    <3> HIDE DEF opened
    <3> QED BY <3>1, <3>2, <3>3, <3>4
  <2> HIDE DEF e, f
  <2>2. HasImport(entry'[id]) <=> HasImport(e)
    BY <2>1 DEF SameEntry, HasImport
  <2>3. Numbered(entry'[id], job'[id], diskList'[id], imports')
    BY <1>3, <2>1, <2>2 DEF Placed, Numbered, SameEntry
  <2>4. Covered(entry'[id], files'[id])
    BY <1>3, <1>5, <2>1, <2>2 DEF Placed, Covered, SameEntry, HasImport, Published
  <2>5. id \in Running' <=> job'[id].stage # "none"
    BY DEF Running
  <2>6. Moved(files'[id], job'[id])
    BY <1>3, <2>1, <2>5 DEF Placed, Moved
  <2>7. id \in torn' \/ Matched(files'[id], job'[id])
    BY <1>3, <2>1, <2>5 DEF Placed, Matched, Installing
  <2> QED BY <2>3, <2>4, <2>6, <2>7 DEF Placed
<1> QED BY <1>4, <1>5

(* publishSnapshot() of an operation that leaves the jobs alone.             *)
LEMMA OperationPlaces ==
    ASSUME NEW es \in [Ids -> Entry], NEW fs \in [Ids -> Files],
           NEW waiting \in SUBSET Ids, NEW timer,
           Publish(Running, es, fs, waiting, timer), UNCHANGED job,
           PlacedAfter(es, fs)
    PROVE  ImportsPlaced'
<1>1. Running' = Running
  BY DEF Running
<1>2. PublishStores(OpenStores(Running', es, fs, [id \in Ids |-> Open(id, NoStore)]), waiting)
  BY <1>1 DEF Publish
<1> QED BY <1>2, PublishPlaces

LEMMA EditedPlaces ==
    ASSUME IInv, ImportsPlaced, NEW id \in Ids, NEW e \in Entry, Edited(id, e),
           e.listed = entry[id].listed, e.imported = entry[id].imported,
           e.store \in {entry[id].store, NoStore},
           UNCHANGED <<job, diskList, imports, restored, torn>>
    PROVE  ImportsPlaced'
<1> DEFINE es == [entry EXCEPT ![id] = e]
<1>1. /\ es \in [Ids -> Entry] /\ files \in [Ids -> Files] /\ entry \in [Ids -> Entry]
      /\ pendingPromotions \in SUBSET Ids
  BY DEF IInv, TypeOK
<1>2. Publish(Running, es, files, pendingPromotions, retryTimer)
  BY DEF Edited
<1>3. \A d \in Ids : /\ es[d].listed = entry[d].listed /\ es[d].imported = entry[d].imported
                     /\ es[d].store \in {entry[d].store, NoStore}
  BY <1>1
<1> HIDE DEF es
<1>4. PlacedAfter(es, files)
  BY <1>3 DEF PlacedAfter, ImportsPlaced, Placed, Numbered, Covered, HasImport
<1> QED BY <1>1, <1>2, <1>4, OperationPlaces

LEMMA DialogPlaces ==
    ASSUME IInv, ImportsPlaced, NEW id \in Ids, NEW on \in BOOLEAN,
           SetEnabled(id, on) \/ SetOptions(id) \/ SetSourcePath(id) \/ Rearrange
    PROVE  ImportsPlaced'
<1>1. entry[id] \in Entry
  BY DEF IInv, TypeOK
<1>2. UNCHANGED <<job, diskList, imports, restored, torn>>
  BY DEF SetEnabled, SetOptions, SetSourcePath, Rearrange, DialogFrame, disk
<1>3. CASE SetEnabled(id, on)
  <2> DEFINE e == Toggled(entry[id], on)
  <2>1. /\ e \in Entry /\ e.listed = entry[id].listed /\ e.imported = entry[id].imported
        /\ e.store \in {entry[id].store, NoStore}
    BY <1>1 DEF Toggled, Entry
  <2>2. Edited(id, e)
    BY <1>3 DEF SetEnabled
  <2> HIDE DEF e
  <2> QED BY <1>2, <2>1, <2>2, EditedPlaces
<1>4. CASE SetOptions(id)
  <2> DEFINE e == [entry[id] EXCEPT !.needsReimport = TRUE]
  <2>1. /\ e \in Entry /\ e.listed = entry[id].listed /\ e.imported = entry[id].imported
        /\ e.store \in {entry[id].store, NoStore}
    BY <1>1 DEF Entry
  <2>2. Edited(id, e)
    BY <1>4 DEF SetOptions
  <2> HIDE DEF e
  <2> QED BY <1>2, <2>1, <2>2, EditedPlaces
<1>5. CASE SetSourcePath(id)
  <2> DEFINE e == [entry[id] EXCEPT !.unavailable = FALSE]
  <2>1. /\ e \in Entry /\ e.listed = entry[id].listed /\ e.imported = entry[id].imported
        /\ e.store \in {entry[id].store, NoStore}
    BY <1>1 DEF Entry
  <2>2. Edited(id, e)
    BY <1>5 DEF SetSourcePath
  <2> HIDE DEF e
  <2> QED BY <1>2, <2>1, <2>2, EditedPlaces
<1>6. CASE Rearrange
  <2>1. /\ entry \in [Ids -> Entry] /\ files \in [Ids -> Files]
        /\ pendingPromotions \in SUBSET Ids
        /\ Publish(Running, entry, files, pendingPromotions, retryTimer)
    BY <1>6 DEF Rearrange, IInv, TypeOK
  <2>2. PlacedAfter(entry, files)
    BY <1>2 DEF PlacedAfter, ImportsPlaced
  <2> QED BY <1>2, <2>1, <2>2, OperationPlaces
<1> QED BY <1>3, <1>4, <1>5, <1>6

(* remove() leaves at most an open database with its open filter, of an      *)
(* entry that has no import any more.                                        *)
LEMMA RemovePlaces ==
    ASSUME IInv, ImportsPlaced, ~UnseenImports, NEW id \in Ids, Remove(id)
    PROVE  ImportsPlaced'
<1> DEFINE es == [entry EXCEPT ![id] = Removed(id, entry[id])]
           left == RemoveFiles(files[id], Open(id, NoStore))
           fs == [files EXCEPT ![id] = left]
<1>1. /\ entry[id] \in Entry /\ files[id] \in Files /\ entry \in [Ids -> Entry]
      /\ files \in [Ids -> Files] /\ pendingPromotions \ {id} \in SUBSET Ids
  BY DEF IInv, TypeOK
<1>2. /\ Removed(id, entry[id]) \in Entry /\ ~HasImport(Removed(id, entry[id]))
      /\ Removed(id, entry[id]).imported \in {entry[id].imported, Absent}
      /\ Removed(id, entry[id]).store = NoStore
  BY <1>1, FileTypes DEF Removed, Entry, HasImport
<1>3. es \in [Ids -> Entry] /\ fs \in [Ids -> Files]
  BY <1>1, <1>2, RemoveFilesType
<1>4. /\ Publish(Running, es, fs, pendingPromotions \ {id},
                 retryTimer \/ RemovePending(files[id], Open(id, NoStore)))
      /\ UNCHANGED <<job, diskList, imports, restored, torn>>
      /\ job[id].stage = "none"
  BY DEF Remove, history, Running
<1>5. /\ left.db \in {files[id].db, Absent} /\ left.stagedDb = Absent /\ left.stagedKeys = Absent
      /\ left.keys # Absent => left.keys = files[id].keys /\ left.db = files[id].db
  BY DEF RemoveFiles, NoFiles, DbBusy, KeysBusy
<1>6. es[id] = Removed(id, entry[id]) /\ fs[id] = left
  BY <1>1
<1>7. \A d \in Ids \ {id} : es[d] = entry[d] /\ fs[d] = files[d]
  BY <1>1
<1> HIDE DEF es, fs, left
<1>8. ASSUME NEW d \in Ids \ restored'
      PROVE  Placed(es[d], fs[d], job'[d], diskList'[d], imports', d \in torn')
  <2>1. Placed(entry[d], files[d], job[d], diskList[d], imports, d \in torn)
    BY <1>4 DEF ImportsPlaced
  <2>2. CASE d = id
    <3>1. Numbered(es[d], job[d], diskList[d], imports)
      <4>1. imports \in Nat
        BY DEF IInv, TypeOK
      <4> QED BY <1>2, <1>4, <1>6, <2>1, <2>2, <4>1 DEF Placed, Numbered, Absent
    <3>2. Covered(es[d], fs[d])
      BY <1>2, <1>6, <2>2 DEF Covered
    <3>3. Moved(fs[d], job[d])
      BY <1>4, <2>1, <2>2 DEF Placed, Moved
    <3>4. d \in torn \/ Matched(fs[d], job[d])
      BY <1>4, <1>5, <1>6, <2>1, <2>2 DEF Placed, Matched, KeysMatch, StagedKeysMatch, Installing
    <3> QED BY <1>4, <3>1, <3>2, <3>3, <3>4 DEF Placed
  <2>3. CASE d # id
    BY <1>4, <1>7, <2>1, <2>3
  <2> QED BY <2>2, <2>3
<1>9. PlacedAfter(es, fs)
  BY <1>8 DEF PlacedAfter
<1> QED BY <1>1, <1>3, <1>4, <1>9, OperationPlaces

LEMMA UndoPlaces ==
    ASSUME IInv, ImportsPlaced, NEW id \in Ids, Undo(id)
    PROVE  ImportsPlaced'
<1> DEFINE put(old, new) == IF old = Absent THEN new ELSE old
           es == [entry EXCEPT ![id] = backup[id].entry]
           fs == [files EXCEPT ![id].db = put(@, backup[id].db),
                               ![id].keys = put(@, backup[id].keys)]
<1>1. /\ backup[id] \in Backup /\ files[id] \in Files /\ entry \in [Ids -> Entry]
      /\ files \in [Ids -> Files] /\ pendingPromotions \in SUBSET Ids
  BY DEF IInv, TypeOK
<1>2. es \in [Ids -> Entry] /\ fs \in [Ids -> Files]
  BY <1>1 DEF Backup, Files
<1>3. /\ Publish(Running, es, fs, pendingPromotions, retryTimer)
      /\ restored' = restored \cup {id} /\ UNCHANGED <<job, diskList, imports, torn>>
  BY DEF Undo, DialogFrame, disk
<1>4. \A d \in Ids \ {id} : es[d] = entry[d] /\ fs[d] = files[d]
  BY <1>1
<1> HIDE DEF es, fs
<1>5. PlacedAfter(es, fs)
  BY <1>3, <1>4 DEF PlacedAfter, ImportsPlaced
<1> QED BY <1>1, <1>2, <1>3, <1>5, OperationPlaces

(* The saved list is as old as the entries.                                  *)
LEMMA SavePlaces == ASSUME IInv, ImportsPlaced, Save PROVE ImportsPlaced'
<1>1. \A id \in Ids : /\ diskList'[id].imported = entry[id].imported
                      /\ diskList'[id].listed = entry[id].listed
                      /\ entry[id].imported \in Nat
  BY DEF Save, Json, IInv, TypeOK, Entry, File, Import, Absent
<1>2. UNCHANGED <<entry, files, job, imports, restored, torn>>
  BY DEF Save, history
<1> QED BY <1>1, <1>2 DEF ImportsPlaced, Placed, Numbered, HasImport

(* A step that touches one dictionary's files and job only.                  *)
LEMMA OnePlaces ==
    ASSUME ImportsPlaced, NEW id \in Ids,
           UNCHANGED <<entry, diskList, restored>>,
           imports' >= imports, imports \in Nat, imports' \in Nat, IInv,
           \A d \in Ids \ {id} : files'[d] = files[d] /\ job'[d] = job[d],
           torn' \subseteq torn \cup {id}, torn \subseteq torn',
           id \notin restored =>
             Placed(entry[id], files'[id], job'[id], diskList[id], imports', id \in torn')
    PROVE  ImportsPlaced'
<1>1. \A d \in Ids : /\ entry[d].imported \in Nat /\ diskList[d].imported \in Nat
                     /\ job[d].import \in Nat
  BY DEF IInv, TypeOK, Entry, Saved, Job, File, Import, Absent
<1>2. ASSUME NEW d \in Ids \ restored', d # id
      PROVE  Placed(entry'[d], files'[d], job'[d], diskList'[d], imports', d \in torn')
  <2>1. Placed(entry[d], files[d], job[d], diskList[d], imports, d \in torn)
    BY DEF ImportsPlaced
  <2>2. Numbered(entry[d], job[d], diskList[d], imports')
    BY <1>1, <2>1 DEF Placed, Numbered
  <2>3. /\ entry'[d] = entry[d] /\ diskList'[d] = diskList[d]
        /\ files'[d] = files[d] /\ job'[d] = job[d] /\ (d \in torn' <=> d \in torn)
    BY <1>2
  <2> QED BY <2>1, <2>2, <2>3 DEF Placed
<1> QED BY <1>2 DEF ImportsPlaced

LEMMA CreateImportJobPlaces ==
    ASSUME IInv, ImportsPlaced, NEW id \in Ids, CreateImportJob(id)
    PROVE  ImportsPlaced'
<1>1. /\ job'[id] = [stage |-> "queued", import |-> imports', ok |-> FALSE]
      /\ \A d \in Ids \ {id} : job'[d] = job[d]
      /\ UNCHANGED <<files, entry, diskList, restored, torn>>
      /\ imports' = imports + 1 /\ imports \in Nat /\ job[id].stage = "none"
  BY DEF IInv, TypeOK, CreateImportJob, JobFrame, disk, history, Running
<1>2. /\ entry[id].imported \in Nat /\ diskList[id].imported \in Nat
  BY DEF IInv, TypeOK, Entry, Saved, File, Import, Absent
<1>3. ASSUME id \notin restored
      PROVE  Placed(entry[id], files'[id], job'[id], diskList[id], imports', id \in torn')
  <2>1. Placed(entry[id], files[id], job[id], diskList[id], imports, id \in torn)
    BY <1>3 DEF ImportsPlaced
  <2>2. Numbered(entry[id], job'[id], diskList[id], imports')
    BY <1>1, <1>2, <2>1 DEF Placed, Numbered
  <2>3. Moved(files[id], job'[id]) /\ (id \in torn \/ Matched(files[id], job'[id]))
    BY <1>1, <2>1 DEF Placed, Moved, Matched, Installing
  <2> QED BY <1>1, <2>1, <2>2, <2>3 DEF Placed
<1> QED BY <1>1, <1>3, OnePlaces

(* The stages of a job, up to its end.                                       *)
LEMMA JobStepPlaces ==
    ASSUME IInv, ImportsPlaced, NEW id \in Ids,
           StartImport(id) \/ WriteImport(id) \/ FailImport(id) \/ MoveDb(id)
             \/ StageKeys(id) \/ DropStagedDb(id) \/ DropStagedKeys(id) \/ MoveKeys(id)
    PROVE  ImportsPlaced'
<1> DEFINE f == files[id]
           g == files'[id]
           j == job[id]
           k == job'[id]
<1>1. /\ j \in Job /\ f \in Files /\ files \in [Ids -> Files] /\ job \in [Ids -> Job]
      /\ imports \in Nat /\ j.import \in Nat /\ entry[id].imported \in Nat
  BY DEF IInv, TypeOK, Job, Entry, File, Import, Absent
<1>2. UNCHANGED <<entry, diskList, restored, imports>>
  BY DEF StartImport, WriteImport, FailImport, MoveDb, StageKeys, DropStagedDb,
         DropStagedKeys, MoveKeys, JobFrame, disk, history
<1>3. /\ \A d \in Ids \ {id} : files'[d] = files[d] /\ job'[d] = job[d]
      /\ torn' \subseteq torn \cup {id} /\ torn \subseteq torn'
  BY <1>1 DEF StartImport, WriteImport, FailImport, MoveDb, StageKeys, DropStagedDb,
         DropStagedKeys, MoveKeys, Advance, StagedKeys, JobFrame, history
<1>4. k.import = j.import /\ j.stage # "none" /\ k.stage # "none"
  BY <1>1 DEF StartImport, WriteImport, FailImport, MoveDb, StageKeys, DropStagedDb,
         DropStagedKeys, MoveKeys, Advance, Job
<1>5. ASSUME id \notin restored
      PROVE  Placed(entry[id], g, k, diskList[id], imports, id \in torn')
  <2>1. Placed(entry[id], f, j, diskList[id], imports, id \in torn)
    BY <1>5 DEF ImportsPlaced
  <2>2. Numbered(entry[id], k, diskList[id], imports)
    BY <1>4, <2>1 DEF Placed, Numbered
  <2>3. CASE StartImport(id) \/ WriteImport(id) \/ FailImport(id)
    <3>1. /\ g = f /\ torn' = torn /\ j.stage \in {"queued", "writing", "moveDb"}
          /\ k.stage \in {"writing", "moveDb", "done"} /\ k.ok = j.ok
      BY <1>1, <2>3 DEF StartImport, WriteImport, FailImport, Advance, JobFrame, history, Job
    <3>2. ~k.ok
      BY <2>1, <3>1 DEF Placed, Moved
    <3> HIDE DEF f, g, j, k
    <3> QED BY <2>1, <2>2, <3>1, <3>2 DEF Placed, Moved, Matched, Installing
  <2>4. CASE MoveDb(id)
    <3>1. /\ j.stage = "moveDb" /\ torn' = torn /\ k.ok = j.ok
          /\ \/ k.stage = "stageKeys" /\ g = [f EXCEPT !.stagedDb = j.import]
             \/ k.stage = "dropStagedDb" /\ g = [f EXCEPT !.db = j.import]
      BY <1>1, <2>4 DEF MoveDb, Advance, JobFrame, history, Job
    <3>2. /\ \/ /\ k.stage = "stageKeys" /\ g.db = f.db /\ g.stagedDb = j.import
             \/ /\ k.stage = "dropStagedDb" /\ g.db = j.import /\ g.stagedDb = f.stagedDb
          /\ g.keys = f.keys /\ g.stagedKeys = f.stagedKeys
      BY <1>1, <3>1 DEF Files
    <3> HIDE DEF f, g, j, k
    <3>3. HasImport(entry[id]) => Newest(g) >= entry[id].imported
      BY <1>1, <2>1, <3>1, <3>2 DEF Placed, Covered, Numbered, Newest, Absent
    <3>4. Covered(entry[id], g)
      BY <2>1, <3>3 DEF Placed, Covered
    <3>5. Moved(g, k)
      BY <1>4, <2>1, <3>1, <3>2 DEF Placed, Moved
    <3>6. id \in torn' \/ Matched(g, k)
      BY <2>1, <3>1, <3>2 DEF Placed, Matched, KeysMatch, Installing
    <3> QED BY <2>2, <3>1, <3>4, <3>5, <3>6 DEF Placed
  <2>5. CASE StageKeys(id)
    <3>1. /\ j.stage = "stageKeys" /\ torn' = torn /\ k.stage = "done"
          /\ \E import \in {j.import, Absent} : g = [f EXCEPT !.stagedKeys = import]
      BY <1>1, <2>5 DEF StageKeys, StagedKeys, JobFrame, history, Job
    <3>2. /\ g.db = f.db /\ g.stagedDb = f.stagedDb /\ g.keys = f.keys
          /\ g.stagedKeys \in {j.import, Absent}
      BY <1>1, <3>1 DEF Files
    <3>3. j.import # Absent
      BY <1>1, <1>4, <2>1 DEF Placed, Numbered, Absent
    <3> HIDE DEF f, g, j, k
    <3>4. f.stagedDb = j.import /\ Newest(g) = Newest(f) /\ Newest(g) = j.import
      BY <2>1, <3>1, <3>2, <3>3 DEF Placed, Moved, Newest
    <3>5. Covered(entry[id], g) /\ Moved(g, k)
      BY <1>4, <2>1, <3>1, <3>4 DEF Placed, Covered, Moved
    <3>6. id \in torn' \/ Matched(g, k)
      BY <2>1, <3>1, <3>2, <3>4 DEF Placed, Matched, KeysMatch, StagedKeysMatch, Installing
    <3> QED BY <2>2, <3>1, <3>5, <3>6 DEF Placed
  <2>6. CASE DropStagedDb(id)
    <3>1. /\ j.stage = "dropStagedDb" /\ torn' = torn /\ k.stage = "dropStagedKeys" /\ k.ok = j.ok
          /\ g = [f EXCEPT !.stagedDb = Absent]
      BY <1>1, <2>6 DEF DropStagedDb, Advance, JobFrame, history, Job
    <3>2. g.db = f.db /\ g.stagedDb = Absent /\ g.keys = f.keys /\ g.stagedKeys = f.stagedKeys
      BY <1>1, <3>1 DEF Files
    <3> HIDE DEF f, g, j, k
    <3>3. Newest(g) = j.import
      BY <2>1, <3>1, <3>2 DEF Placed, Moved, Newest
    <3>4. Covered(entry[id], g)
      BY <1>1, <1>4, <2>1, <3>3 DEF Placed, Covered, Numbered
    <3>5. Moved(g, k) /\ Matched(g, k)
      BY <1>4, <2>1, <3>1, <3>2 DEF Placed, Moved, Matched, Installing
    <3> QED BY <2>2, <3>1, <3>4, <3>5 DEF Placed
  <2>7. CASE DropStagedKeys(id)
    <3>1. /\ j.stage = "dropStagedKeys" /\ torn' = torn /\ k.stage = "moveKeys" /\ k.ok = j.ok
          /\ g = [f EXCEPT !.stagedKeys = Absent]
      BY <1>1, <2>7 DEF DropStagedKeys, Advance, JobFrame, history, Job
    <3>2. g.db = f.db /\ g.stagedDb = f.stagedDb /\ g.keys = f.keys /\ g.stagedKeys = Absent
      BY <1>1, <3>1 DEF Files
    <3> HIDE DEF f, g, j, k
    <3>3. Covered(entry[id], g)
      BY <2>1, <3>2 DEF Placed, Covered, Newest
    <3>4. Moved(g, k) /\ Matched(g, k)
      BY <1>4, <2>1, <3>1, <3>2 DEF Placed, Moved, Matched, Installing
    <3> QED BY <2>2, <3>1, <3>3, <3>4 DEF Placed
  <2>8. CASE MoveKeys(id)
    <3> DEFINE busy == KeysBusy(Open(id, entry[id].store))
    <3>1. /\ j.stage = "moveKeys" /\ k.stage = "done"
          /\ \E moved \in {FALSE, ~busy} :
               /\ g = [f EXCEPT !.keys = IF moved THEN j.import ELSE IF busy THEN @ ELSE Absent]
               /\ torn' = IF busy THEN torn \cup {id} ELSE torn
      BY <1>1, <2>8 DEF MoveKeys, Job
    <3> HIDE DEF busy
    <3>2. /\ g.db = f.db /\ g.stagedDb = f.stagedDb /\ g.stagedKeys = f.stagedKeys
          /\ id \in torn' \/ (torn' = torn /\ g.keys \in {j.import, Absent})
          /\ torn \subseteq torn'
      BY <1>1, <3>1 DEF Files
    <3> HIDE DEF f, g, j, k
    <3>3. f.db = j.import /\ f.stagedDb = Absent /\ f.stagedKeys = Absent
      BY <2>1, <3>1 DEF Placed, Moved
    <3>4. Newest(g) = Newest(f) /\ Newest(g) = j.import
      BY <3>2, <3>3 DEF Newest
    <3>5. Covered(entry[id], g) /\ Moved(g, k)
      BY <1>4, <2>1, <3>1, <3>4 DEF Placed, Covered, Moved
    <3>6. id \in torn' \/ Matched(g, k)
      BY <3>1, <3>2, <3>3 DEF Matched, KeysMatch, StagedKeysMatch
    <3> QED BY <2>2, <3>5, <3>6 DEF Placed
  <2> QED BY <2>3, <2>4, <2>5, <2>6, <2>7, <2>8
<1> QED BY <1>1, <1>2, <1>3, <1>5, OnePlaces

(* The end of a job that is not recorded: it failed, was killed, or the      *)
(* entry went meanwhile.                                                     *)
LEMMA UnrecordedPlaces ==
    ASSUME IInv, ImportsPlaced, NEW id \in Ids, job[id].stage \notin Installing,
           job' = [job EXCEPT ![id] = NoJob],
           UNCHANGED <<entry, files, diskList, restored, torn, imports>>
    PROVE  ImportsPlaced'
<1>1. /\ job'[id] = NoJob /\ \A d \in Ids \ {id} : job'[d] = job[d]
      /\ imports \in Nat /\ NoJob.stage = "none" /\ NoJob.import = Absent /\ ~NoJob.ok
  BY DEF IInv, TypeOK, NoJob
<1>2. ASSUME id \notin restored
      PROVE  Placed(entry[id], files'[id], job'[id], diskList[id], imports', id \in torn')
  <2>1. Placed(entry[id], files[id], job[id], diskList[id], imports, id \in torn)
    BY <1>2 DEF ImportsPlaced
  <2>2. Numbered(entry[id], NoJob, diskList[id], imports)
    BY <1>1, <2>1 DEF Placed, Numbered, Absent
  <2>3. Moved(files[id], NoJob) /\ (id \in torn \/ Matched(files[id], NoJob))
    BY <1>1, <2>1 DEF Placed, Moved, Matched, Installing
  <2> QED BY <1>1, <2>1, <2>2, <2>3 DEF Placed
<1> QED BY <1>1, <1>2, OnePlaces

LEMMA KillPlaces ==
    ASSUME IInv, ImportsPlaced, NEW id \in Ids, Kill(id)
    PROVE  ImportsPlaced'
<1>1. /\ job[id].stage \notin Installing /\ job' = [job EXCEPT ![id] = NoJob]
      /\ UNCHANGED <<entry, files, diskList, restored, torn, imports>>
  BY DEF Kill, JobEnded, Installing, history
<1> QED BY <1>1, UnrecordedPlaces

LEMMA FinishImportPlaces ==
    ASSUME IInv, ImportsPlaced, NEW id \in Ids, FinishImport(id)
    PROVE  ImportsPlaced'
<1> DEFINE e == Imported(entry[id], job[id].import)
           f == files[id]
           out == OpenStore(FALSE, e, f, Open(id, NoStore))
           es == [entry EXCEPT ![id] = out.entry]
           fs == [files EXCEPT ![id] = out.files]
           waiting == CASE out.waits = "join" -> pendingPromotions \cup {id}
                        [] out.waits = "leave" -> pendingPromotions \ {id}
                        [] OTHER -> pendingPromotions
           timer == TimerAfter(id, pendingRemovals') \/ out.waits = "join"
<1>1. /\ job[id] \in Job /\ job[id].import \in File /\ entry[id] \in Entry /\ f \in Files
      /\ entry \in [Ids -> Entry] /\ files \in [Ids -> Files] /\ job \in [Ids -> Job]
      /\ pendingPromotions \in SUBSET Ids /\ imports \in Nat
  BY DEF IInv, TypeOK, Job
<1>2. /\ job[id].stage = "done" /\ job' = [job EXCEPT ![id] = NoJob]
      /\ UNCHANGED <<diskList, restored, torn, imports>>
  BY DEF FinishImport, JobEnded, history
<1>3. CASE job[id].ok /\ entry[id].listed
  <2>1. Publish(Running \ {id}, es, fs, waiting, timer)
    BY <1>3 DEF FinishImport
  <2>2. /\ e \in Entry /\ e.imported = job[id].import /\ e.store = NoStore
        /\ e.listed = entry[id].listed
    BY <1>1 DEF Imported, Entry
  <2> HIDE DEF e, f
  <2>3. /\ out.entry \in Entry /\ SameEntry(out.entry, e)
        /\ out.files \in Files /\ Newest(out.files) = Newest(f)
    BY <1>1, <2>2, OpenStoreKeeps
  <2>4. /\ out.entry.store = NoStore \/ out.entry.store.db = Newest(f)
        /\ KeysMatch(f) /\ StagedKeysMatch(f) =>
             KeysMatch(out.files) /\ StagedKeysMatch(out.files)
    <3>1. /\ \/ out.entry.store = e.store
             \/ e.imported # Absent /\ out.entry.store.db = Newest(f)
          /\ KeysMatch(f) /\ StagedKeysMatch(f) =>
               KeysMatch(out.files) /\ StagedKeysMatch(out.files)
      BY <1>1, <2>2, OpenStorePlaces, Zenon
    <3> QED BY <2>2, <3>1
  <2> HIDE DEF out
  <2>5. waiting \in SUBSET Ids
    BY <1>1
  <2>6. /\ es \in [Ids -> Entry] /\ fs \in [Ids -> Files]
        /\ es[id] = out.entry /\ fs[id] = out.files
        /\ \A d \in Ids \ {id} : es[d] = entry[d] /\ fs[d] = files[d] /\ job'[d] = job[d]
    BY <1>1, <1>2, <2>3
  <2>7. job'[id] = NoJob /\ NoJob.stage = "none" /\ NoJob.import = Absent /\ ~NoJob.ok
    BY <1>1, <1>2 DEF NoJob
  <2>8. Running' = Running \ {id}
    BY <2>6, <2>7 DEF Running
  <2> HIDE DEF es, fs, waiting, timer
  <2>9. ASSUME NEW d \in Ids \ restored'
        PROVE  Placed(es[d], fs[d], job'[d], diskList'[d], imports', d \in torn')
    <3>1. Placed(entry[d], files[d], job[d], diskList[d], imports, d \in torn)
      BY <1>2 DEF ImportsPlaced
    <3>2. CASE d = id
      <4>1. Newest(f) = job[id].import /\ out.entry.imported = job[id].import
        BY <1>2, <1>3, <2>2, <2>3, <3>1, <3>2 DEF Placed, Moved, SameEntry, f
      <4>2. Numbered(out.entry, NoJob, diskList[id], imports)
        <5>1. diskList[id].imported \in Nat /\ job[id].import \in Nat
          BY <1>1 DEF IInv, TypeOK, Saved, File, Import, Absent
        <5>2. /\ job[id].import <= imports /\ diskList[id].imported <= imports
              /\ diskList[id].imported < job[id].import
          BY <1>2, <3>1, <3>2 DEF Placed, Numbered
        <5> QED BY <1>1, <2>7, <4>1, <5>1, <5>2 DEF Numbered, Absent
      <4>3. Covered(out.entry, out.files)
        BY <1>1, <2>3, <2>4, <4>1 DEF Covered, File, Import, Absent
      <4>4. Moved(out.files, NoJob)
        BY <2>7 DEF Moved
      <4>5. id \in torn \/ Matched(out.files, NoJob)
        BY <1>2, <2>4, <2>7, <3>1, <3>2 DEF Placed, Matched, Installing, f
      <4> QED BY <1>2, <2>6, <2>7, <3>2, <4>2, <4>3, <4>4, <4>5 DEF Placed
    <3>3. CASE d # id
      BY <1>2, <2>6, <3>1, <3>3
    <3> QED BY <3>2, <3>3
  <2>10. PlacedAfter(es, fs)
    BY <2>9 DEF PlacedAfter
  <2>11. PublishStores(OpenStores(Running', es, fs, [d \in Ids |-> Open(d, NoStore)]), waiting)
    BY <2>1, <2>8 DEF Publish
  <2> QED BY <2>5, <2>6, <2>10, <2>11, PublishPlaces
<1>4. CASE ~(job[id].ok /\ entry[id].listed)
  <2>1. UNCHANGED <<entry, files>> /\ job[id].stage \notin Installing
    BY <1>2, <1>4 DEF FinishImport, Installing
  <2> QED BY <1>2, <2>1, UnrecordedPlaces
<1> QED BY <1>3, <1>4

(* A retry deletes the files of entries without an import only, and moves    *)
(* the files of no running import.                                           *)
LEMMA RetryOutcomePlaces ==
    ASSUME IInv, ImportsPlaced, NEW id \in Ids \ restored
    PROVE  Placed(entry[id], RetryOutcome.files[id], job[id], diskList[id], imports, id \in torn)
<1> DEFINE open == [d \in Ids |-> Open(d, entry[d].store)]
           removing == Retried(pendingRemovals)
           promoting == Retried(pendingPromotions)
           kept == [d \in Ids |-> IF d \in removing THEN RemoveFiles(files[d], open[d])
                                 ELSE files[d]]
           promoted == [d \in Ids |-> IF d \in promoting THEN Promote(kept[d], open[d])
                                     ELSE kept[d]]
           f == files[id]
           g == promoted[id]
<1>1. RetryOutcome.files = promoted
  BY Zenon DEF RetryOutcome
<1>2. /\ kept[id] = IF id \in removing THEN RemoveFiles(f, open[id]) ELSE f
      /\ g = IF id \in promoting THEN Promote(kept[id], open[id]) ELSE kept[id]
  OBVIOUS
<1>3. f \in Files /\ Placed(entry[id], f, job[id], diskList[id], imports, id \in torn)
  BY DEF IInv, TypeOK, ImportsPlaced
<1>4. /\ Spared(id) => Newest(g) = Newest(f)
      /\ g \in Files
  BY <1>1, RetryOutcomeKeeps
<1>5. id \in Running => id \notin removing /\ id \notin promoting
  BY DEF Retried
<1> HIDE DEF open, removing, promoting
<1>6. /\ kept[id] \in Files
      /\ KeysMatch(f) /\ StagedKeysMatch(f) => KeysMatch(kept[id]) /\ StagedKeysMatch(kept[id])
  <2>1. RemoveFiles(f, open[id]) \in Files
    BY <1>3, RemoveFilesType
  <2>2. KeysMatch(f) => KeysMatch(RemoveFiles(f, open[id])) /\ StagedKeysMatch(RemoveFiles(f, open[id]))
    BY DEF RemoveFiles, NoFiles, DbBusy, KeysBusy, KeysMatch, StagedKeysMatch
  <2> QED BY <1>2, <1>3, <2>1, <2>2, Zenon
<1> HIDE DEF kept
<1>7. KeysMatch(f) /\ StagedKeysMatch(f) => KeysMatch(g) /\ StagedKeysMatch(g)
  <2>1. KeysMatch(kept[id]) /\ StagedKeysMatch(kept[id]) =>
          /\ KeysMatch(Promote(kept[id], open[id])) /\ StagedKeysMatch(Promote(kept[id], open[id]))
    BY <1>6, PromoteMatches
  <2> QED BY <1>2, <1>6, <2>1, Zenon
<1>8. id \in Running => g = f
  BY <1>2, <1>5
<1> HIDE DEF promoted, f, g
<1>9. Covered(entry[id], g)
  BY <1>3, <1>4 DEF Placed, Covered, Spared
<1>10. CASE id \in Running
  BY <1>1, <1>3, <1>8, <1>10 DEF f, g
<1>11. CASE id \notin Running
  <2>1. job[id].stage = "none"
    BY <1>11 DEF Running
  <2>2. Moved(g, job[id]) /\ (id \in torn \/ Matched(g, job[id]))
    BY <1>3, <1>7, <2>1 DEF Placed, Moved, Matched, Installing
  <2> QED BY <1>1, <1>3, <1>9, <2>2 DEF Placed, g
<1> QED BY <1>10, <1>11

LEMMA RetryPendingPlaces ==
    ASSUME IInv, ImportsPlaced, RetryPending
    PROVE  ImportsPlaced'
<1> DEFINE out == RetryOutcome
           waiting == pendingPromotions \ out.settled
           open == [id \in Ids |-> Open(id, NoStore)]
<1>1. /\ IF out.settled # {}
         THEN PublishStores(OpenStores(Running, entry, out.files, open), waiting)
         ELSE files' = out.files /\ UNCHANGED <<entry, snapshot, pendingPromotions>>
      /\ UNCHANGED <<job, diskList, imports, restored, torn>>
  BY DEF RetryPending, history
<1>2. /\ out.files \in [Ids -> Files] /\ entry \in [Ids -> Entry] /\ waiting \in SUBSET Ids
  BY RetryOutcomeKeeps DEF IInv, TypeOK
<1>3. \A id \in Ids \ restored :
        Placed(entry[id], out.files[id], job[id], diskList[id], imports, id \in torn)
  BY RetryOutcomePlaces
<1> HIDE DEF out, open, waiting
<1>4. CASE out.settled # {}
  <2>1. PlacedAfter(entry, out.files)
    BY <1>1, <1>3 DEF PlacedAfter
  <2>2. Running' = Running
    BY <1>1 DEF Running
  <2> QED BY <1>1, <1>2, <1>4, <2>1, <2>2, PublishPlaces
<1>5. CASE out.settled = {}
  BY <1>1, <1>3, <1>5 DEF ImportsPlaced
<1> QED BY <1>4, <1>5

(* A start finds the files of every import that was saved, and an import cut *)
(* between two of its files is the only reason for a foreign filter.         *)
LEMMA RestartPlaces ==
    ASSUME IInv, ImportsPlaced, Restart
    PROVE  ImportsPlaced'
<1>1. /\ PublishStores(OpenStores({}, Loaded, LeftFiles, NothingOpen), {})
      /\ job' = [id \in Ids |-> NoJob]
      /\ torn' = torn \cup {id \in Ids : job[id].stage \in Installing}
      /\ restored' = restored \cup {id \in Ids : HasImport(diskList[id])
                                               /\ ~HasImport(entry[id])}
      /\ UNCHANGED <<diskList, imports>>
  BY DEF Restart, Loaded, LeftFiles, NothingOpen
<1>2. Loaded \in [Ids -> Entry] /\ LeftFiles \in [Ids -> Files]
  BY LoadedTypes
<1>3. NoJob.stage = "none" /\ NoJob.import = Absent /\ ~NoJob.ok
  BY DEF NoJob
<1>4. Running' = {}
  BY <1>1, <1>3 DEF Running
<1>5. ASSUME NEW id \in Ids \ restored'
      PROVE  Placed(Loaded[id], LeftFiles[id], job'[id], diskList'[id], imports', id \in torn')
  <2>1. Placed(entry[id], files[id], job[id], diskList[id], imports, id \in torn)
    BY <1>1, <1>5 DEF ImportsPlaced
  <2>2. /\ job'[id] = NoJob /\ diskList' = diskList /\ imports' = imports
        /\ HasImport(diskList[id]) => HasImport(entry[id])
    BY <1>1, <1>5
  <2>3. /\ Loaded[id].imported = diskList[id].imported /\ Loaded[id].store = NoStore
        /\ HasImport(Loaded[id]) <=> HasImport(diskList[id])
    BY DEF Loaded, Parsed, HasImport
  <2>4. /\ diskList[id].imported \in Nat /\ entry[id].imported \in Nat /\ imports \in Nat
        /\ files[id] \in Files
    BY DEF IInv, TypeOK, Entry, Saved, File, Import, Absent
  <2>5. LeftFiles[id] = IF Adopted(id) THEN NoFiles ELSE files[id]
    BY DEF LeftFiles
  <2>6. Numbered(Loaded[id], NoJob, diskList[id], imports)
    BY <1>3, <2>1, <2>3, <2>4 DEF Placed, Numbered, Absent
  <2>7. Covered(Loaded[id], LeftFiles[id])
    <3>1. HasImport(diskList[id]) => /\ LeftFiles[id] = files[id]
                                    /\ Newest(files[id]) >= entry[id].imported
                                    /\ entry[id].imported >= diskList[id].imported
      BY <2>1, <2>2, <2>4, <2>5 DEF Adopted, Placed, Covered, Numbered
    <3>2. Newest(files[id]) \in Nat
      BY <2>4 DEF Files, File, Import, Absent, Newest
    <3> QED BY <2>3, <2>4, <3>1, <3>2 DEF Covered
  <2>8. Moved(LeftFiles[id], NoJob)
    BY <1>3 DEF Moved
  <2>9. id \in torn' \/ Matched(LeftFiles[id], NoJob)
    <3>1. KeysMatch(NoFiles) /\ StagedKeysMatch(NoFiles)
      BY DEF KeysMatch, StagedKeysMatch, NoFiles
    <3>2. id \notin torn' => KeysMatch(files[id]) /\ StagedKeysMatch(files[id])
      BY <1>1, <2>1 DEF Placed, Matched
    <3> QED BY <1>3, <2>5, <3>1, <3>2 DEF Matched, Installing
  <2> QED BY <2>2, <2>6, <2>7, <2>8, <2>9 DEF Placed
<1>6. PlacedAfter(Loaded, LeftFiles)
  BY <1>5 DEF PlacedAfter
<1>7. {} \in SUBSET Ids
  OBVIOUS
<1> QED BY <1>1, <1>2, <1>4, <1>6, <1>7, PublishPlaces

LEMMA StepPlaces ==
    ASSUME IInv, ImportsPlaced, ~UnseenImports, [Next]_vars
    PROVE  ImportsPlaced'
<1>1. CASE UNCHANGED vars \/ TakeSnapshot \/ ReleaseSnapshot
  BY <1>1 DEF vars, disk, history, TakeSnapshot, ReleaseSnapshot, ImportsPlaced
<1>2. ASSUME NEW id \in Ids, NEW on \in BOOLEAN,
             SetEnabled(id, on) \/ SetOptions(id) \/ SetSourcePath(id)
      PROVE  ImportsPlaced'
  BY <1>2, DialogPlaces
<1>3. ASSUME Rearrange PROVE ImportsPlaced'
  <2>1. CASE Ids = {}
    BY <2>1 DEF ImportsPlaced
  <2>2. CASE Ids # {}
    BY <1>3, <2>2, DialogPlaces
  <2> QED BY <2>1, <2>2
<1>4. ASSUME NEW id \in Ids, Remove(id) \/ Undo(id) PROVE ImportsPlaced'
  BY <1>4, RemovePlaces, UndoPlaces
<1>5. ASSUME NEW id \in Ids,
             StartImport(id) \/ WriteImport(id) \/ FailImport(id) \/ MoveDb(id)
               \/ StageKeys(id) \/ DropStagedDb(id) \/ DropStagedKeys(id) \/ MoveKeys(id)
      PROVE  ImportsPlaced'
  BY <1>5, JobStepPlaces
<1>6. ASSUME NEW id \in Ids, CreateImportJob(id) \/ FinishImport(id) \/ Kill(id)
      PROVE  ImportsPlaced'
  BY <1>6, CreateImportJobPlaces, FinishImportPlaces, KillPlaces
<1>7. CASE Save \/ RetryPending \/ Restart
  BY <1>7, SavePlaces, RetryPendingPlaces, RestartPlaces
<1>8. [Next]_vars => Next \/ UNCHANGED vars
  OBVIOUS
<1> QED BY <1>1, <1>2, <1>3, <1>4, <1>5, <1>6, <1>7, <1>8 DEF Next

LEMMA InitPlaces == ASSUME Init PROVE ImportsPlaced
<1>1. MaxImports \in Nat
  BY MaxImportsAssumption
<1> QED BY <1>1 DEF Init, ImportsPlaced, Placed, Numbered, Covered, Moved, Matched, KeysMatch,
     StagedKeysMatch, HasImport, Parsed, NoJob, NoFiles, Newest, Absent, Installing

THEOREM AlwaysIInv == Spec => []IInv
<1>1. IInv /\ [Next]_vars => IInv'
  BY StepKeepsIInv
<1> QED BY InitIInv, <1>1, PTL DEF Spec

(* The types of every variable, and that no snapshot outlives the state of   *)
(* its entries, nothing that waits is forgotten by the timer.                *)
THEOREM TypesAndSnapshots == Spec => [](TypeOK /\ SnapshotIsCurrent /\ WaitingIsRetried)
<1>1. IInv => TypeOK /\ SnapshotIsCurrent /\ WaitingIsRetried
  BY DEF IInv
<1> QED BY AlwaysIInv, <1>1, PTL

(* While a removal or a promotion waits for an open file, the timer that     *)
(* tries again is running (schedulePendingRetry()).                          *)
THEOREM WaitingHasTimer == Spec => []WaitingIsRetried
<1>1. IInv => WaitingIsRetried
  BY DEF IInv
<1> QED BY AlwaysIInv, <1>1, PTL

(* While no import is removed that the dialog does not know of, the files of *)
(* every import stay placed.                                                 *)
THEOREM AlwaysPlaced == ASSUME ~UnseenImports PROVE Spec => []ImportsPlaced
<1>1. IInv /\ ImportsPlaced /\ [Next]_vars => IInv' /\ ImportsPlaced'
  BY StepKeepsIInv, StepPlaces
<1>2. Init => IInv /\ ImportsPlaced
  BY InitIInv, InitPlaces
<1> QED BY <1>1, <1>2, PTL DEF Spec

(* A lookup that starts after an import was applied is not answered from     *)
(* the files it supersedes, also after a restart (openStore()).              *)
THEOREM SupersededStaysClosed == ASSUME ~UnseenImports PROVE Spec => []SupersededNotPublished
<1>1. IInv /\ ImportsPlaced => SupersededNotPublished
  BY DEF IInv, SnapshotIsCurrent, ImportsPlaced, Placed, Covered, SupersededNotPublished
<1> QED BY AlwaysIInv, AlwaysPlaced, <1>1, PTL

(* The filter beside a database is its own or none, however imports, staged  *)
(* copies, retries and restarts follow each other (store.cpp:641-643).       *)
THEOREM FiltersMatch == ASSUME ~UnseenImports PROVE Spec => []FilterMatchesDatabase
<1>1. ImportsPlaced => FilterMatchesDatabase
  BY DEF ImportsPlaced, Placed, Matched, KeysMatch, StagedKeysMatch, FilterMatchesDatabase
<1> QED BY AlwaysPlaced, <1>1, PTL

(* A retry of older removals and promotions loses no import.                 *)
THEOREM RetriesKeepImports == Spec => RetryKeepsImports
<1>1. IInv /\ [Next]_vars =>
        [RetryPending => \A id \in Ids \ restored :
           HasImport(entry[id]) \/ id \in Running =>
             Newest(files'[id]) = Newest(files[id])]_vars
  BY RetryPendingKeeps DEF Spared
<1> QED BY AlwaysIInv, <1>1, PTL DEF Spec, RetryKeepsImports

(* A start completes the removals that waited and loses nothing else.        *)
THEOREM StartsRecover == Spec => RestartRecovers
<1>1. IInv /\ [Next]_vars =>
        [Restart => \A id \in Ids :
           IF id \in pendingRemovals /\ ~HasImport(diskList[id])
           THEN files'[id] = NoFiles
           ELSE Newest(files'[id]) = Newest(files[id])]_vars
  BY RestartKeeps
<1> QED BY AlwaysIInv, <1>1, PTL DEF Spec, RestartRecovers
=============================================================================
