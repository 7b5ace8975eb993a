----------------------- MODULE DictionaryTasksProofs ------------------------
(* The work on dictionaries for any number of downloads and lists, changes,  *)
(* queued tasks and faults: no task is forgotten, no half file is read or    *)
(* published where no two jobs met, and what was appended or downloaded is   *)
(* on its way to the store until it is there.                                *)
EXTENDS DictionaryTasks, SequenceTheorems, TLAPS

(* Two jobs that meet are noted as soon as they do.                          *)
MeetingsAreSeen == Shared \subseteq met

(* A job nobody answers is one the dialog was closed on.                     *)
LeftIsLeftOver == \A id \in Ids : Runs(id, "left") => id \in leftOver

(* Nothing checks or downloads a custom list.                                *)
ListsAreImported ==
    \A id \in Lists, r \in Runner : work[id][r].stage \notin {"check"} \cup Downloading

(* The temporary files of a dictionary are those of the job that is at them, *)
(* and an import that is installed is what the path of the store holds.      *)
FilesFollowJobs(id) ==
    /\ \A r \in part[id] : work[id][r].stage = "transfer"
    /\ \A r \in Runner : tmp[id] = r <=> work[id][r].stage = "write"
    /\ db[id].writer = "none"
    /\ \A r \in Runner : work[id][r].stage = "installed" =>
          db[id] = [version |-> work[id][r].version, whole |-> TRUE, writer |-> "none"]

FilesAreWhole(id) ==
    /\ source[id].version # 0 => source[id].whole
    /\ db[id] # NoDatabase => db[id].whole

Fits(id) == FilesFollowJobs(id) /\ FilesAreWhole(id)

(* An import of the newest source waits, runs, or has just ended.            *)
ImportWaits(id) == \E i \in DOMAIN queue : queue[i] = [id |-> id, kind |-> "import"]
Pending(id) ==
    \/ ImportWaits(id)
    \/ \E r \in Runner : work[id][r].stage \in {"import", "failed"}
    \/ \E r \in Runner : /\ work[id][r].stage \in {"write", "installed"}
                         /\ work[id][r].version = source[id].version

Settled(id) == UpToDateStore(id) /\ \A r \in Runner : work[id][r].stage \notin Importing

Reaches(id) ==
    /\ id \in listed /\ id \notin dropped /\ id \notin met /\ id \notin leftOver
    /\ source[id].version # 0
    => Pending(id) \/ Settled(id)

IInv ==
    /\ TypeOK
    /\ QueueIsServed
    /\ MeetingsAreSeen
    /\ LeftIsLeftOver
    /\ ListsAreImported
    /\ \A id \in Ids \ met : Fits(id)
    /\ \A id \in Ids : Reaches(id)
-----------------------------------------------------------------------------
(* The jobs that run.                                                        *)

(* The tasks of a dictionary.                                                *)
Kind(id) == IF id \in Lists THEN {"import"} ELSE {"check", "request", "import"}

LEMMA Kinds ==
    /\ \A task \in Task : task.id \in Ids /\ task.kind \in Kind(task.id)
    /\ \A id \in Ids : \A kind \in Kind(id) : [id |-> id, kind |-> kind] \in Task
    /\ \A id \in Ids : "import" \in Kind(id) /\ Kind(id) \subseteq {"check", "request", "import"}
    /\ \A id \in Lists : Kind(id) = {"import"}
    /\ \A id \in Ids \ Lists : Kind(id) = {"check", "request", "import"}
    /\ \A id \in Ids \ Lists : id \in Downloads
    /\ Downloading \cap Importing = {}
    /\ {"check", "request", "import"} \subseteq Stage
    /\ \A kind \in {"check", "request", "import"} :
          Created(kind) \in Work /\ Created(kind).stage = kind
    /\ NoWork \in Work /\ NoWork.stage = "none"
BY DisjointAssumption
   DEF Task, Kind, Ids, Downloading, Importing, Stage, Created, Work, NoWork, Version

(* What two jobs of one dictionary do not do at once where none has met.     *)
LEMMA Alone ==
    ASSUME MeetingsAreSeen, NEW id \in Ids, id \notin met,
           NEW r \in Runner, NEW s \in Runner, r # s
    PROVE  /\ work[id][r].stage \in Importing => work[id][s].stage \notin Importing
           /\ work[id][r].stage \in Downloading => work[id][s].stage \notin Downloading
BY DEF MeetingsAreSeen, Shared, Meet, Runner

(* A task that starts: the dialog had no job of it.                          *)
Starts(o, s) ==
    /\ s = "dialog" /\ work[o][s].stage = "none"
    /\ work'[o][s].stage \in Kind(o)

(* What the step of a job leaves of the others and of the queue.             *)
OthersStay(id, r) ==
    /\ queue' \in Seq(Task) /\ work' \in [Ids -> [Runner -> Work]]
    /\ QueueIsServed'
    /\ \A s \in Runner \ {r} : work'[id][s] = work[id][s]
    /\ \A o \in Ids \ {id}, s \in Runner : work'[o][s] = work[o][s] \/ Starts(o, s)
    /\ \A o \in listed \ {id} :
          ImportWaits(o) /\ o \notin dropped' =>
             ImportWaits(o)' \/ work'[o]["dialog"].stage = "import"

LEMMA PutStays ==
    ASSUME TypeOK, QueueIsServed, NEW id \in Ids, NEW r \in Runner, NEW x \in Work,
           work' = Put(id, r, x), queue' = queue, Runs(id, r) \/ r # "dialog",
           r = "dialog" => x.stage # "none"
    PROVE  OthersStay(id, r) /\ work'[id][r] = x
<1>1. /\ work' \in [Ids -> [Runner -> Work]]
      /\ work'[id][r] = x
      /\ \A s \in Runner \ {r} : work'[id][s] = work[id][s]
      /\ \A o \in Ids \ {id}, s \in Runner : work'[o][s] = work[o][s]
  BY DEF TypeOK, Put
<1>2. \A o \in Ids : Runs(o, "dialog")' <=> Runs(o, "dialog")
  BY <1>1 DEF Runs, Runner
<1>3. QueueIsServed'
  BY <1>2 DEF QueueIsServed, DialogRuns
<1> QED BY <1>1, <1>3 DEF OthersStay, ImportWaits, TypeOK

(* What starting the next task of q does to the jobs w of an idle dialog.    *)
TaskStarted(q, w) ==
    /\ queue' \in Seq(Task) /\ work' \in [Ids -> [Runner -> Work]]
    /\ QueueIsServed'
    /\ \A o \in Ids, s \in Runner \ {"dialog"} : work'[o][s] = w[o][s]
    /\ \A o \in Ids : \/ work'[o]["dialog"] = w[o]["dialog"]
                      \/ work'[o]["dialog"].stage \in Kind(o)
    /\ \A o \in listed, i \in DOMAIN q :
          q[i] = [id |-> o, kind |-> "import"] =>
             ImportWaits(o)' \/ work'[o]["dialog"].stage = "import"

(* The first task of q whose entry still exists starts.                      *)
LEMMA NextStarts ==
    ASSUME NEW q \in Seq(Task), NEW w \in [Ids -> [Runner -> Work]],
           \A o \in Ids : w[o]["dialog"].stage = "none", StartNextTask(q, w)
    PROVE  TaskStarted(q, w)
<1>1. CASE /\ \A i \in DOMAIN q : q[i].id \notin listed
           /\ queue' = <<>> /\ work' = w
  <2>1. \A o \in Ids : ~Runs(o, "dialog")'
    BY <1>1 DEF Runs
  <2>2. QueueIsServed'
    BY <2>1, <1>1 DEF QueueIsServed, DialogRuns
  <2>3. queue' \in Seq(Task)
    BY <1>1
  <2> QED BY <2>2, <2>3, <1>1 DEF TaskStarted
<1>2. ASSUME NEW first \in DOMAIN q, q[first].id \in listed,
             \A i \in DOMAIN q : i < first => q[i].id \notin listed,
             queue' = SubSeq(q, first + 1, Len(q)),
             work' = [w EXCEPT ![q[first].id]["dialog"] = Created(q[first].kind)]
      PROVE  TaskStarted(q, w)
  <2>1. /\ q[first] \in Task /\ q[first].id \in Ids
        /\ q[first].kind \in Kind(q[first].id)
        /\ Created(q[first].kind) \in Work /\ Created(q[first].kind).stage = q[first].kind
    <3>1. q[first] \in Task
      BY <1>2
    <3>2. q[first].id \in Ids /\ q[first].kind \in Kind(q[first].id)
      BY <3>1, Kinds
    <3> QED BY <3>1, <3>2, Kinds
  <2>2. /\ Len(q) \in Nat /\ first \in 1 .. Len(q) /\ DOMAIN q = 1 .. Len(q)
        /\ queue' \in Seq(Task) /\ DOMAIN queue' = 1 .. (Len(q) - first)
        /\ \A i \in 1 .. Len(q) : i > first =>
              i - first \in DOMAIN queue' /\ queue'[i - first] = q[i]
    <3>1. Len(q) \in Nat /\ first \in 1 .. Len(q) /\ DOMAIN q = 1 .. Len(q)
      BY <1>2
    <3>2. /\ queue' \in Seq(Task) /\ Len(queue') = Len(q) - first
          /\ \A i \in 1 .. (Len(q) - first) : queue'[i] = q[first + i]
      BY <3>1, <1>2
    <3>3. DOMAIN queue' = 1 .. (Len(q) - first)
      BY <3>2
    <3>4. ASSUME NEW i \in 1 .. Len(q), i > first
          PROVE  i - first \in DOMAIN queue' /\ queue'[i - first] = q[i]
      <4>1. i - first \in 1 .. (Len(q) - first) /\ first + (i - first) = i
        BY <3>1, <3>4
      <4> QED BY <4>1, <3>2, <3>3
    <3> QED BY <3>1, <3>2, <3>3, <3>4
  <2>3. /\ "dialog" \in Runner
        /\ work' \in [Ids -> [Runner -> Work]]
        /\ work'[q[first].id]["dialog"] = Created(q[first].kind)
        /\ \A o \in Ids, s \in Runner \ {"dialog"} : work'[o][s] = w[o][s]
        /\ \A o \in Ids \ {q[first].id} : work'[o]["dialog"] = w[o]["dialog"]
    BY <2>1, <1>2 DEF Runner
  <2>4. \A o \in Ids : Runs(o, "dialog")' <=> o = q[first].id
    BY Kinds, <2>1, <2>3 DEF Runs
  <2>5. QueueIsServed'
    BY <2>1, <2>4 DEF QueueIsServed, DialogRuns
  <2>6. ASSUME NEW o \in listed, NEW i \in DOMAIN q, q[i] = [id |-> o, kind |-> "import"]
        PROVE  ImportWaits(o)' \/ work'[o]["dialog"].stage = "import"
    <3>1. q[i].id = o /\ q[i].kind = "import"
      BY <2>6
    <3>2. i \in 1 .. Len(q) /\ ~(i < first)
      BY <3>1, <2>2, <2>6, <1>2
    <3>3. CASE i = first
      BY <3>1, <3>3, <2>1, <2>3
    <3>4. CASE i > first
      BY <3>4, <3>2, <2>2, <2>6 DEF ImportWaits
    <3> QED BY <3>2, <3>3, <3>4, <2>2
  <2> QED BY <2>1, <2>2, <2>3, <2>5, <2>6 DEF TaskStarted
<1> QED BY <1>1, <1>2 DEF StartNextTask

(* A job of the dialog ends: the next task of what onX() left starts.        *)
LEMMA AnsweredStays ==
    ASSUME TypeOK, QueueIsServed, NEW id \in Ids, Runs(id, "dialog"),
           NEW q \in Seq(Task), Answered(id, q),
           \A o \in listed \ {id}, i \in DOMAIN queue :
              queue[i] = [id |-> o, kind |-> "import"] /\ o \notin dropped' =>
                 \E j \in DOMAIN q : q[j] = queue[i]
    PROVE  /\ OthersStay(id, "dialog")
           /\ work'[id]["dialog"].stage \in {"none"} \cup Kind(id)
           /\ id \in listed /\ (\E i \in DOMAIN q : q[i] = [id |-> id, kind |-> "import"]) =>
                 ImportWaits(id)' \/ work'[id]["dialog"].stage = "import"
<1> DEFINE w == Put(id, "dialog", NoWork)
<1>1. /\ w \in [Ids -> [Runner -> Work]] /\ w[id]["dialog"] = NoWork
      /\ \A s \in Runner \ {"dialog"} : w[id][s] = work[id][s]
      /\ \A o \in Ids \ {id}, s \in Runner : w[o][s] = work[o][s]
  BY Kinds DEF Put, TypeOK, Runner
<1>2. \A o \in Ids \ {id} : work[o]["dialog"].stage = "none"
  BY DEF QueueIsServed, DialogRuns, Runs
<1>3. TaskStarted(q, w)
  <2>1. \A o \in Ids : w[o]["dialog"].stage = "none"
    BY <1>1, <1>2, Kinds DEF Runner
  <2>2. StartNextTask(q, w)
    BY DEF Answered
  <2> HIDE DEF w
  <2> QED BY <1>1, <2>1, <2>2, NextStarts
<1> HIDE DEF w
<1>4. work'[id]["dialog"].stage \in {"none"} \cup Kind(id)
  BY <1>1, <1>3, Kinds DEF TaskStarted
<1>5. \A o \in Ids \ {id}, s \in Runner : work'[o][s] = work[o][s] \/ Starts(o, s)
  BY <1>1, <1>2, <1>3 DEF TaskStarted, Starts, Runner
<1>6. \A s \in Runner \ {"dialog"} : work'[id][s] = work[id][s]
  BY <1>1, <1>3 DEF TaskStarted
<1>7. \A o \in listed \ {id} :
         ImportWaits(o) /\ o \notin dropped' =>
            ImportWaits(o)' \/ work'[o]["dialog"].stage = "import"
  BY <1>3 DEF TaskStarted, ImportWaits
<1> QED BY <1>3, <1>4, <1>5, <1>6, <1>7 DEF OthersStay, TaskStarted

(* A job ends and nothing of its dictionary follows, whoever answers it.     *)
LEMMA EndStays ==
    ASSUME TypeOK, QueueIsServed, NEW id \in Ids, NEW r \in Runner, Runs(id, r),
           EndedInError(id, r, queue)
    PROVE  /\ OthersStay(id, r)
           /\ work'[id][r].stage \in {"none"} \cup Kind(id)
           /\ r # "dialog" => work'[id][r] = NoWork
           /\ id \in listed /\ ImportWaits(id) =>
                 ImportWaits(id)' \/ work'[id]["dialog"].stage = "import"
<1>1. CASE r = "dialog"
  <2>1. Answered(id, queue) /\ queue \in Seq(Task)
    BY <1>1 DEF EndedInError, TypeOK
  <2> QED BY <2>1, <1>1, AnsweredStays DEF ImportWaits
<1>2. CASE r # "dialog"
  BY <1>2, PutStays, Kinds DEF EndedInError, ImportWaits
<1> QED BY <1>1, <1>2

-----------------------------------------------------------------------------
(* What a step leaves of a dictionary whose imports it does not move.        *)

LEMMA FitsKept ==
    ASSUME NEW o \in Ids, Fits(o),
           source'[o].version # 0 => source'[o].whole,
           \A r \in part'[o] : work'[o][r].stage = "transfer",
           tmp'[o] = tmp[o], db'[o] = db[o],
           \A s \in Runner : \/ work'[o][s] = work[o][s]
                             \/ /\ work[o][s].stage # "write"
                                /\ work'[o][s].stage \notin {"write", "installed"}
    PROVE  Fits(o)'
<1>1. \A r \in Runner : tmp'[o] = r <=> work'[o][r].stage = "write"
  BY DEF Fits, FilesFollowJobs
<1>2. \A r \in Runner : work'[o][r].stage = "installed" =>
         db'[o] = [version |-> work'[o][r].version, whole |-> TRUE, writer |-> "none"]
  BY DEF Fits, FilesFollowJobs
<1>3. db'[o].writer = "none" /\ (db'[o] # NoDatabase => db'[o].whole)
  BY DEF Fits, FilesFollowJobs, FilesAreWhole
<1> QED BY <1>1, <1>2, <1>3 DEF Fits, FilesFollowJobs, FilesAreWhole

LEMMA ReachesKept ==
    ASSUME NEW o \in Ids, Reaches(o),
           o \in listed' => o \in listed,
           o \in dropped => o \in dropped', o \in met => o \in met',
           o \in leftOver => o \in leftOver',
           source'[o] = source[o], db'[o] = db[o], imported'[o] = imported[o],
           \A s \in Runner : \/ work'[o][s] = work[o][s]
                             \/ /\ work[o][s].stage \notin Importing
                                /\ work'[o][s].stage \notin Importing \ {"import"},
           o \in listed /\ o \notin dropped' /\ o \notin leftOver' /\ ImportWaits(o) =>
              ImportWaits(o)' \/ work'[o]["dialog"].stage = "import"
    PROVE  Reaches(o)'
<1> SUFFICES ASSUME o \in listed', o \notin dropped', o \notin met', o \notin leftOver',
                    source'[o].version # 0
             PROVE  Pending(o)' \/ Settled(o)'
  BY DEF Reaches
<1>1. Pending(o) \/ Settled(o)
  BY DEF Reaches
<1>2. CASE ImportWaits(o)
  BY <1>2 DEF Pending, Runner
<1>3. CASE \E r \in Runner : work[o][r].stage \in {"import", "failed"}
  BY <1>3 DEF Pending, Importing
<1>4. CASE \E r \in Runner : /\ work[o][r].stage \in {"write", "installed"}
                             /\ work[o][r].version = source[o].version
  BY <1>4 DEF Pending, Importing
<1>5. CASE Settled(o)
  <2>1. CASE \E s \in Runner : work'[o][s].stage = "import"
    BY <2>1 DEF Pending
  <2>2. CASE \A s \in Runner : work'[o][s].stage # "import"
    <3>1. \A s \in Runner : work'[o][s].stage \notin Importing
      BY <2>2, <1>5 DEF Settled
    <3> QED BY <3>1, <1>5 DEF Settled, UpToDateStore
  <2> QED BY <2>1, <2>2
<1> QED BY <1>1, <1>2, <1>3, <1>4, <1>5 DEF Pending

(* The dictionaries whose files and jobs a step leaves alone.                *)
SameElsewhere(id) ==
    /\ met \subseteq met' /\ listed' \subseteq listed
    /\ \A o \in Ids \ {id} :
          /\ source'[o] = source[o] /\ part'[o] = part[o] /\ tmp'[o] = tmp[o]
          /\ db'[o] = db[o] /\ imported'[o] = imported[o]
          /\ o \in dropped => o \in dropped'
          /\ o \in leftOver => o \in leftOver'

LEMMA Elsewhere ==
    ASSUME IInv, NEW id \in Ids, NEW r \in Runner, OthersStay(id, r), SameElsewhere(id)
    PROVE  \A o \in Ids \ {id} : (o \notin met' => Fits(o)') /\ Reaches(o)'
<1> TAKE o \in Ids \ {id}
<1>1. \A s \in Runner : work'[o][s] = work[o][s] \/ Starts(o, s)
  BY DEF OthersStay
<1>2. ASSUME o \notin met'
      PROVE  Fits(o)'
  <2>1. Fits(o) /\ part[o] \subseteq Runner
    BY <1>2 DEF IInv, TypeOK, SameElsewhere
  <2>2. \A s \in part'[o] : work'[o][s].stage = "transfer"
    BY <1>1, <2>1 DEF SameElsewhere, Fits, FilesFollowJobs, Starts
  <2> QED BY Kinds, <1>1, <2>1, <2>2, FitsKept DEF SameElsewhere, Fits, FilesAreWhole, Starts
<1>3. Reaches(o)'
  <2>1. Reaches(o) /\ (o \in listed' => o \in listed)
    BY DEF IInv, SameElsewhere
  <2>2. \A s \in Runner : \/ work'[o][s] = work[o][s]
                          \/ /\ work[o][s].stage \notin Importing
                             /\ work'[o][s].stage \notin Importing \ {"import"}
    BY Kinds, <1>1 DEF Starts, Importing
  <2>3. o \in listed /\ o \notin dropped' /\ ImportWaits(o) =>
           ImportWaits(o)' \/ work'[o]["dialog"].stage = "import"
    BY DEF OthersStay
  <2> QED BY <2>1, <2>2, <2>3, ReachesKept DEF SameElsewhere
<1> QED BY <1>2, <1>3

(* Where the step of a job keeps its own dictionary, it keeps everything.    *)
LEMMA JobKeeps ==
    ASSUME IInv, TypeOK', NEW id \in Ids, NEW r \in Runner,
           OthersStay(id, r), SameElsewhere(id), MeetingsAreSeen',
           id \in leftOver => id \in leftOver' \/ ~Runs(id, "left"),
           r = "left" => Runs(id, "left"),
           id \in Lists => work'[id][r].stage \in {"none"} \cup Importing,
           id \notin met' => Fits(id)', Reaches(id)'
    PROVE  IInv'
<1>1. \A o \in Ids \ {id} : (o \notin met' => Fits(o)') /\ Reaches(o)'
  BY Elsewhere
<1>2. LeftIsLeftOver'
  <2> SUFFICES ASSUME NEW o \in Ids, work'[o]["left"].stage # "none"
               PROVE  o \in leftOver'
    BY DEF LeftIsLeftOver, Runs
  <2>1. CASE o = id
    BY <2>1 DEF OthersStay, IInv, LeftIsLeftOver, Runs, Runner
  <2>2. CASE o # id
    BY <2>2 DEF OthersStay, SameElsewhere, Starts, IInv, LeftIsLeftOver, Runs, Runner
  <2> QED BY <2>1, <2>2
<1>3. QueueIsServed'
  BY DEF OthersStay
<1>4. ListsAreImported'
  <2> SUFFICES ASSUME NEW o \in Lists, NEW s \in Runner
               PROVE  work'[o][s].stage \notin {"check"} \cup Downloading
    BY DEF ListsAreImported
  <2>1. work[o][s].stage \notin {"check"} \cup Downloading
    BY DEF IInv, ListsAreImported
  <2>2. CASE o = id
    <3>1. CASE s = r
      BY <2>2, <3>1, Kinds DEF Importing, Downloading
    <3>2. CASE s # r
      BY <2>1, <2>2, <3>2 DEF OthersStay, Ids
    <3> QED BY <3>1, <3>2
  <2>3. CASE o # id
    <3>1. work'[o][s] = work[o][s] \/ work'[o][s].stage \in Kind(o)
      BY <2>3 DEF OthersStay, Starts, Ids
    <3> QED BY <2>1, <3>1, Kinds DEF Downloading
  <2> QED BY <2>2, <2>3
<1> QED BY <1>1, <1>2, <1>3, <1>4 DEF IInv

LEMMA Observed == ASSUME ObserveSharing PROVE met \subseteq met' /\ MeetingsAreSeen'
BY DEF ObserveSharing, MeetingsAreSeen

LEMMA SharedTypes == Shared' \subseteq Ids
BY DEF Shared
-----------------------------------------------------------------------------
(* Checks and downloads.                                                     *)

LEMMA AnswerCheckKeeps ==
    ASSUME IInv, NEW id \in Ids, NEW r \in Runner, NEW error \in BOOLEAN,
           AnswerCheck(id, r, error)
    PROVE  IInv'
<1>1. /\ TypeOK /\ QueueIsServed /\ work[id][r].stage = "check" /\ Runs(id, r)
      /\ queue \in Seq(Task) /\ id \notin Lists
  BY DEF IInv, AnswerCheck, Runs, TypeOK, ListsAreImported
<1>2. /\ OthersStay(id, r)
      /\ work'[id][r].stage \in {"none"} \cup Kind(id)
      /\ id \in listed /\ ImportWaits(id) =>
            ImportWaits(id)' \/ work'[id]["dialog"].stage = "import"
  <2>1. CASE r = "dialog"
    <3>1. Answered(id, queue)
      BY <2>1 DEF AnswerCheck
    <3> QED BY <1>1, <2>1, <3>1, AnsweredStays DEF ImportWaits
  <2>2. CASE r # "dialog"
    <3>1. PICK x \in {NoWork, Created("request")} : work' = Put(id, r, x) /\ queue' = queue
      BY <2>2 DEF AnswerCheck, Runner
    <3>2. x \in Work /\ x.stage \in {"none"} \cup Kind(id)
      BY <1>1, Kinds
    <3> QED BY <1>1, <2>2, <3>1, <3>2, PutStays DEF ImportWaits
  <2> QED BY <2>1, <2>2
<1>3. SameElsewhere(id) /\ MeetingsAreSeen'
  BY Observed DEF SameElsewhere, AnswerCheck, files
<1>4. TypeOK'
  BY <1>1, <1>2, SharedTypes DEF TypeOK, OthersStay, AnswerCheck, files, ObserveSharing
<1>5. ASSUME id \notin met'
      PROVE  Fits(id)'
  <2>1. Fits(id) /\ part[id] \subseteq Runner
    BY <1>1, <1>3, <1>5 DEF IInv, SameElsewhere, TypeOK
  <2>2. \A s \in part'[id] : work'[id][s].stage = "transfer"
    BY <1>1, <1>2, <2>1 DEF Fits, FilesFollowJobs, AnswerCheck, files, OthersStay
  <2> QED BY Kinds, <1>1, <1>2, <2>1, <2>2, FitsKept DEF AnswerCheck, files, OthersStay, Fits, FilesAreWhole
<1>6. Reaches(id)'
  <2>1. Reaches(id)
    BY DEF IInv
  <2>2. \A s \in Runner : \/ work'[id][s] = work[id][s]
                          \/ /\ work[id][s].stage \notin Importing
                             /\ work'[id][s].stage \notin Importing \ {"import"}
    BY Kinds, <1>1, <1>2 DEF OthersStay, Importing
  <2> QED BY <1>2, <1>3, <2>1, <2>2, ReachesKept DEF AnswerCheck, files, SameElsewhere
<1> QED BY <1>1, <1>2, <1>3, <1>4, <1>5, <1>6, JobKeeps DEF AnswerCheck

LEMMA PrependAt ==
    ASSUME NEW S, NEW s \in Seq(S), NEW e \in S
    PROVE  /\ <<e>> \o s \in Seq(S)
           /\ 1 \in DOMAIN (<<e>> \o s) /\ (<<e>> \o s)[1] = e
           /\ \A i \in DOMAIN s : i + 1 \in DOMAIN (<<e>> \o s) /\ (<<e>> \o s)[i + 1] = s[i]
<1>1. <<e>> \in Seq(S) /\ Len(<<e>>) = 1 /\ <<e>>[1] = e
  OBVIOUS
<1>2. /\ <<e>> \o s \in Seq(S) /\ Len(<<e>> \o s) = 1 + Len(s)
      /\ \A i \in 1 .. (1 + Len(s)) :
            (<<e>> \o s)[i] = IF i <= 1 THEN <<e>>[i] ELSE s[i - 1]
  BY <1>1, ConcatProperties
<1>3. Len(s) \in Nat /\ DOMAIN s = 1 .. Len(s) /\ DOMAIN (<<e>> \o s) = 1 .. (1 + Len(s))
  BY <1>2
<1> QED BY <1>1, <1>2, <1>3

(* A download that succeeded is followed by its import, unless the server    *)
(* had nothing newer or nobody listens.                                      *)
LEMMA FinishedStays ==
    ASSUME TypeOK, QueueIsServed, NEW id \in Ids, NEW r \in Runner, Runs(id, r),
           NEW notModified \in BOOLEAN, DownloadFinished(id, r, notModified)
    PROVE  /\ OthersStay(id, r)
           /\ work'[id][r].stage \in {"none"} \cup Kind(id)
           /\ id \in listed /\ ImportWaits(id) =>
                 ImportWaits(id)' \/ work'[id]["dialog"].stage = "import"
           /\ id \in listed /\ ~notModified /\ r # "left" =>
                 ImportWaits(id)' \/ work'[id][r].stage = "import"
<1> DEFINE task == [id |-> id, kind |-> "import"]
<1>1. queue \in Seq(Task) /\ task \in Task
  BY Kinds DEF TypeOK
<1>2. CASE r = "dialog" /\ UpToDate(id, notModified)
  <2>1. Answered(id, queue) /\ notModified
    BY <1>2 DEF DownloadFinished, UpToDate
  <2> QED BY <1>1, <1>2, <2>1, AnsweredStays DEF ImportWaits
<1>3. CASE r = "dialog" /\ ~UpToDate(id, notModified)
  <2> DEFINE q == <<task>> \o queue
  <2>1. /\ Answered(id, q) /\ q \in Seq(Task)
        /\ 1 \in DOMAIN q /\ q[1] = task
        /\ \A i \in DOMAIN queue : i + 1 \in DOMAIN q /\ q[i + 1] = queue[i]
    BY <1>1, <1>3, PrependAt DEF DownloadFinished
  <2> HIDE DEF q
  <2> QED BY <1>1, <1>3, <2>1, AnsweredStays
<1>4. CASE r # "dialog"
  <2>1. PICK x \in {NoWork, Created("import")} :
           /\ work' = Put(id, r, x) /\ queue' = queue
           /\ r = "app" /\ ~notModified /\ id \in listed => x = Created("import")
    BY <1>4 DEF DownloadFinished, Runner
  <2>2. /\ x \in Work /\ x.stage \in {"none"} \cup Kind(id)
        /\ Created("import").stage = "import"
    BY Kinds
  <2> QED BY <1>4, <2>1, <2>2, PutStays DEF ImportWaits, Runner
<1> QED BY <1>2, <1>3, <1>4

LEMMA RequestKeeps ==
    ASSUME IInv, NEW id \in Ids, NEW r \in Runner, Request(id, r)
    PROVE  IInv'
<1>1. /\ TypeOK /\ QueueIsServed /\ work[id][r].stage = "request" /\ Runs(id, r)
      /\ queue \in Seq(Task) /\ id \notin Lists /\ server[id] \in Version
  BY Kinds DEF IInv, Request, Runs, TypeOK, ListsAreImported, Downloading
<1>2. /\ OthersStay(id, r)
      /\ work'[id][r].stage \in {"none", "transfer"} \cup Kind(id)
      /\ id \in listed /\ ImportWaits(id) =>
            ImportWaits(id)' \/ work'[id]["dialog"].stage = "import"
      /\ part' \in [Ids -> SUBSET Runner]
      /\ \A o \in Ids \ {id} : part'[o] = part[o]
      /\ \A s \in part'[id] : s \in part[id] \/ (s = r /\ work'[id][s].stage = "transfer")
  <2>1. CASE NotModified(id)
    <3>1. DownloadFinished(id, r, TRUE) /\ part' = [part EXCEPT ![id] = {}]
      BY <2>1 DEF Request
    <3>2. /\ part' \in [Ids -> SUBSET Runner] /\ part'[id] = {}
          /\ \A o \in Ids \ {id} : part'[o] = part[o]
      BY <1>1, <3>1 DEF TypeOK
    <3> QED BY <1>1, <3>1, <3>2, FinishedStays
  <2>2. CASE ~NotModified(id)
    <3> DEFINE x == [stage |-> "transfer", version |-> server[id]]
    <3>1. /\ work' = Put(id, r, x) /\ queue' = queue
          /\ part' = [part EXCEPT ![id] = @ \cup {r}]
      BY <2>2 DEF Request
    <3>2. /\ part' \in [Ids -> SUBSET Runner] /\ part'[id] = part[id] \cup {r}
          /\ \A o \in Ids \ {id} : part'[o] = part[o]
      BY <1>1, <3>1 DEF TypeOK
    <3>3. x \in Work /\ x.stage = "transfer"
      BY <1>1 DEF Work, Stage, Downloading
    <3>4. OthersStay(id, r) /\ work'[id][r] = x
      <4> HIDE DEF x
      <4> QED BY <1>1, <3>1, <3>3, PutStays
    <3> HIDE DEF x
    <3> QED BY <3>1, <3>2, <3>3, <3>4 DEF ImportWaits
  <2> QED BY <2>1, <2>2
<1>3. SameElsewhere(id) /\ MeetingsAreSeen'
  BY <1>2, Observed DEF SameElsewhere, Request
<1>4. TypeOK'
  BY <1>1, <1>2, SharedTypes DEF TypeOK, OthersStay, Request, ObserveSharing
<1>5. ASSUME id \notin met'
      PROVE  Fits(id)'
  <2>1. Fits(id) /\ part[id] \subseteq Runner
    BY <1>1, <1>3, <1>5 DEF IInv, SameElsewhere, TypeOK
  <2>2. \A s \in part'[id] : work'[id][s].stage = "transfer"
    BY <1>1, <1>2, <2>1 DEF Fits, FilesFollowJobs, OthersStay
  <2> QED BY Kinds, <1>1, <1>2, <2>1, <2>2, FitsKept DEF Request, OthersStay, Fits, FilesAreWhole
<1>6. Reaches(id)'
  <2>1. Reaches(id)
    BY DEF IInv
  <2>2. \A s \in Runner : \/ work'[id][s] = work[id][s]
                          \/ /\ work[id][s].stage \notin Importing
                             /\ work'[id][s].stage \notin Importing \ {"import"}
    BY Kinds, <1>1, <1>2 DEF OthersStay, Importing
  <2> QED BY <1>2, <1>3, <2>1, <2>2, ReachesKept DEF Request, SameElsewhere
<1> QED BY <1>1, <1>2, <1>3, <1>4, <1>5, <1>6, JobKeeps DEF Request

LEMMA FinishDownloadKeeps ==
    ASSUME IInv, NEW id \in Ids, NEW r \in Runner, FinishDownload(id, r)
    PROVE  IInv'
<1>1. /\ TypeOK /\ QueueIsServed /\ work[id][r].stage = "transfer" /\ Runs(id, r)
      /\ work[id][r].version \in Version /\ part[id] # {} /\ part[id] \subseteq Runner
      /\ id \notin Lists /\ server[id] \in Version
  BY Kinds DEF IInv, FinishDownload, Runs, TypeOK, Work, ListsAreImported, Downloading
<1>2. /\ OthersStay(id, r)
      /\ work'[id][r].stage \in {"none"} \cup Kind(id)
      /\ id \in listed /\ r # "left" => ImportWaits(id)' \/ work'[id][r].stage = "import"
  BY <1>1, FinishedStays DEF FinishDownload
<1>3. /\ part' \in [Ids -> SUBSET Runner] /\ part'[id] = {}
      /\ \A o \in Ids \ {id} : part'[o] = part[o]
  BY <1>1 DEF FinishDownload, TypeOK
<1>4. SameElsewhere(id) /\ MeetingsAreSeen'
  <2>1. \A o \in Ids \ {id} : source'[o] = source[o]
    BY <1>1 DEF FinishDownload, TypeOK
  <2> QED BY <1>3, <2>1, Observed DEF SameElsewhere, FinishDownload
<1>5. source' \in [Ids -> Source] /\ source'[id].whole = (part[id] = {r})
  <2> DEFINE x == [version |-> work[id][r].version,
                   whole |-> part[id] = {r}, stamp |-> server[id]]
  <2>1. x \in Source /\ x.whole = (part[id] = {r})
    BY <1>1 DEF Source
  <2>2. source' = [source EXCEPT ![id] = x]
    BY DEF FinishDownload
  <2> HIDE DEF x
  <2> QED BY <1>1, <2>1, <2>2 DEF TypeOK
<1>6. TypeOK'
  BY <1>1, <1>2, <1>3, <1>5, SharedTypes
     DEF TypeOK, OthersStay, FinishDownload, ObserveSharing
<1>7. ASSUME id \notin met'
      PROVE  Fits(id)'
  <2>1. Fits(id) /\ id \notin met
    BY <1>4, <1>7 DEF IInv, SameElsewhere
  <2>2. part[id] = {r}
    <3> SUFFICES ASSUME NEW s \in part[id], s # r
                 PROVE  FALSE
      BY <1>1
    <3>1. s \in Runner /\ work[id][s].stage = "transfer"
      BY <1>1, <2>1 DEF Fits, FilesFollowJobs
    <3> QED BY <1>1, <2>1, <3>1, Alone DEF IInv, Downloading
  <2> QED BY Kinds, <1>1, <1>2, <1>3, <1>5, <2>1, <2>2, FitsKept DEF FinishDownload, OthersStay
<1>8. Reaches(id)'
  <2>1. CASE r = "left"
    <3>1. id \in leftOver'
      BY <1>1, <2>1 DEF IInv, LeftIsLeftOver, FinishDownload
    <3> QED BY <3>1 DEF Reaches
  <2>2. CASE r # "left"
    BY <1>2, <2>2 DEF Reaches, Pending, FinishDownload
  <2> QED BY <2>1, <2>2
<1> QED BY <1>1, <1>2, <1>4, <1>6, <1>7, <1>8, JobKeeps DEF FinishDownload

LEMMA FailDownloadKeeps ==
    ASSUME IInv, NEW id \in Ids, NEW r \in Runner, NEW unmoved \in BOOLEAN,
           FailDownload(id, r, unmoved)
    PROVE  IInv'
<1>1. /\ TypeOK /\ QueueIsServed /\ work[id][r].stage \in Downloading /\ Runs(id, r)
      /\ id \notin Lists
  BY DEF IInv, FailDownload, Runs, Downloading, ListsAreImported
<1>2. /\ OthersStay(id, r)
      /\ work'[id][r].stage \in {"none"} \cup Kind(id)
      /\ id \in listed /\ ImportWaits(id) =>
            ImportWaits(id)' \/ work'[id]["dialog"].stage = "import"
  BY <1>1, EndStays DEF FailDownload
<1>3. /\ part' \in [Ids -> SUBSET Runner] /\ part'[id] = {}
      /\ \A o \in Ids \ {id} : part'[o] = part[o]
  BY <1>1 DEF FailDownload, TypeOK
<1>4. /\ NoSource \in Source /\ NoSource.version = 0
      /\ source' \in [Ids -> Source]
      /\ source'[id] = source[id] \/ source'[id] = NoSource
      /\ \A o \in Ids \ {id} : source'[o] = source[o]
  BY <1>1 DEF FailDownload, LeftInPlace, TypeOK, NoSource, Source, Version
<1>5. SameElsewhere(id) /\ MeetingsAreSeen'
  BY <1>3, <1>4, Observed DEF SameElsewhere, FailDownload
<1>6. TypeOK'
  BY <1>1, <1>2, <1>3, <1>4, SharedTypes, MaxFaultsAssumption
     DEF TypeOK, OthersStay, FailDownload, ObserveSharing, Faulty
<1>7. ASSUME id \notin met'
      PROVE  Fits(id)'
  <2>1. Fits(id)
    BY <1>5, <1>7 DEF IInv, SameElsewhere
  <2>2. \A s \in Runner : \/ work'[id][s] = work[id][s]
                          \/ /\ work[id][s].stage # "write"
                             /\ work'[id][s].stage \notin {"write", "installed"}
    BY Kinds, <1>1, <1>2 DEF OthersStay, Downloading
  <2> QED BY <1>3, <1>4, <2>1, <2>2, FitsKept DEF FailDownload, Fits, FilesAreWhole
<1>8. Reaches(id)'
  <2>1. CASE source'[id] = source[id]
    <3>1. Reaches(id)
      BY DEF IInv
    <3>2. \A s \in Runner : \/ work'[id][s] = work[id][s]
                            \/ /\ work[id][s].stage \notin Importing
                               /\ work'[id][s].stage \notin Importing \ {"import"}
      BY Kinds, <1>1, <1>2 DEF OthersStay, Importing, Downloading
    <3> QED BY <1>2, <1>5, <2>1, <3>1, <3>2, ReachesKept DEF FailDownload, SameElsewhere
  <2>2. CASE source'[id] = NoSource
    BY <1>4, <2>2 DEF Reaches
  <2> QED BY <1>4, <2>1, <2>2
<1> QED BY <1>1, <1>2, <1>5, <1>6, <1>7, <1>8, JobKeeps DEF FailDownload

-----------------------------------------------------------------------------
(* Imports.                                                                  *)

(* No two jobs meet in a step that makes none download or import anew.       *)
LEMMA NoneMeets ==
    ASSUME MeetingsAreSeen, met \subseteq met',
           \A o \in Ids, s \in Runner :
              /\ work'[o][s].stage \in Downloading => work[o][s].stage \in Downloading
              /\ work'[o][s].stage \in Importing => work[o][s].stage \in Importing
    PROVE  MeetingsAreSeen'
BY DEF MeetingsAreSeen, Shared, Meet, Runner

LEMMA BeginImportKeeps ==
    ASSUME IInv, NEW id \in Ids, NEW r \in Runner, BeginImport(id, r)
    PROVE  IInv'
<1> DEFINE x == [stage |-> "write", version |-> source[id].version]
<1>1. /\ TypeOK /\ QueueIsServed /\ work[id][r].stage = "import" /\ Runs(id, r)
      /\ work' = Put(id, r, x) /\ queue' = queue
      /\ x \in Work /\ x.stage = "write" /\ x.version = source[id].version
  BY DEF IInv, BeginImport, Runs, TypeOK, Work, Stage, Importing, Source
<1> HIDE DEF x
<1>2. OthersStay(id, r) /\ work'[id][r] = x
  BY <1>1, PutStays
<1>3. /\ tmp' \in [Ids -> Runner \cup {"none"}] /\ tmp'[id] = r
      /\ \A o \in Ids \ {id} : tmp'[o] = tmp[o]
  BY <1>1 DEF BeginImport, TypeOK
<1>4. SameElsewhere(id)
  BY <1>3 DEF SameElsewhere, BeginImport, history
<1>5. MeetingsAreSeen'
  <2>1. \A o \in Ids, s \in Runner :
           /\ work'[o][s].stage \in Downloading => work[o][s].stage \in Downloading
           /\ work'[o][s].stage \in Importing => work[o][s].stage \in Importing
    <3> TAKE o \in Ids, s \in Runner
    <3>1. CASE o = id /\ s = r
      BY <3>1, <1>1, <1>2 DEF Downloading, Importing
    <3>2. CASE ~(o = id /\ s = r)
      BY <3>2, <1>1 DEF Put, TypeOK
    <3> QED BY <3>1, <3>2
  <2> QED BY <2>1, NoneMeets DEF IInv, BeginImport, history
<1>6. TypeOK'
  BY <1>1, <1>2, <1>3 DEF TypeOK, OthersStay, BeginImport, history
<1>7. ASSUME id \notin met'
      PROVE  Fits(id)'
  <2>1. Fits(id) /\ id \notin met /\ part[id] \subseteq Runner
    BY <1>1, <1>4, <1>7 DEF IInv, SameElsewhere, TypeOK
  <2>2. \A s \in Runner \ {r} : work'[id][s] = work[id][s] /\ work[id][s].stage \notin Importing
    BY <1>1, <1>2, <2>1, Alone DEF OthersStay, IInv, Importing
  <2>3. \A s \in part'[id] : work'[id][s].stage = "transfer"
    BY <1>1, <2>1, <2>2 DEF Fits, FilesFollowJobs, BeginImport
  <2>4. \A s \in Runner : tmp'[id] = s <=> work'[id][s].stage = "write"
    BY <1>1, <1>2, <1>3, <2>2 DEF Importing
  <2>5. \A s \in Runner : work'[id][s].stage # "installed"
    BY <1>1, <1>2, <2>2 DEF Importing
  <2> QED BY <2>1, <2>3, <2>4, <2>5 DEF Fits, FilesFollowJobs, FilesAreWhole, BeginImport
<1>8. Reaches(id)'
  BY <1>1, <1>2 DEF Reaches, Pending, BeginImport
<1> QED BY <1>1, <1>2, <1>4, <1>5, <1>6, <1>7, <1>8, Kinds, JobKeeps
        DEF BeginImport, history, Importing

LEMMA InstallImportKeeps ==
    ASSUME IInv, NEW id \in Ids, NEW r \in Runner, InstallImport(id, r)
    PROVE  IInv'
<1> DEFINE x == [work[id][r] EXCEPT !.stage = IF tmp[id] = "none" THEN "failed" ELSE "installed"]
<1>1. /\ TypeOK /\ QueueIsServed /\ work[id][r].stage = "write" /\ Runs(id, r)
      /\ work[id][r] \in Work /\ tmp[id] \in Runner \cup {"none"} /\ db[id] \in Database
  BY DEF IInv, InstallImport, Runs, TypeOK
<1>2. /\ x \in Work /\ x.version = work[id][r].version
      /\ x.stage = IF tmp[id] = "none" THEN "failed" ELSE "installed"
      /\ work' = Put(id, r, x) /\ queue' = queue
  BY <1>1 DEF InstallImport, Put, TypeOK, Work, Stage, Importing
<1> HIDE DEF x
<1>3. OthersStay(id, r) /\ work'[id][r] = x
  BY <1>1, <1>2, PutStays
<1>4. /\ tmp' \in [Ids -> Runner \cup {"none"}] /\ tmp'[id] = "none"
      /\ \A o \in Ids \ {id} : tmp'[o] = tmp[o]
  BY <1>1 DEF InstallImport, TypeOK
<1>5. /\ db' \in [Ids -> Database]
      /\ db'[id] = IF tmp[id] = "none" THEN Closed(id, r) ELSE Moved(id, r)
      /\ \A o \in Ids \ {id} : db'[o] = db[o]
  <2>1. Closed(id, r) \in Database
    BY <1>1 DEF Closed, Database
  <2>2. ASSUME tmp[id] # "none"
        PROVE  Moved(id, r) \in Database
    <3>1. tmp[id] \in Runner /\ work[id][tmp[id]] \in Work
      BY <1>1, <2>2 DEF TypeOK
    <3> QED BY <1>1, <3>1 DEF Moved, Database, Work
  <2> QED BY <1>1, <2>1, <2>2 DEF InstallImport, TypeOK
<1>6. SameElsewhere(id)
  BY <1>4, <1>5 DEF SameElsewhere, InstallImport, history
<1>7. MeetingsAreSeen'
  <2>1. \A o \in Ids, s \in Runner :
           /\ work'[o][s].stage \in Downloading => work[o][s].stage \in Downloading
           /\ work'[o][s].stage \in Importing => work[o][s].stage \in Importing
    <3> TAKE o \in Ids, s \in Runner
    <3>1. CASE o = id /\ s = r
      BY <3>1, <1>1, <1>2, <1>3 DEF Downloading, Importing
    <3>2. CASE ~(o = id /\ s = r)
      BY <3>2, <1>1, <1>2 DEF Put, TypeOK
    <3> QED BY <3>1, <3>2
  <2> QED BY <2>1, NoneMeets DEF IInv, InstallImport, history
<1>8. TypeOK'
  BY <1>1, <1>3, <1>4, <1>5 DEF TypeOK, OthersStay, InstallImport, history
<1>9. ASSUME id \notin met'
      PROVE  /\ Fits(id)' /\ x.stage = "installed"
             /\ \A s \in Runner \ {r} : work[id][s].stage \notin Importing
  <2>1. Fits(id) /\ id \notin met /\ part[id] \subseteq Runner
    BY <1>1, <1>6, <1>9 DEF IInv, SameElsewhere, TypeOK
  <2>2. \A s \in Runner \ {r} : work'[id][s] = work[id][s] /\ work[id][s].stage \notin Importing
    BY <1>1, <1>3, <2>1, Alone DEF OthersStay, IInv, Importing
  <2>3. tmp[id] = r /\ r # "none"
    BY <1>1, <2>1 DEF Fits, FilesFollowJobs, Runner
  <2>4. db'[id] = [version |-> work[id][r].version, whole |-> TRUE, writer |-> "none"]
    BY <1>5, <2>3 DEF Moved
  <2>5. \A s \in part'[id] : work'[id][s].stage = "transfer"
    BY <1>1, <2>1, <2>2 DEF Fits, FilesFollowJobs, InstallImport
  <2>6. \A s \in Runner : tmp'[id] = s <=> work'[id][s].stage = "write"
    BY <1>2, <1>3, <1>4, <2>2, <2>3 DEF Importing, Runner
  <2>7. \A s \in Runner : work'[id][s].stage = "installed" => s = r
    BY <2>2 DEF Importing
  <2>8. FilesFollowJobs(id)'
    <3>1. work'[id][r].version = work[id][r].version
      BY <1>2, <1>3
    <3>2. db'[id].writer = "none"
      BY <2>4
    <3>3. \A s \in Runner : work'[id][s].stage = "installed" =>
             db'[id] = [version |-> work'[id][s].version, whole |-> TRUE, writer |-> "none"]
      BY <2>4, <2>7, <3>1
    <3> QED BY <2>5, <2>6, <3>2, <3>3 DEF FilesFollowJobs
  <2> QED BY <1>2, <2>1, <2>2, <2>3, <2>4, <2>8 DEF Fits, FilesAreWhole, InstallImport
<1>10. Reaches(id)'
  <2> SUFFICES ASSUME id \in listed', id \notin dropped', id \notin met', id \notin leftOver',
                      source'[id].version # 0
               PROVE  Pending(id)'
    BY DEF Reaches
  <2>1. Pending(id)
    BY <1>1 DEF IInv, Reaches, Settled, Importing, InstallImport, history
  <2>2. CASE ImportWaits(id)
    BY <1>2, <2>2 DEF Pending, ImportWaits
  <2>3. CASE work[id][r].version = source[id].version
    BY <1>2, <1>3, <1>9, <2>3 DEF Pending, InstallImport
  <2> QED BY <1>1, <1>9, <2>1, <2>2, <2>3 DEF Pending, Importing
<1> QED BY <1>1, <1>2, <1>3, <1>6, <1>7, <1>8, <1>9, <1>10, Kinds, JobKeeps
        DEF InstallImport, history, Importing

(* What gives a database up leaves of it, where none has met.                *)
LEMMA AbandonedFile ==
    ASSUME TypeOK, NEW id \in Ids, NEW r \in Runner
    PROVE  /\ Abandoned(id, r) \in Database
           /\ db[id].writer = "none" => Abandoned(id, r) = db[id]
<1>1. db[id] \in Database /\ r # "none"
  BY DEF TypeOK, Runner
<1> QED BY <1>1 DEF Abandoned, Database

LEMMA FailImportKeeps ==
    ASSUME IInv, NEW id \in Ids, NEW r \in Runner, FailImport(id, r)
    PROVE  IInv'
<1> DEFINE x == [work[id][r] EXCEPT !.stage = "failed"]
<1>1. /\ TypeOK /\ QueueIsServed /\ work[id][r].stage \in {"import", "write"} /\ Runs(id, r)
      /\ work[id][r] \in Work
  BY DEF IInv, FailImport, Runs, TypeOK
<1>2. /\ x \in Work /\ x.stage = "failed"
      /\ work' = Put(id, r, x) /\ queue' = queue
  BY <1>1 DEF FailImport, Put, TypeOK, Work, Stage, Importing
<1> HIDE DEF x
<1>3. OthersStay(id, r) /\ work'[id][r] = x
  BY <1>1, <1>2, PutStays
<1>4. /\ tmp' \in [Ids -> Runner \cup {"none"}] /\ tmp'[id] = "none"
      /\ \A o \in Ids \ {id} : tmp'[o] = tmp[o]
  BY <1>1 DEF FailImport, TypeOK
<1>5. /\ db' \in [Ids -> Database] /\ db'[id] = Abandoned(id, r)
      /\ \A o \in Ids \ {id} : db'[o] = db[o]
  BY <1>1, AbandonedFile DEF FailImport, TypeOK
<1>6. SameElsewhere(id)
  BY <1>4, <1>5 DEF SameElsewhere, FailImport
<1>7. MeetingsAreSeen'
  <2>1. \A o \in Ids, s \in Runner :
           /\ work'[o][s].stage \in Downloading => work[o][s].stage \in Downloading
           /\ work'[o][s].stage \in Importing => work[o][s].stage \in Importing
    <3> TAKE o \in Ids, s \in Runner
    <3>1. CASE o = id /\ s = r
      BY <3>1, <1>1, <1>2, <1>3 DEF Downloading, Importing
    <3>2. CASE ~(o = id /\ s = r)
      BY <3>2, <1>1, <1>2 DEF Put, TypeOK
    <3> QED BY <3>1, <3>2
  <2> QED BY <2>1, NoneMeets DEF IInv, FailImport
<1>8. TypeOK'
  BY <1>1, <1>3, <1>4, <1>5, MaxFaultsAssumption DEF TypeOK, OthersStay, FailImport, Faulty
<1>9. ASSUME id \notin met'
      PROVE  Fits(id)'
  <2>1. Fits(id) /\ id \notin met /\ part[id] \subseteq Runner
    BY <1>1, <1>6, <1>9 DEF IInv, SameElsewhere, TypeOK
  <2>2. \A s \in Runner \ {r} : work'[id][s] = work[id][s] /\ work[id][s].stage \notin Importing
    BY <1>1, <1>3, <2>1, Alone DEF OthersStay, IInv, Importing
  <2>3. db'[id] = db[id]
    BY <1>1, <1>5, <2>1, AbandonedFile DEF Fits, FilesFollowJobs
  <2>4. \A s \in part'[id] : work'[id][s].stage = "transfer"
    BY <1>1, <2>1, <2>2 DEF Fits, FilesFollowJobs, FailImport
  <2>5. \A s \in Runner : work'[id][s].stage \notin {"write", "installed"}
    BY <1>2, <1>3, <2>2 DEF Importing
  <2>6. \A s \in Runner : tmp'[id] # s
    BY <1>4 DEF Runner
  <2> QED BY <2>1, <2>3, <2>4, <2>5, <2>6 DEF Fits, FilesFollowJobs, FilesAreWhole, FailImport
<1>10. Reaches(id)'
  BY <1>2, <1>3 DEF Reaches, Pending
<1> QED BY <1>1, <1>2, <1>3, <1>6, <1>7, <1>8, <1>9, <1>10, Kinds, JobKeeps
        DEF FailImport, Importing

LEMMA ImportResultKeeps ==
    ASSUME IInv, NEW id \in Ids, NEW r \in Runner, ImportResult(id, r)
    PROVE  IInv'
<1> DEFINE w == work[id][r]
           applied == w.stage = "installed" /\ r # "left" /\ id \in listed
           current == /\ applied /\ w.version = source[id].version
                      /\ \A other \in Runner \ {r} : ~Runs(id, other)
<1>1. /\ TypeOK /\ QueueIsServed /\ w.stage \in {"installed", "failed"} /\ Runs(id, r)
      /\ w \in Work
  BY DEF IInv, ImportResult, Runs, TypeOK
<1>2. /\ imported' = IF applied THEN [imported EXCEPT ![id] = w.version] ELSE imported
      /\ dropped' = IF current THEN dropped \ {id}
                    ELSE IF w.stage = "failed" THEN dropped \cup {id} ELSE dropped
      /\ leftOver' = IF current THEN leftOver \ {id} ELSE leftOver
  BY DEF ImportResult
<1>3. /\ OthersStay(id, r)
      /\ work'[id][r].stage \in {"none"} \cup Kind(id)
      /\ id \in listed /\ ImportWaits(id) =>
            ImportWaits(id)' \/ work'[id]["dialog"].stage = "import"
  BY <1>1, EndStays DEF ImportResult
<1>4. /\ imported' \in [Ids -> Version]
      /\ imported'[id] = IF applied THEN w.version ELSE imported[id]
      /\ \A o \in Ids \ {id} : imported'[o] = imported[o]
  BY <1>1, <1>2 DEF TypeOK, Work
<1>5. SameElsewhere(id) /\ MeetingsAreSeen'
  BY <1>2, <1>4, Observed DEF SameElsewhere, ImportResult, files
<1>6. TypeOK'
  BY <1>1, <1>2, <1>3, <1>4, SharedTypes
     DEF TypeOK, OthersStay, ImportResult, files, ObserveSharing
<1>7. ASSUME id \notin met'
      PROVE  Fits(id)'
  <2>1. Fits(id) /\ id \notin met /\ part[id] \subseteq Runner
    BY <1>1, <1>5, <1>7 DEF IInv, SameElsewhere, TypeOK
  <2>2. \A s \in Runner : \/ work'[id][s] = work[id][s]
                          \/ /\ work[id][s].stage # "write"
                             /\ work'[id][s].stage \notin {"write", "installed"}
    BY Kinds, <1>1, <1>3 DEF OthersStay
  <2>3. \A s \in part'[id] : work'[id][s].stage = "transfer"
    BY <1>1, <1>3, <2>1 DEF Fits, FilesFollowJobs, ImportResult, files, OthersStay
  <2> QED BY <2>1, <2>2, <2>3, FitsKept DEF ImportResult, files, Fits, FilesAreWhole
<1>8. Reaches(id)'
  <2> SUFFICES ASSUME id \in listed', id \notin dropped', id \notin met', id \notin leftOver',
                      source'[id].version # 0
               PROVE  Pending(id)' \/ Settled(id)'
    BY DEF Reaches
  <2>1. /\ id \in listed /\ id \notin met /\ source[id].version # 0
        /\ source' = source /\ db' = db
    BY <1>5 DEF ImportResult, files, SameElsewhere
  <2>2. Fits(id) /\ \A s \in Runner \ {r} : work[id][s].stage \notin Importing
    BY <1>1, <2>1, Alone DEF IInv, Importing
  <2>3. \A s \in Runner : work'[id][s].stage \notin Importing \ {"import"}
    <3> TAKE s \in Runner
    <3>1. CASE s = r
      BY <1>3, <3>1, Kinds DEF Importing
    <3>2. CASE s # r
      BY <1>3, <2>2, <3>2 DEF OthersStay
    <3> QED BY <3>1, <3>2
  <2>4. CASE \E s \in Runner : work'[id][s].stage = "import"
    BY <2>4 DEF Pending
  <2>5. CASE \A s \in Runner : work'[id][s].stage # "import"
    <3>1. \A s \in Runner : work'[id][s].stage \notin Importing
      BY <2>3, <2>5
    <3>2. CASE applied /\ w.version = source[id].version
      <4>1. /\ imported'[id] = source'[id].version
            /\ db'[id] = [version |-> source'[id].version, whole |-> TRUE, writer |-> "none"]
        BY <1>1, <1>4, <2>1, <2>2, <3>2 DEF Fits, FilesFollowJobs
      <4> QED BY <3>1, <4>1 DEF Settled, UpToDateStore
    <3>3. CASE ~(applied /\ w.version = source[id].version)
      <4>1. /\ dropped' = IF w.stage = "failed" THEN dropped \cup {id} ELSE dropped
            /\ leftOver' = leftOver
        BY <1>2, <3>3
      <4>2. w.stage = "installed" /\ id \notin dropped /\ id \notin leftOver
        BY <1>1, <4>1
      <4>3. r # "left"
        BY <1>1, <4>2 DEF IInv, LeftIsLeftOver
      <4>4. Pending(id)
        BY <1>1, <2>1, <4>2 DEF IInv, Reaches, Settled, Importing
      <4>5. ImportWaits(id)
        <5> HIDE DEF w
        <5>1. w.version # source[id].version
          BY <2>1, <3>3, <4>2, <4>3
        <5>2. \A s \in Runner : work[id][s].stage \in Importing => s = r
          BY <2>2
        <5>3. work[id][r].stage = "installed" /\ work[id][r].version # source[id].version
          BY <4>2, <5>1 DEF w
        <5> QED BY <4>4, <5>2, <5>3 DEF Pending, Importing
      <4> QED BY <1>3, <2>1, <2>5, <4>5 DEF Pending, Runner
    <3> QED BY <3>2, <3>3
  <2> QED BY <2>4, <2>5
<1>9. id \in leftOver => id \in leftOver' \/ ~Runs(id, "left")
  BY <1>2 DEF Runner
<1>10. id \in Lists => work'[id][r].stage \in {"none"} \cup Importing
  BY <1>3, Kinds DEF Importing
<1> HIDE DEF w, applied, current
<1> QED BY <1>1, <1>3, <1>5, <1>6, <1>7, <1>8, <1>9, <1>10, JobKeeps

LEMMA KillKeeps ==
    ASSUME IInv, NEW id \in Ids, NEW r \in Runner, NEW clears \in BOOLEAN,
           Kill(id, r, clears)
    PROVE  IInv'
<1> DEFINE stage == work[id][r].stage
           q == IF clears THEN <<>> ELSE queue
           lost == {queue[i].id : i \in DOMAIN queue}
<1>1. /\ TypeOK /\ QueueIsServed /\ Runs(id, r) /\ queue \in Seq(Task) /\ q \in Seq(Task)
      /\ lost \subseteq Ids
  <2>1. queue \in Seq(Task)
    BY DEF IInv, TypeOK
  <2>2. \A i \in DOMAIN queue : queue[i] \in Task
    BY <2>1
  <2> QED BY <2>1, <2>2, Kinds DEF IInv, Kill
<1>2. /\ part' = IF stage \in Downloading THEN [part EXCEPT ![id] = {}] ELSE part
      /\ tmp' = IF stage = "write" THEN [tmp EXCEPT ![id] = "none"] ELSE tmp
      /\ db' = [db EXCEPT ![id] = Abandoned(id, r)]
      /\ dropped' = dropped \cup {id} \cup (IF clears THEN lost ELSE {})
      /\ EndedInError(id, r, q)
  BY DEF Kill
<1>3. /\ OthersStay(id, r)
      /\ work'[id][r].stage \in {"none"} \cup Kind(id)
  <2>1. CASE r = "dialog"
    <3>1. Answered(id, q)
      BY <1>2, <2>1 DEF EndedInError
    <3>2. ASSUME NEW o \in listed \ {id}, NEW i \in DOMAIN queue,
                 queue[i] = [id |-> o, kind |-> "import"], o \notin dropped'
          PROVE  \E j \in DOMAIN q : q[j] = queue[i]
      <4>1. queue[i].id = o
        BY <3>2
      <4>2. ~clears
        BY <1>2, <3>2, <4>1
      <4> QED BY <3>2, <4>2
    <3> HIDE DEF q
    <3> QED BY <1>1, <2>1, <3>1, <3>2, AnsweredStays
  <2>2. CASE r # "dialog"
    <3>1. work' = Put(id, r, NoWork) /\ queue' = queue
      BY <1>2, <2>2 DEF EndedInError
    <3> QED BY <1>1, <2>2, <3>1, PutStays, Kinds
  <2> QED BY <2>1, <2>2
<1>4. /\ part' \in [Ids -> SUBSET Runner]
      /\ part'[id] = IF stage \in Downloading THEN {} ELSE part[id]
      /\ \A o \in Ids \ {id} : part'[o] = part[o]
  BY <1>1, <1>2 DEF TypeOK
<1>5. /\ tmp' \in [Ids -> Runner \cup {"none"}]
      /\ tmp'[id] = IF stage = "write" THEN "none" ELSE tmp[id]
      /\ \A o \in Ids \ {id} : tmp'[o] = tmp[o]
  BY <1>1, <1>2 DEF TypeOK
<1>6. /\ db' \in [Ids -> Database] /\ db'[id] = Abandoned(id, r)
      /\ \A o \in Ids \ {id} : db'[o] = db[o]
  BY <1>1, <1>2, AbandonedFile DEF TypeOK
<1>7. SameElsewhere(id) /\ MeetingsAreSeen'
  BY <1>2, <1>4, <1>5, <1>6, Observed DEF SameElsewhere, Kill
<1>8. TypeOK'
  <2>1. dropped' \subseteq Ids
    BY <1>1, <1>2 DEF TypeOK
  <2> HIDE DEF q, lost, stage
  <2> QED BY <1>1, <1>3, <1>4, <1>5, <1>6, <2>1, SharedTypes, MaxFaultsAssumption
          DEF TypeOK, OthersStay, Kill, ObserveSharing, Faulty
<1>9. ASSUME id \notin met'
      PROVE  Fits(id)'
  <2>1. Fits(id) /\ id \notin met /\ part[id] \subseteq Runner
    BY <1>1, <1>7, <1>9 DEF IInv, SameElsewhere, TypeOK
  <2>2. db'[id] = db[id]
    BY <1>1, <1>6, <2>1, AbandonedFile DEF Fits, FilesFollowJobs
  <2>3. work'[id][r].stage \notin {"transfer", "write", "installed"}
    BY <1>3, Kinds
  <2>4. \A s \in Runner \ {r} : work'[id][s] = work[id][s]
    BY <1>3 DEF OthersStay
  <2>5. \A s \in part'[id] : work'[id][s].stage = "transfer"
    BY <1>4, <2>1, <2>4 DEF Fits, FilesFollowJobs, Downloading
  <2>6. \A s \in Runner : tmp'[id] = s <=> work'[id][s].stage = "write"
    <3>1. CASE stage = "write"
      <4>1. \A s \in Runner \ {r} : work[id][s].stage # "write"
        BY <2>1, <3>1, Alone DEF IInv, Importing
      <4> QED BY <1>5, <2>3, <2>4, <3>1, <4>1 DEF Runner
    <3>2. CASE stage # "write"
      <4>1. tmp'[id] = tmp[id] /\ tmp[id] # r
        BY <1>5, <2>1, <3>2 DEF Fits, FilesFollowJobs
      <4> QED BY <2>1, <2>3, <2>4, <4>1 DEF Fits, FilesFollowJobs
    <3> QED BY <3>1, <3>2
  <2>7. \A s \in Runner : work'[id][s].stage = "installed" =>
           db'[id] = [version |-> work'[id][s].version, whole |-> TRUE, writer |-> "none"]
    BY <2>1, <2>2, <2>3, <2>4 DEF Fits, FilesFollowJobs
  <2> QED BY <2>1, <2>2, <2>5, <2>6, <2>7 DEF Fits, FilesFollowJobs, FilesAreWhole, Kill
<1>10. Reaches(id)'
  BY <1>2 DEF Reaches
<1>11. id \in Lists => work'[id][r].stage \in {"none"} \cup Importing
  BY <1>3, Kinds DEF Importing
<1>12. leftOver' = leftOver
  BY DEF Kill
<1> HIDE DEF stage, q, lost
<1> QED BY <1>1, <1>3, <1>7, <1>8, <1>9, <1>10, <1>11, <1>12, JobKeeps
-----------------------------------------------------------------------------
(* The dialog, and the checks of Application.                                *)

LEMMA EnqueuedStays ==
    ASSUME TypeOK, QueueIsServed, ListsAreImported,
           NEW id \in listed, NEW kind \in Kind(id),
           Enqueued([id |-> id, kind |-> kind])
    PROVE  /\ OthersStay(id, "dialog")
           /\ work'[id]["dialog"] = work[id]["dialog"] \/ Starts(id, "dialog")
           /\ ImportWaits(id) => ImportWaits(id)' \/ work'[id]["dialog"].stage = "import"
           /\ kind = "import" => ImportWaits(id)' \/ work'[id]["dialog"].stage = "import"
           /\ id \in Lists => work'[id]["dialog"].stage \in {"none"} \cup Importing
<1> DEFINE task == [id |-> id, kind |-> kind]
           q == Append(queue, task)
<1>1. /\ id \in Ids /\ task \in Task /\ queue \in Seq(Task) /\ q \in Seq(Task)
      /\ work \in [Ids -> [Runner -> Work]]
      /\ \A i \in DOMAIN queue : i \in DOMAIN q /\ q[i] = queue[i]
      /\ \E i \in DOMAIN q : q[i] = task
  <2>1. id \in Ids /\ task \in Task /\ queue \in Seq(Task)
    BY Kinds DEF TypeOK
  <2>2. /\ q \in Seq(Task) /\ Len(q) = Len(queue) + 1 /\ Len(queue) \in Nat
        /\ DOMAIN q = 1 .. Len(q) /\ DOMAIN queue = 1 .. Len(queue)
        /\ \A i \in 1 .. Len(queue) : q[i] = queue[i]
        /\ q[Len(queue) + 1] = task
    <3> HIDE DEF task
    <3> QED BY <2>1
  <2> HIDE DEF q, task
  <2>3. Len(queue) + 1 \in DOMAIN q
    BY <2>2
  <2>4. \A i \in DOMAIN queue : i \in DOMAIN q /\ q[i] = queue[i]
    BY <2>2
  <2>5. work \in [Ids -> [Runner -> Work]]
    BY DEF TypeOK
  <2> QED BY <2>1, <2>2, <2>3, <2>4, <2>5
<1>2. CASE DialogRuns = {}
  <2>1. \A o \in Ids : work[o]["dialog"].stage = "none"
    BY <1>2 DEF DialogRuns, Runs
  <2>2. StartNextTask(q, work)
    BY <1>2 DEF Enqueued
  <2>3. TaskStarted(q, work)
    <3> HIDE DEF q
    <3> QED BY <1>1, <2>1, <2>2, NextStarts
  <2>4. \A o \in Ids, s \in Runner : work'[o][s] = work[o][s] \/ Starts(o, s)
    BY <2>1, <2>3 DEF TaskStarted, Starts
  <2>5. \A o \in listed : ImportWaits(o) =>
           ImportWaits(o)' \/ work'[o]["dialog"].stage = "import"
    <3> HIDE DEF q
    <3> QED BY <1>1, <2>3 DEF TaskStarted, ImportWaits
  <2>6. kind = "import" => ImportWaits(id)' \/ work'[id]["dialog"].stage = "import"
    <3> HIDE DEF q
    <3> QED BY <1>1, <2>3 DEF TaskStarted
  <2>7. \A s \in Runner \ {"dialog"} : work'[id][s] = work[id][s]
    BY <1>1, <2>3 DEF TaskStarted
  <2>8. id \in Lists => work'[id]["dialog"].stage \in {"none"} \cup Importing
    BY <1>1, <2>1, <2>4, Kinds DEF Starts, Importing, Runner
  <2> HIDE DEF q
  <2> QED BY <1>1, <2>3, <2>4, <2>5, <2>6, <2>7, <2>8 DEF OthersStay, TaskStarted, Runner
<1>3. CASE DialogRuns # {}
  <2>1. queue' = q /\ work' = work
    BY <1>3 DEF Enqueued
  <2>2. QueueIsServed'
    BY <1>3, <2>1 DEF QueueIsServed, DialogRuns, Runs
  <2> HIDE DEF q
  <2>3. \A o \in listed : ImportWaits(o) => ImportWaits(o)'
    BY <1>1, <2>1 DEF ImportWaits
  <2>4. kind = "import" => ImportWaits(id)'
    BY <1>1, <2>1 DEF ImportWaits
  <2>5. id \in Lists => work'[id]["dialog"].stage \in {"none"} \cup Importing
    BY <1>1, <2>1 DEF ListsAreImported, Runner, Work, Stage
  <2> QED BY <1>1, <2>1, <2>2, <2>3, <2>4, <2>5 DEF OthersStay
<1> QED BY <1>2, <1>3

LEMMA EnqueueKeeps ==
    ASSUME IInv, NEW id \in Ids, NEW kind \in {"check", "request", "import"},
           Enqueue(id, kind)
    PROVE  IInv'
<1>1. /\ TypeOK /\ QueueIsServed /\ ListsAreImported /\ id \in listed /\ kind \in Kind(id)
      /\ Enqueued([id |-> id, kind |-> kind])
  BY DEF IInv, Enqueue, Kind
<1>2. /\ OthersStay(id, "dialog")
      /\ work'[id]["dialog"] = work[id]["dialog"] \/ Starts(id, "dialog")
      /\ ImportWaits(id) => ImportWaits(id)' \/ work'[id]["dialog"].stage = "import"
      /\ id \in Lists => work'[id]["dialog"].stage \in {"none"} \cup Importing
  BY <1>1, EnqueuedStays
<1>3. SameElsewhere(id) /\ MeetingsAreSeen'
  BY Observed DEF SameElsewhere, Enqueue, files
<1>4. TypeOK'
  BY <1>1, <1>2, SharedTypes DEF TypeOK, OthersStay, Enqueue, files, ObserveSharing
<1>5. ASSUME id \notin met'
      PROVE  Fits(id)'
  <2>1. Fits(id) /\ part[id] \subseteq Runner
    BY <1>1, <1>3, <1>5 DEF IInv, SameElsewhere, TypeOK
  <2>2. \A s \in Runner : \/ work'[id][s] = work[id][s]
                          \/ /\ work[id][s].stage = "none"
                             /\ work'[id][s].stage \notin {"write", "installed"}
    BY Kinds, <1>2 DEF OthersStay, Starts
  <2>3. \A s \in part'[id] : work'[id][s].stage = "transfer"
    BY <2>1, <2>2 DEF Fits, FilesFollowJobs, Enqueue, files
  <2> QED BY <2>1, <2>2, <2>3, FitsKept DEF Enqueue, files, Fits, FilesAreWhole
<1>6. Reaches(id)'
  <2>1. Reaches(id)
    BY DEF IInv
  <2>2. \A s \in Runner : \/ work'[id][s] = work[id][s]
                          \/ /\ work[id][s].stage \notin Importing
                             /\ work'[id][s].stage \notin Importing \ {"import"}
    BY Kinds, <1>2 DEF OthersStay, Starts, Importing
  <2> QED BY <1>2, <1>3, <2>1, <2>2, ReachesKept DEF Enqueue, files, SameElsewhere
<1> QED BY <1>1, <1>2, <1>3, <1>4, <1>5, <1>6, JobKeeps DEF Enqueue, Runner

LEMMA AddCustomEntryKeeps ==
    ASSUME IInv, NEW id \in Ids, AddCustomEntry(id)
    PROVE  IInv'
<1>1. /\ TypeOK /\ QueueIsServed /\ ListsAreImported /\ id \in listed
      /\ "import" \in Kind(id) /\ Enqueued([id |-> id, kind |-> "import"])
      /\ source[id] \in Source
  BY DEF IInv, AddCustomEntry, ImportAppended, Kind, TypeOK
<1>2. /\ OthersStay(id, "dialog")
      /\ work'[id]["dialog"] = work[id]["dialog"] \/ Starts(id, "dialog")
      /\ ImportWaits(id)' \/ work'[id]["dialog"].stage = "import"
      /\ id \in Lists => work'[id]["dialog"].stage \in {"none"} \cup Importing
  BY <1>1, EnqueuedStays
<1>3. /\ source' \in [Ids -> Source] /\ source'[id].whole
      /\ \A o \in Ids \ {id} : source'[o] = source[o]
  <2> DEFINE x == [version |-> source[id].version + 1, whole |-> TRUE, stamp |-> 0]
  <2>1. x \in Source /\ x.whole
    BY <1>1 DEF Source, Version
  <2>2. source' = [source EXCEPT ![id] = x]
    BY DEF AddCustomEntry
  <2> HIDE DEF x
  <2> QED BY <1>1, <2>1, <2>2 DEF TypeOK
<1>4. SameElsewhere(id) /\ MeetingsAreSeen'
  BY <1>3, Observed DEF SameElsewhere, AddCustomEntry
<1>5. TypeOK'
  BY <1>1, <1>2, <1>3, SharedTypes DEF TypeOK, OthersStay, AddCustomEntry, ObserveSharing
<1>6. ASSUME id \notin met'
      PROVE  Fits(id)'
  <2>1. Fits(id) /\ part[id] \subseteq Runner
    BY <1>1, <1>4, <1>6 DEF IInv, SameElsewhere, TypeOK
  <2>2. \A s \in Runner : \/ work'[id][s] = work[id][s]
                          \/ /\ work[id][s].stage = "none"
                             /\ work'[id][s].stage \notin {"write", "installed"}
    <3>1. \/ work'[id]["dialog"] = work[id]["dialog"]
          \/ /\ work[id]["dialog"].stage = "none"
             /\ work'[id]["dialog"].stage \in {"check", "request", "import"}
      BY Kinds, <1>2 DEF Starts
    <3> QED BY <1>2, <3>1 DEF OthersStay
  <2>3. \A s \in part'[id] : work'[id][s].stage = "transfer"
    BY <2>1, <2>2 DEF Fits, FilesFollowJobs, AddCustomEntry
  <2> QED BY <1>3, <2>1, <2>2, <2>3, FitsKept DEF AddCustomEntry
<1>7. Reaches(id)'
  BY <1>2 DEF Reaches, Pending, Runner
<1> QED BY <1>1, <1>2, <1>4, <1>5, <1>6, <1>7, JobKeeps DEF AddCustomEntry, Runner

LEMMA CheckUpdatesKeeps ==
    ASSUME IInv, NEW id \in Ids, CheckUpdates(id)
    PROVE  IInv'
<1> DEFINE x == Created("check")
<1>1. /\ TypeOK /\ QueueIsServed /\ id \notin Lists
      /\ work[id]["app"].stage = "none" /\ "app" \in Runner
      /\ x \in Work /\ x.stage = "check"
      /\ work' = Put(id, "app", x) /\ queue' = queue
  BY Kinds, DisjointAssumption DEF IInv, CheckUpdates, Runs, Runner
<1> HIDE DEF x
<1>2. OthersStay(id, "app") /\ work'[id]["app"] = x
  BY <1>1, PutStays
<1>3. SameElsewhere(id)
  BY DEF SameElsewhere, CheckUpdates, files, history
<1>4. MeetingsAreSeen'
  <2>1. \A o \in Ids, s \in Runner :
           /\ work'[o][s].stage \in Downloading => work[o][s].stage \in Downloading
           /\ work'[o][s].stage \in Importing => work[o][s].stage \in Importing
    <3> TAKE o \in Ids, s \in Runner
    <3>1. CASE o = id /\ s = "app"
      BY <3>1, <1>1, <1>2 DEF Downloading, Importing
    <3>2. CASE ~(o = id /\ s = "app")
      BY <3>2, <1>1 DEF Put, TypeOK
    <3> QED BY <3>1, <3>2
  <2> QED BY <2>1, NoneMeets DEF IInv, CheckUpdates, history
<1>5. TypeOK'
  BY <1>1, <1>2 DEF TypeOK, OthersStay, CheckUpdates, files, history
<1>6. \A s \in Runner : work'[id][s] = work[id][s] \/ (work[id][s].stage = "none" /\ work'[id][s].stage = "check")
  BY <1>1, <1>2 DEF OthersStay
<1>7. ASSUME id \notin met'
      PROVE  Fits(id)'
  <2>1. Fits(id) /\ part[id] \subseteq Runner
    BY <1>1, <1>3, <1>7 DEF IInv, SameElsewhere, TypeOK
  <2>2. \A s \in part'[id] : work'[id][s].stage = "transfer"
    BY <1>6, <2>1 DEF Fits, FilesFollowJobs, CheckUpdates, files
  <2> QED BY <1>6, <2>1, <2>2, FitsKept DEF CheckUpdates, files, Fits, FilesAreWhole
<1>8. Reaches(id)'
  <2>1. Reaches(id)
    BY DEF IInv
  <2>2. ImportWaits(id) => ImportWaits(id)'
    BY <1>1 DEF ImportWaits
  <2>3. \A s \in Runner : \/ work'[id][s] = work[id][s]
                          \/ /\ work[id][s].stage \notin Importing
                             /\ work'[id][s].stage \notin Importing \ {"import"}
    BY <1>6 DEF Importing
  <2> QED BY <2>1, <2>2, <2>3, ReachesKept DEF CheckUpdates, files, history
<1> QED BY <1>1, <1>2, <1>3, <1>4, <1>5, <1>7, <1>8, JobKeeps DEF CheckUpdates, history

LEMMA RemoveKeeps ==
    ASSUME IInv, NEW id \in Ids, Remove(id)
    PROVE  IInv'
<1>1. TypeOK /\ QueueIsServed /\ "dialog" \in Runner /\ work' = work /\ queue' = queue
  BY DEF IInv, Remove, Runner
<1>2. OthersStay(id, "dialog")
  <2>1. QueueIsServed'
    BY <1>1 DEF QueueIsServed, DialogRuns, Runs
  <2> QED BY <1>1, <2>1 DEF OthersStay, TypeOK, ImportWaits
<1>3. /\ db' \in [Ids -> Database] /\ db'[id] = NoDatabase
      /\ \A o \in Ids \ {id} : db'[o] = db[o]
  <2>1. NoDatabase \in Database
    BY DEF NoDatabase, Database, Version
  <2> QED BY <1>1, <2>1 DEF Remove, TypeOK
<1>4. imported' \in [Ids -> Version] /\ \A o \in Ids \ {id} : imported'[o] = imported[o]
  BY <1>1 DEF Remove, TypeOK, Version
<1>5. SameElsewhere(id)
  BY <1>3, <1>4 DEF SameElsewhere, Remove
<1>6. MeetingsAreSeen'
  BY <1>1, <1>5, NoneMeets DEF IInv, SameElsewhere
<1>7. TypeOK'
  BY <1>1, <1>3, <1>4, MaxFaultsAssumption DEF TypeOK, Remove, Faulty
<1>8. ASSUME id \notin met'
      PROVE  Fits(id)'
  <2>1. Fits(id)
    BY <1>5, <1>8 DEF IInv, SameElsewhere
  <2>2. \A s \in Runner : work[id][s].stage \notin Importing
    BY <1>8 DEF Remove
  <2>3. \A s \in Runner : work'[id][s].stage # "installed"
    BY <1>1, <2>2 DEF Importing
  <2>4. db'[id].writer = "none"
    BY <1>3 DEF NoDatabase
  <2> QED BY <1>1, <1>3, <2>1, <2>3, <2>4 DEF Fits, FilesFollowJobs, FilesAreWhole, Remove
<1>9. Reaches(id)'
  BY DEF Reaches, Remove
<1>10. id \in Lists => work'[id]["dialog"].stage \in {"none"} \cup Importing
  BY <1>1 DEF IInv, ListsAreImported, TypeOK, Work, Stage
<1> QED BY <1>1, <1>2, <1>5, <1>6, <1>7, <1>8, <1>9, <1>10, JobKeeps DEF Remove

(* The server and the window change nothing the jobs and files depend on.    *)
LEMMA Untouched ==
    ASSUME IInv, TypeOK',
           UNCHANGED <<source, part, tmp, db, work, queue, listed, imported, dropped, leftOver, met>>
    PROVE  IInv'
<1>1. QueueIsServed' /\ MeetingsAreSeen' /\ LeftIsLeftOver' /\ ListsAreImported'
  BY DEF IInv, QueueIsServed, DialogRuns, Runs, MeetingsAreSeen, Shared, LeftIsLeftOver,
         ListsAreImported
<1>2. \A id \in Ids \ met' : Fits(id)'
  BY DEF IInv, Fits, FilesFollowJobs, FilesAreWhole
<1>3. ASSUME NEW id \in Ids
      PROVE  Reaches(id)'
  <2>1. Reaches(id)
    BY DEF IInv
  <2>2. ImportWaits(id) => ImportWaits(id)'
    BY DEF ImportWaits
  <2> QED BY <2>1, <2>2, ReachesKept
<1> QED BY <1>1, <1>2, <1>3 DEF IInv

LEMMA PublishKeeps ==
    ASSUME IInv, NEW id \in Downloads, Publish(id)
    PROVE  IInv'
<1>1. server' \in [Downloads -> Version]
  BY DEF IInv, TypeOK, Publish, Version
<1>2. TypeOK'
  BY <1>1 DEF IInv, TypeOK, Publish, files, history
<1> QED BY <1>2, Untouched DEF Publish, files, history

LEMMA ReopenKeeps ==
    ASSUME IInv, Reopen
    PROVE  IInv'
<1>1. TypeOK'
  BY DEF IInv, TypeOK, Reopen, files, history
<1> QED BY <1>1, Untouched DEF Reopen, files, history

(* The job of the dialog goes on, with everything that was its own.          *)
LEMMA CloseKeeps ==
    ASSUME IInv, Close
    PROVE  IInv'
<1> DEFINE moved(owner, o) == IF o \in DialogRuns /\ owner = "dialog" THEN "left" ELSE owner
           lost == {queue[i].id : i \in DOMAIN queue}
<1>1. /\ TypeOK /\ queue' = <<>> /\ open' = FALSE
      /\ DialogRuns # {} => \A o \in Ids : work[o]["left"].stage = "none"
      /\ DialogRuns \subseteq Ids /\ lost \subseteq Ids
      /\ UNCHANGED <<server, source, listed, imported, dropped, met>>
      /\ leftOver' = leftOver \cup DialogRuns \cup lost
      /\ faults' \in 0 .. MaxFaults
  <2>1. queue \in Seq(Task)
    BY DEF IInv, TypeOK
  <2>2. \A i \in DOMAIN queue : queue[i].id \in Ids
    BY <2>1, Kinds
  <2>3. faults' \in 0 .. MaxFaults
    BY MaxFaultsAssumption DEF IInv, TypeOK, Close, Faulty
  <2>4. DialogRuns # {} => \A o \in Ids : work[o]["left"].stage = "none"
    BY DEF Close, Runs
  <2> QED BY <2>2, <2>3, <2>4 DEF IInv, Close, DialogRuns
<1>2. /\ "dialog" \in Runner /\ "left" \in Runner /\ "app" \in Runner
      /\ Runner = {"dialog", "app", "left"}
  BY DEF Runner
<1>3. /\ work' \in [Ids -> [Runner -> Work]]
      /\ \A o \in DialogRuns : /\ work'[o]["left"] = work[o]["dialog"]
                               /\ work'[o]["dialog"] = NoWork
                               /\ work'[o]["app"] = work[o]["app"]
      /\ \A o \in Ids \ DialogRuns : work'[o] = work[o]
  <2>1. work' = [o \in Ids |-> IF o \in DialogRuns
                               THEN [work[o] EXCEPT !["left"] = work[o]["dialog"],
                                                    !["dialog"] = NoWork]
                               ELSE work[o]]
    BY DEF Close, DialogRuns
  <2>2. NoWork \in Work /\ \A o \in Ids : work[o] \in [Runner -> Work]
    BY <1>1, Kinds DEF TypeOK
  <2> QED BY <1>1, <1>2, <2>1, <2>2
<1>4. /\ part' = [o \in Ids |-> {moved(owner, o) : owner \in part[o]}]
      /\ tmp' = [o \in Ids |-> moved(tmp[o], o)]
      /\ db' = [o \in Ids |-> [db[o] EXCEPT !.writer = moved(@, o)]]
  BY DEF Close
<1>5. \A o \in Ids : \A owner \in Runner : moved(owner, o) \in Runner
  BY <1>2
<1>6. part' \in [Ids -> SUBSET Runner] /\ tmp' \in [Ids -> Runner \cup {"none"}]
  <2>1. \A o \in Ids : part[o] \subseteq Runner /\ tmp[o] \in Runner \cup {"none"}
    BY <1>1 DEF TypeOK
  <2>2. \A o \in Ids : moved(tmp[o], o) \in Runner \cup {"none"}
    BY <1>2, <2>1
  <2>3. \A o \in Ids : {moved(owner, o) : owner \in part[o]} \subseteq Runner
    BY <1>5, <2>1
  <2> HIDE DEF moved
  <2> QED BY <1>4, <2>2, <2>3
<1>7. db' \in [Ids -> Database]
  <2>1. ASSUME NEW o \in Ids
        PROVE  [db[o] EXCEPT !.writer = moved(@, o)] \in Database
    <3>1. db[o] \in Database
      BY <1>1 DEF TypeOK
    <3>2. moved(db[o].writer, o) \in Runner \cup {"none"}
      BY <1>2, <3>1 DEF Database
    <3> HIDE DEF moved
    <3> QED BY <3>1, <3>2 DEF Database
  <2> HIDE DEF moved
  <2> QED BY <1>4, <2>1
<1>8. TypeOK'
  <2>1. leftOver' \subseteq Ids /\ queue' \in Seq(Task)
    BY <1>1 DEF TypeOK
  <2>2. dropped' = dropped
    BY DEF Close
  <2> HIDE DEF lost, moved
  <2> QED BY <1>1, <1>3, <1>6, <1>7, <2>1, <2>2 DEF TypeOK
<1>9. /\ \A o \in DialogRuns : work[o]["left"].stage = "none" /\ work'[o]["dialog"].stage = "none"
      /\ \A o \in Ids \ DialogRuns : work[o]["dialog"].stage = "none"
      /\ \A o \in Ids : work'[o]["dialog"].stage = "none"
  BY <1>1, <1>3, Kinds DEF DialogRuns, Runs
<1>10. QueueIsServed'
  BY <1>1, <1>9 DEF QueueIsServed, DialogRuns, Runs
<1>11. MeetingsAreSeen'
  <2> SUFFICES ASSUME NEW o \in Shared'
               PROVE  o \in met
    BY <1>1 DEF MeetingsAreSeen
  <2>1. o \in Ids
    BY DEF Shared
  <2>2. o \in Shared
    <3>1. CASE o \in DialogRuns
      <4>1. Meet(work[o]["app"], work[o]["dialog"])
        BY <1>3, <1>9, <3>1 DEF Shared, Meet, Downloading, Importing
      <4> QED BY <2>1, <4>1 DEF Shared, Meet
    <3>2. CASE o \notin DialogRuns
      BY <1>3, <2>1, <3>2 DEF Shared, Meet
    <3> QED BY <3>1, <3>2
  <2> QED BY <2>2 DEF IInv, MeetingsAreSeen
<1>12. LeftIsLeftOver'
  <2> SUFFICES ASSUME NEW o \in Ids, work'[o]["left"].stage # "none"
               PROVE  o \in leftOver'
    BY DEF LeftIsLeftOver, Runs
  <2>1. CASE o \in DialogRuns
    BY <1>1, <2>1
  <2>2. CASE o \notin DialogRuns
    BY <1>1, <1>3, <2>2 DEF IInv, LeftIsLeftOver, Runs
  <2> QED BY <2>1, <2>2
<1>13. ListsAreImported'
  <2> SUFFICES ASSUME NEW o \in Lists, NEW s \in Runner
               PROVE  work'[o][s].stage \notin {"check"} \cup Downloading
    BY DEF ListsAreImported
  <2>1. \A t \in Runner : work[o][t].stage \notin {"check"} \cup Downloading
    BY DEF IInv, ListsAreImported
  <2>2. o \in Ids /\ "none" \notin {"check"} \cup Downloading
    BY DEF Ids, Downloading
  <2> QED BY <1>2, <1>3, <1>9, <2>1, <2>2
<1>14. ASSUME NEW o \in Ids, o \notin met'
       PROVE  Fits(o)'
  <2>1. /\ Fits(o) /\ part[o] \subseteq Runner /\ db[o] \in Database
        /\ tmp[o] \in Runner \cup {"none"}
    BY <1>1, <1>14 DEF IInv, TypeOK
  <2>2. db'[o] = db[o] /\ source'[o] = source[o]
    <3>1. db[o].writer = "none"
      BY <2>1 DEF Fits, FilesFollowJobs
    <3>2. moved(db[o].writer, o) = db[o].writer
      BY <3>1
    <3>3. db'[o] = [db[o] EXCEPT !.writer = moved(db[o].writer, o)]
      BY <1>4
    <3> HIDE DEF moved
    <3> QED BY <1>1, <2>1, <3>2, <3>3 DEF Database
  <2>3. CASE o \notin DialogRuns
    <3>1. \A owner : moved(owner, o) = owner
      BY <2>3
    <3>2. part'[o] = part[o] /\ tmp'[o] = tmp[o] /\ work'[o] = work[o]
      <4> HIDE DEF moved
      <4> QED BY <1>3, <1>4, <2>3, <3>1
    <3>3. \A s \in part'[o] : work'[o][s].stage = "transfer"
      BY <2>1, <3>2 DEF Fits, FilesFollowJobs
    <3> QED BY <2>1, <2>2, <3>2, <3>3, FitsKept DEF Fits, FilesAreWhole
  <2>4. CASE o \in DialogRuns
    <3>1. /\ work'[o]["left"] = work[o]["dialog"] /\ work'[o]["app"] = work[o]["app"]
          /\ work'[o]["dialog"].stage = "none" /\ work[o]["left"].stage = "none"
      BY <1>3, <1>9, <2>4
    <3>2. ASSUME NEW s \in part'[o]
          PROVE  work'[o][s].stage = "transfer"
      <4>1. PICK owner \in part[o] : s = moved(owner, o)
        BY <1>4
      <4>2. owner \in Runner /\ work[o][owner].stage = "transfer"
        BY <2>1 DEF Fits, FilesFollowJobs
      <4> QED BY <1>2, <2>4, <3>1, <4>1, <4>2
    <3>3. tmp'[o] = moved(tmp[o], o)
      BY <1>4
    <3>4. \A s \in Runner : tmp[o] = s <=> work[o][s].stage = "write"
      BY <2>1 DEF Fits, FilesFollowJobs
    <3>5. \A s \in Runner : tmp'[o] = s <=> work'[o][s].stage = "write"
      BY <1>2, <2>4, <3>1, <3>3, <3>4
    <3>6. \A s \in Runner : work'[o][s].stage = "installed" =>
             db'[o] = [version |-> work'[o][s].version, whole |-> TRUE, writer |-> "none"]
      <4>1. \A s \in Runner : work[o][s].stage = "installed" =>
               db'[o] = [version |-> work[o][s].version, whole |-> TRUE, writer |-> "none"]
        BY <2>1, <2>2 DEF Fits, FilesFollowJobs
      <4> QED BY <1>2, <3>1, <4>1
    <3> QED BY <2>1, <2>2, <3>2, <3>5, <3>6 DEF Fits, FilesFollowJobs, FilesAreWhole
  <2> QED BY <2>3, <2>4
<1>15. ASSUME NEW o \in Ids
       PROVE  Reaches(o)'
  <2>1. Reaches(o)
    BY DEF IInv
  <2>2. CASE o \in leftOver'
    BY <2>2 DEF Reaches
  <2>3. CASE o \notin leftOver'
    <3>1. o \notin DialogRuns /\ ~ImportWaits(o)
      <4>1. o \notin DialogRuns /\ o \notin lost
        BY <1>1, <2>3
      <4> QED BY <4>1 DEF ImportWaits
    <3>2. work'[o] = work[o] /\ db'[o] = db[o]
      <4>1. \A owner : moved(owner, o) = owner
        BY <3>1
      <4>2. db'[o] = [db[o] EXCEPT !.writer = moved(db[o].writer, o)] /\ db[o] \in Database
        BY <1>1, <1>4 DEF TypeOK
      <4> HIDE DEF moved
      <4> QED BY <1>3, <3>1, <4>1, <4>2 DEF Database
    <3>3. o \in leftOver => o \in leftOver'
      BY <1>1
    <3>4. dropped' = dropped
      BY DEF Close
    <3> QED BY <1>1, <2>1, <3>1, <3>2, <3>3, <3>4, ReachesKept
  <2> QED BY <2>2, <2>3
<1> QED BY <1>8, <1>10, <1>11, <1>12, <1>13, <1>14, <1>15 DEF IInv
-----------------------------------------------------------------------------
LEMMA InitIInv == Init => IInv
<1> SUFFICES ASSUME Init
             PROVE  IInv
  OBVIOUS
<1>1. TypeOK
  <2>1. source \in [Ids -> Source]
    BY DEF Init, Source, NoSource, Version
  <2>2. db \in [Ids -> Database]
    BY DEF Init, Database, NoDatabase, Version
  <2>3. work \in [Ids -> [Runner -> Work]]
    BY Kinds DEF Init
  <2>4. imported \in [Ids -> Version]
    BY <2>1 DEF Init, Source
  <2> QED BY <2>1, <2>2, <2>3, <2>4, MaxFaultsAssumption DEF Init, TypeOK, Version
<1>2. \A id \in Ids, r \in Runner : work[id][r].stage = "none"
  BY Kinds DEF Init
<1>3. QueueIsServed /\ LeftIsLeftOver /\ ListsAreImported /\ MeetingsAreSeen
  BY <1>2 DEF Init, QueueIsServed, DialogRuns, Runs, LeftIsLeftOver, ListsAreImported,
              MeetingsAreSeen, Shared, Meet, Downloading, Importing, Runner, Ids
<1>4. ASSUME NEW id \in Ids
      PROVE  Fits(id) /\ Reaches(id)
  <2>1. /\ part[id] = {} /\ tmp[id] = "none" /\ db[id].writer = "none"
        /\ \A r \in Runner : r # "none"
    BY DEF Init, Runner, NoDatabase
  <2>2. /\ source[id].version # 0 => source[id].whole
        /\ db[id] # NoDatabase => db[id].whole
    BY DEF Init, NoSource
  <2>3. source[id].version # 0 => Settled(id)
    <3>1. \A r \in Runner : work[id][r].stage \notin Importing
      BY <1>2 DEF Importing
    <3>2. source[id].version # 0 => UpToDateStore(id)
      BY DEF Init, NoSource, UpToDateStore
    <3> QED BY <3>1, <3>2 DEF Settled
  <2> QED BY <1>2, <2>1, <2>2, <2>3 DEF Fits, FilesFollowJobs, FilesAreWhole, Reaches
<1> QED BY <1>1, <1>3, <1>4 DEF IInv

LEMMA StepIInv == IInv /\ [Next]_vars => IInv'
<1> SUFFICES ASSUME IInv, [Next]_vars
             PROVE  IInv'
  OBVIOUS
<1>1. CASE DialogStep
  BY <1>1, AddCustomEntryKeeps, RemoveKeeps, EnqueueKeeps, CloseKeeps, ReopenKeeps
     DEF DialogStep
<1>2. CASE \E id \in Ids : CheckUpdates(id)
  BY <1>2, CheckUpdatesKeeps
<1>3. CASE \E id \in Downloads : Publish(id)
  BY <1>3, PublishKeeps
<1>4. ASSUME NEW id \in Ids, NEW r \in Runner, JobStep(id, r)
      PROVE  IInv'
  BY <1>4, AnswerCheckKeeps, RequestKeeps, FinishDownloadKeeps, FailDownloadKeeps,
     BeginImportKeeps, InstallImportKeeps, FailImportKeeps, ImportResultKeeps, KillKeeps
     DEF JobStep
<1>5. CASE UNCHANGED vars
  <2>1. TypeOK'
    BY <1>5 DEF vars, files, history, IInv, TypeOK
  <2> QED BY <1>5, <2>1, Untouched DEF vars, files, history
<1> QED BY <1>1, <1>2, <1>3, <1>4, <1>5 DEF Next

LEMMA Inductive == Spec => []IInv
<1>1. Init => IInv
  BY InitIInv
<1>2. IInv /\ [Next]_vars => IInv'
  BY StepIInv
<1> QED BY <1>1, <1>2, PTL DEF Spec

(* For any number of dictionaries, queued tasks and faults, a task waits in  *)
(* the dialog only while one job of it runs (startNextTask()).               *)
THEOREM TasksAreServed == Spec => []QueueIsServed
<1>1. IInv => QueueIsServed
  BY DEF IInv
<1> QED BY <1>1, Inductive, PTL

(* Whatever is cancelled, cut, failed or closed, no import reads half a      *)
(* download (DictionaryDownloadJob) where no second job wrote it.            *)
THEOREM SourcesAreWhole == Spec => []SourceIsWhole
<1>1. IInv => SourceIsWhole
  BY DEF IInv, SourceIsWhole, Fits, FilesAreWhole
<1> QED BY <1>1, Inductive, PTL

(* Whatever is cancelled, failed, removed or closed, the file of a store is  *)
(* one its writer finished (StoreWriter), where no two jobs met.             *)
THEOREM StoresAreWhole == Spec => []InstalledIsWhole
<1>1. IInv => InstalledIsWhole
  BY DEF IInv, InstalledIsWhole, Fits, FilesAreWhole
<1> QED BY <1>1, Inductive, PTL

(* What was downloaded or appended is in the store once nothing works on it. *)
THEOREM WorkArrives == Spec => []WorkReachesStore
<1>1. IInv => WorkReachesStore
  <2> SUFFICES ASSUME IInv, NEW id \in listed \ (dropped \cup met \cup leftOver),
                      Quiet(id), source[id].version # 0
               PROVE  UpToDateStore(id)
    BY DEF WorkReachesStore
  <2>1. id \in Ids
    BY DEF IInv, TypeOK
  <2>2. Pending(id) \/ Settled(id)
    BY <2>1 DEF IInv, Reaches
  <2>3. ~ImportWaits(id)
    <3>1. ASSUME NEW i \in DOMAIN queue, queue[i] = [id |-> id, kind |-> "import"]
          PROVE  FALSE
      <4>1. queue[i].id = id
        BY <3>1
      <4> QED BY <4>1 DEF Quiet
    <3> QED BY <3>1 DEF ImportWaits
  <2> QED BY <2>2, <2>3 DEF Pending, Settled, Quiet, Runs
<1> QED BY <1>1, Inductive, PTL
=============================================================================
