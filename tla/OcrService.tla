----------------------------- MODULE OcrService -----------------------------
(* ocr::OcrService (src/src/ocr/ocrservice.cpp): recognition on one worker   *)
(* thread behind a mailbox of one request.  Two threads and three queues:    *)
(* the caller's thread puts a request in the mailbox under m_mutex and posts *)
(* a drain event to the worker, the worker's events run one at a time in the *)
(* order posted, and what the worker has to say is posted back to the        *)
(* caller's thread.                                                          *)
EXTENDS Naturals, Sequences, SequencesExt

CONSTANTS
    None,            \* no request, no backend
    MaxRequests,     \* bound: recognize() is called this often
    MaxSelections    \* bound: setEngine() is called this often

ASSUME BoundsAssumption == MaxRequests \in Nat /\ MaxSelections \in Nat
ASSUME NoneAssumption == None \notin Nat \cup {"Meiki", "ScreenAi"}

Engine == {"MeikiOcr", "ScreenAi", "Automatic"}

(* The backends configure() can end up with for a selection: the models or   *)
(* the component may be missing, or initialize() may fail.                   *)
Loadable(engine) ==
    CASE engine = "MeikiOcr" -> {"Meiki", None}
      [] engine = "ScreenAi" -> {"ScreenAi", None}
      [] engine = "Automatic" -> {"Meiki", "ScreenAi", None}

Backend == {"Meiki", "ScreenAi"}

VARIABLES
    mailbox,     \* m_pending: the request that waits, or None
    tasks,       \* the worker thread's event queue: an engine to configure, or "drain"
    running,     \* the request the worker is recognizing, or None
    active,      \* OcrWorker::m_active, or None
    posted,      \* the caller thread's queue: answers and publications
    published,   \* m_backendName and m_ready: the backend published, or None
    life,        \* "up"; "stopping" once the destructor zeroed m_generation; "gone"
    requested,   \* history: the number of requests made, the newest one's name
    answered,    \* history: the newest request whose callback ran
    selections   \* history: the number of setEngine() calls

vars == <<mailbox, tasks, running, active, posted, published, life, requested,
          answered, selections>>

Request == 1 .. MaxRequests
Answer(id) == [request |-> id, backend |-> active]
Publication(backend) == [request |-> None, backend |-> backend]

TypeOK ==
    /\ mailbox \in {None, requested} \ {0}
    /\ tasks \in Seq(Engine \cup {"drain"})
    /\ running \in Request \cup {None}
    /\ active \in Backend \cup {None}
    /\ posted \in Seq([request : Request \cup {None}, backend : Backend \cup {None}])
    /\ published \in Backend \cup {None}
    /\ life \in {"up", "stopping", "gone"}
    /\ requested \in 0 .. MaxRequests
    /\ answered \in 0 .. requested
    /\ selections \in 0 .. MaxSelections

Init ==
    /\ mailbox = None
    /\ tasks = <<>>
    /\ running = None
    /\ active = None
    /\ posted = <<>>
    /\ published = None
    /\ life = "up"
    /\ requested = 0
    /\ answered = 0
    /\ selections = 0

-----------------------------------------------------------------------------
(* The caller's thread.                                                      *)

(* Mutant: the drain event is posted only while nothing is being recognized, *)
(* as if the run under way came back to the mailbox by itself.               *)
RecognizeOnce ==
    /\ life = "up" /\ requested < MaxRequests
    /\ mailbox' = requested + 1
    /\ requested' = requested + 1
    /\ tasks' = IF running = None THEN Append(tasks, "drain") ELSE tasks
    /\ UNCHANGED <<running, active, posted, published, life, answered, selections>>

(* Mutant: a request does not replace the one that waits.                    *)
RecognizeFirst ==
    /\ life = "up" /\ requested < MaxRequests
    /\ mailbox' = IF mailbox = None THEN requested + 1 ELSE mailbox
    /\ requested' = requested + 1
    /\ tasks' = Append(tasks, "drain")
    /\ UNCHANGED <<running, active, posted, published, life, answered, selections>>

(* recognize(): replaces whatever waits, and posts a drain event always.     *)
Recognize ==
    /\ life = "up" /\ requested < MaxRequests
    /\ mailbox' = requested + 1
    /\ requested' = requested + 1
    /\ tasks' = Append(tasks, "drain")
    /\ UNCHANGED <<running, active, posted, published, life, answered, selections>>

(* setEngine(): the settings travel to the worker by value.                  *)
SetEngine(engine) ==
    /\ life = "up" /\ selections < MaxSelections
    /\ tasks' = Append(tasks, engine)
    /\ selections' = selections + 1
    /\ UNCHANGED <<mailbox, running, active, posted, published, life, requested, answered>>

(* Mutant: the callback does not test the sentinel.                          *)
DeliverAlways ==
    /\ posted # <<>>
    /\ posted' = Tail(posted)
    /\ IF Head(posted).request = None
       THEN published' = Head(posted).backend /\ UNCHANGED answered
       ELSE answered' = Head(posted).request /\ UNCHANGED published
    /\ UNCHANGED <<mailbox, tasks, running, active, life, requested, selections>>

(* The next event of the caller's thread, which the destructor blocks: a     *)
(* publication is stored by publish(), and an answer's callback runs.  Once  *)
(* the service is gone neither has an effect: publications were posted to    *)
(* the service and went with it, and a callback finds m_generation zero.     *)
Deliver ==
    /\ posted # <<>> /\ life # "stopping"
    /\ posted' = Tail(posted)
    /\ \/ /\ life = "up" /\ Head(posted).request = None
          /\ published' = Head(posted).backend
          /\ UNCHANGED answered
       \/ /\ life = "up" /\ Head(posted).request # None
          /\ answered' = Head(posted).request
          /\ UNCHANGED published
       \/ /\ life = "gone"
          /\ UNCHANGED <<published, answered>>
    /\ UNCHANGED <<mailbox, tasks, running, active, life, requested, selections>>

(* ~OcrService() until its wait: the sentinel is stored, the thread told to  *)
(* quit, and this thread blocks.                                             *)
Destroy ==
    /\ life = "up"
    /\ life' = "stopping"
    /\ UNCHANGED <<mailbox, tasks, running, active, posted, published, requested,
                   answered, selections>>

(* The rest of it: the worker stopped between two events, or was terminated  *)
(* after five seconds.                                                       *)
Join ==
    /\ life = "stopping"
    /\ life' = "gone"
    /\ running' = None
    /\ UNCHANGED <<mailbox, tasks, active, posted, published, requested, answered,
                   selections>>

-----------------------------------------------------------------------------
(* The worker's thread, which may still work off its queue while the         *)
(* destructor waits for it.                                                  *)

WorkerFree == running = None /\ tasks # <<>> /\ life # "gone"

(* drain() until the recognition starts: the mailbox is emptied.  A drain    *)
(* event that finds it empty belonged to a request since replaced or taken.  *)
Drain ==
    /\ WorkerFree /\ Head(tasks) = "drain"
    /\ tasks' = Tail(tasks)
    /\ running' = mailbox
    /\ mailbox' = None
    /\ UNCHANGED <<active, posted, published, life, requested, answered, selections>>

(* The rest of drain(): the answer is posted unless the service is going.    *)
Finish ==
    /\ running # None
    /\ running' = None
    /\ posted' = IF life = "up" THEN Append(posted, Answer(running)) ELSE posted
    /\ UNCHANGED <<mailbox, tasks, active, published, life, requested, answered, selections>>

(* Mutant: a backend that failed to load is not published.                   *)
ConfigureQuietly(backend) ==
    /\ WorkerFree /\ Head(tasks) \in Engine
    /\ backend \in Loadable(Head(tasks))
    /\ tasks' = Tail(tasks)
    /\ active' = backend
    /\ posted' = IF backend = None THEN posted ELSE Append(posted, Publication(backend))
    /\ UNCHANGED <<mailbox, running, published, life, requested, answered, selections>>

(* configure() and the publication of what it loaded.                        *)
Configure(backend) ==
    /\ WorkerFree /\ Head(tasks) \in Engine
    /\ backend \in Loadable(Head(tasks))
    /\ tasks' = Tail(tasks)
    /\ active' = backend
    /\ posted' = Append(posted, Publication(backend))
    /\ UNCHANGED <<mailbox, running, published, life, requested, answered, selections>>

Worker ==
    \/ Drain
    \/ Finish
    \/ \E backend \in Backend \cup {None} : Configure(backend)

Next ==
    \/ Recognize
    \/ \E engine \in Engine : SetEngine(engine)
    \/ Deliver
    \/ Destroy
    \/ Join
    \/ Worker

(* Both threads run their event loops; a caller need not call anything.      *)
Spec ==
    /\ Init /\ [][Next]_vars
    /\ WF_vars(Worker)
    /\ WF_vars(Deliver)

-----------------------------------------------------------------------------
(* No lost wakeup: while a request waits in the mailbox a drain event that   *)
(* was posted for it, or for one it replaced, is still to run.               *)
MailboxIsDrained ==
    mailbox # None => Contains(tasks, "drain")

(* The newest request (ocrservice.h:28) is the one that is never dropped: as *)
(* long as its callback has not run it waits, runs, or is posted.            *)
NewestIsHeld ==
    life = "up" /\ answered < requested =>
        \/ requested \in {mailbox, running}
        \/ \E i \in DOMAIN posted : posted[i].request = requested

(* Callbacks run in the order of their requests, each at most once, and none *)
(* once the destructor has begun (ocrservice.h:61).                          *)
CallbacksInOrder ==
    [][answered' # answered => answered' > answered /\ life = "up"]_vars

(* What is published is what the worker loaded last, and while it is not,    *)
(* the publication that corrects it is the last one posted: a status that    *)
(* says "Scanning" does not outlive the engine it names.                     *)
PublishedFollowsWorker ==
    life = "up" =>
        \/ /\ published = active
           /\ \A i \in DOMAIN posted : posted[i].request # None
        \/ \E i \in DOMAIN posted :
              /\ posted[i] = Publication(active)
              /\ \A j \in DOMAIN posted : j > i => posted[j].request # None

(* A request that is not replaced by a newer one is answered, unless the     *)
(* service is destroyed first.                                               *)
NewestIsAnswered ==
    \A n \in Request :
        (requested = n) ~> (answered = n \/ requested > n \/ life # "up")
=============================================================================
