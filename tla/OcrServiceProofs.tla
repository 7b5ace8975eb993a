-------------------------- MODULE OcrServiceProofs --------------------------
(* The recognition service for any number of requests and selections: no     *)
(* wakeup and no newest request is lost, callbacks run in order and none     *)
(* after the destructor, and what is published is what the worker loaded.    *)
EXTENDS OcrService, SequenceTheorems, TLAPS

(* Requests pass from the mailbox to the worker to the caller's queue to     *)
(* their callback in the order they were made, and each is in one of these   *)
(* places only: every place holds older ones than the place before it.       *)
InOrder ==
    /\ mailbox # None =>
        /\ answered < requested
        /\ running # None => running < requested
        /\ \A i \in DOMAIN posted : posted[i].request # None => posted[i].request < requested
    /\ running # None =>
        /\ answered < running /\ running <= requested
        /\ \A i \in DOMAIN posted : posted[i].request # None => posted[i].request < running
    /\ \A i \in DOMAIN posted : posted[i].request # None =>
        /\ answered < posted[i].request /\ posted[i].request <= requested
        /\ \A j \in DOMAIN posted :
              j > i /\ posted[j].request # None => posted[i].request < posted[j].request

IInv == TypeOK /\ InOrder /\ MailboxIsDrained /\ NewestIsHeld /\ PublishedFollowsWorker
-----------------------------------------------------------------------------
(* Sequences as queues.                                                      *)

LEMMA AppendAt ==
    ASSUME NEW S, NEW s \in Seq(S), NEW e \in S
    PROVE  /\ Append(s, e) \in Seq(S)
           /\ Len(s) \in Nat /\ Len(Append(s, e)) = Len(s) + 1
           /\ DOMAIN s = 1 .. Len(s)
           /\ DOMAIN Append(s, e) = 1 .. (Len(s) + 1)
           /\ \A i \in DOMAIN s : Append(s, e)[i] = s[i]
           /\ Append(s, e)[Len(s) + 1] = e
  OBVIOUS

LEMMA TailAt ==
    ASSUME NEW S, NEW s \in Seq(S), s # <<>>
    PROVE  /\ Tail(s) \in Seq(S)
           /\ Head(s) = s[1] /\ Head(s) \in S /\ 1 \in DOMAIN s
           /\ Len(s) \in Nat /\ Len(s) >= 1 /\ Len(Tail(s)) = Len(s) - 1
           /\ DOMAIN s = 1 .. Len(s)
           /\ DOMAIN Tail(s) = 1 .. (Len(s) - 1)
           /\ \A i \in DOMAIN Tail(s) : i + 1 \in DOMAIN s /\ Tail(s)[i] = s[i + 1]
           /\ \A i \in DOMAIN s : i > 1 => i - 1 \in DOMAIN Tail(s) /\ s[i] = Tail(s)[i - 1]
  OBVIOUS

Event == [request : Request \cup {None}, backend : Backend \cup {None}]

(* None is no request, no backend and no engine to configure.                *)
LEMMA Distinct ==
    /\ MaxRequests \in Nat /\ MaxSelections \in Nat
    /\ Request \subseteq Nat /\ None \notin Nat /\ None \notin Request
    /\ None \notin Backend /\ "drain" \notin Engine
    /\ \A backend \in Backend \cup {None} : Publication(backend) \in Event
    /\ \A backend \in Backend \cup {None} :
          Publication(backend).request = None /\ Publication(backend).backend = backend
BY BoundsAssumption, NoneAssumption DEF Request, Backend, Engine, Event, Publication

LEMMA EventTypes == TypeOK => \A i \in DOMAIN posted : posted[i] \in Event
<1>1. ASSUME NEW S, NEW s \in Seq(S), NEW i \in DOMAIN s PROVE s[i] \in S
  OBVIOUS
<1> QED BY <1>1 DEF TypeOK, Event

LEMMA InitIInv == Init => IInv
<1> SUFFICES ASSUME Init PROVE IInv
  OBVIOUS
<1>1. <<>> \in Seq(Engine \cup {"drain"}) /\ <<>> \in Seq(Event) /\ DOMAIN <<>> = {}
  OBVIOUS
<1> QED
  BY <1>1, Distinct DEF Init, IInv, TypeOK, InOrder, MailboxIsDrained, NewestIsHeld,
     PublishedFollowsWorker, Event

(* recognize() leaves a drain event behind whatever the mailbox held.        *)
LEMMA RecognizeIInv == ASSUME IInv, Recognize PROVE IInv'
<1> USE Distinct DEF IInv, TypeOK, Recognize
<1>1. /\ tasks' \in Seq(Engine \cup {"drain"})
      /\ Len(tasks') \in Nat /\ Len(tasks') >= 1 /\ tasks'[Len(tasks')] = "drain"
  BY AppendAt
<1>2. TypeOK'
  BY <1>1 DEF Request
<1>3. requested \in Nat /\ answered <= requested
  OBVIOUS
<1>4. \A i \in DOMAIN posted : posted[i].request # None =>
          posted[i].request <= requested /\ posted[i].request \in Request
  BY EventTypes DEF InOrder, Event
<1>5. InOrder'
  BY <1>3, <1>4 DEF InOrder, Request
<1>6. MailboxIsDrained'
  BY <1>1 DEF MailboxIsDrained, Contains
<1>7. NewestIsHeld' /\ PublishedFollowsWorker'
  BY DEF NewestIsHeld, PublishedFollowsWorker, Publication
<1> QED BY <1>2, <1>5, <1>6, <1>7

(* setEngine() adds a task behind the drain events.                          *)
LEMMA SetEngineIInv == ASSUME IInv, NEW engine \in Engine, SetEngine(engine) PROVE IInv'
<1> USE Distinct DEF IInv, TypeOK, SetEngine
<1>1. /\ tasks' \in Seq(Engine \cup {"drain"})
      /\ Len(tasks) \in Nat /\ Len(tasks') = Len(tasks) + 1
      /\ \A i \in 1 .. Len(tasks) : tasks'[i] = tasks[i]
  BY AppendAt
<1>2. TypeOK'
  BY <1>1
<1>3. MailboxIsDrained'
  BY <1>1 DEF MailboxIsDrained, Contains
<1>4. InOrder' /\ NewestIsHeld' /\ PublishedFollowsWorker'
  BY DEF InOrder, NewestIsHeld, PublishedFollowsWorker, Publication
<1> QED BY <1>2, <1>3, <1>4

(* The event the caller's thread takes is the oldest one posted.             *)
LEMMA DeliverIInv == ASSUME IInv, Deliver PROVE IInv'
<1> USE Distinct DEF IInv, TypeOK
<1>1. \A i \in DOMAIN posted : posted[i] \in Event
  BY EventTypes
<1>2. /\ posted' \in Seq(Event)
      /\ Head(posted) = posted[1] /\ 1 \in DOMAIN posted
      /\ Len(posted) \in Nat /\ DOMAIN posted = 1 .. Len(posted)
      /\ DOMAIN posted' = 1 .. (Len(posted) - 1)
      /\ \A i \in DOMAIN posted' : i + 1 \in DOMAIN posted /\ posted'[i] = posted[i + 1]
      /\ \A i \in DOMAIN posted : i > 1 => i - 1 \in DOMAIN posted' /\ posted[i] = posted'[i - 1]
  BY TailAt DEF Deliver, Event
<1>3. Head(posted).request # None =>
          /\ Head(posted).request \in Request
          /\ answered < Head(posted).request /\ Head(posted).request <= requested
          /\ \A j \in DOMAIN posted :
                j > 1 /\ posted[j].request # None => Head(posted).request < posted[j].request
  BY <1>1, <1>2 DEF InOrder, Event
<1>4. TypeOK'
  <2>1. answered' \in 0 .. requested
    <3>1. answered' = answered \/ (answered' = Head(posted).request /\ Head(posted).request # None)
      BY DEF Deliver
    <3> QED BY <1>3, <3>1 DEF Request
  <2>2. published' \in Backend \cup {None}
    BY <1>1, <1>2 DEF Deliver, Event
  <2> QED BY <1>2, <2>1, <2>2 DEF Deliver, Event
<1>5. InOrder'
  <2>1. ASSUME NEW i \in DOMAIN posted', posted'[i].request # None
        PROVE  /\ posted'[i].request \in Request
               /\ answered < posted'[i].request /\ answered' < posted'[i].request
               /\ posted'[i].request <= requested
               /\ \A j \in DOMAIN posted' :
                     j > i /\ posted'[j].request # None => posted'[i].request < posted'[j].request
    <3>1. i \in Nat /\ i + 1 \in DOMAIN posted /\ posted'[i] = posted[i + 1] /\ i + 1 > 1
      BY <1>2
    <3>2. posted[i + 1].request \in Request /\ answered < posted[i + 1].request
          /\ posted[i + 1].request <= requested
      BY <1>1, <2>1, <3>1 DEF InOrder, Event
    <3>3. answered' < posted[i + 1].request
      BY <1>3, <2>1, <3>1, <3>2 DEF Deliver
    <3>4. ASSUME NEW j \in DOMAIN posted', j > i, posted'[j].request # None
          PROVE  posted'[i].request < posted'[j].request
      <4>1. j \in Nat /\ j + 1 \in DOMAIN posted /\ posted'[j] = posted[j + 1] /\ j + 1 > i + 1
        BY <1>2, <3>1, <3>4
      <4> QED BY <2>1, <3>1, <3>4, <4>1 DEF InOrder
    <3> QED BY <3>1, <3>2, <3>3, <3>4
  <2>2. mailbox # None =>
          /\ answered' < requested /\ (running # None => running < requested)
          /\ \A i \in DOMAIN posted' : posted'[i].request # None => posted'[i].request < requested
    BY <1>1, <1>2, <1>3 DEF Deliver, Event, InOrder
  <2>3. running # None =>
          /\ answered' < running /\ running <= requested
          /\ \A i \in DOMAIN posted' : posted'[i].request # None => posted'[i].request < running
    <3>1. running # None => answered' < running
      BY <1>2, <1>3 DEF Deliver, InOrder
    <3>2. running # None =>
            \A i \in DOMAIN posted' : posted'[i].request # None => posted'[i].request < running
      BY <1>2 DEF InOrder
    <3> QED BY <3>1, <3>2 DEF InOrder
  <2> QED BY <2>1, <2>2, <2>3 DEF Deliver, InOrder
<1>6. MailboxIsDrained'
  BY DEF Deliver, MailboxIsDrained, Contains
<1>7. NewestIsHeld'
  <2> SUFFICES ASSUME life = "up", answered' < requested
               PROVE  requested \in {mailbox, running}
                        \/ \E i \in DOMAIN posted' : posted'[i].request = requested
    BY DEF Deliver, NewestIsHeld
  <2>1. answered < requested
    BY <1>3 DEF Deliver, Request
  <2>2. ASSUME NEW i \in DOMAIN posted, posted[i].request = requested
        PROVE  \E k \in DOMAIN posted' : posted'[k].request = requested
    <3>1. i > 1
      BY <1>2, <2>2 DEF Deliver
    <3> QED BY <1>2, <2>2, <3>1
  <2> QED BY <2>1, <2>2 DEF NewestIsHeld
<1>8. PublishedFollowsWorker'
  <2> SUFFICES ASSUME life = "up" PROVE PublishedFollowsWorker'
    BY DEF Deliver, PublishedFollowsWorker
  <2>1. CASE published = active /\ \A i \in DOMAIN posted : posted[i].request # None
    BY <1>2, <2>1 DEF Deliver, PublishedFollowsWorker
  <2>2. ASSUME NEW i \in DOMAIN posted, posted[i] = Publication(active),
               \A j \in DOMAIN posted : j > i => posted[j].request # None
        PROVE  PublishedFollowsWorker'
    <3>1. CASE i = 1
      <4>1. published' = active
        BY <1>2, <2>2, <3>1 DEF Deliver
      <4>2. \A j \in DOMAIN posted' : posted'[j].request # None
        BY <1>2, <2>2, <3>1
      <4> QED BY <4>1, <4>2 DEF Deliver, PublishedFollowsWorker
    <3>2. CASE i # 1
      <4>1. i - 1 \in DOMAIN posted' /\ posted'[i - 1] = Publication(active)
        BY <1>2, <2>2, <3>2
      <4>2. \A j \in DOMAIN posted' : j > i - 1 => posted'[j].request # None
        BY <1>2, <2>2, <3>2
      <4> QED BY <4>1, <4>2 DEF Deliver, PublishedFollowsWorker, Publication
    <3> QED BY <3>1, <3>2
  <2> QED BY <2>1, <2>2 DEF PublishedFollowsWorker
<1> QED BY <1>4, <1>5, <1>6, <1>7, <1>8

LEMMA EndIInv == ASSUME IInv, Destroy \/ Join PROVE IInv'
BY Distinct DEF IInv, TypeOK, InOrder, MailboxIsDrained, Contains, NewestIsHeld,
   PublishedFollowsWorker, Publication, Destroy, Join

(* drain() empties the mailbox, so that no drain event is needed any more.   *)
LEMMA DrainIInv == ASSUME IInv, Drain PROVE IInv'
<1> USE Distinct DEF IInv, TypeOK, Drain, WorkerFree
<1>1. tasks' \in Seq(Engine \cup {"drain"})
  BY TailAt
<1>2. TypeOK'
  BY <1>1 DEF Request
<1>3. InOrder'
  BY EventTypes DEF InOrder, Event
<1>4. MailboxIsDrained' /\ NewestIsHeld' /\ PublishedFollowsWorker'
  BY DEF MailboxIsDrained, NewestIsHeld, PublishedFollowsWorker, Publication
<1> QED BY <1>2, <1>3, <1>4

(* An answer is posted behind every older one, and behind no publication     *)
(* that would come too late.                                                 *)
LEMMA FinishIInv == ASSUME IInv, Finish PROVE IInv'
<1> USE Distinct DEF IInv, TypeOK, Finish
<1>1. \A i \in DOMAIN posted : posted[i] \in Event
  BY EventTypes
<1>2. CASE life = "up"
  <2>1. Answer(running) \in Event /\ Answer(running).request = running
    BY DEF Answer, Event
  <2>2. /\ posted' \in Seq(Event)
        /\ Len(posted) \in Nat /\ DOMAIN posted = 1 .. Len(posted)
        /\ DOMAIN posted' = 1 .. (Len(posted) + 1)
        /\ \A i \in DOMAIN posted : posted'[i] = posted[i]
        /\ posted'[Len(posted) + 1] = Answer(running)
    BY <1>2, <2>1, AppendAt DEF Event
  <2>3. TypeOK'
    BY <2>2 DEF Event
  <2>4. InOrder'
    BY <1>1, <2>1, <2>2 DEF InOrder, Event
  <2>5. MailboxIsDrained'
    BY DEF MailboxIsDrained, Contains
  <2>6. NewestIsHeld'
    BY <2>1, <2>2 DEF NewestIsHeld
  <2>7. PublishedFollowsWorker'
    BY <2>1, <2>2 DEF PublishedFollowsWorker, Publication
  <2> QED BY <2>3, <2>4, <2>5, <2>6, <2>7
<1>3. CASE life # "up"
  BY <1>1, <1>3 DEF InOrder, Event, MailboxIsDrained, Contains, NewestIsHeld,
     PublishedFollowsWorker
<1> QED BY <1>2, <1>3

(* The publication of what was loaded is the last one posted.                *)
LEMMA ConfigureIInv ==
    ASSUME IInv, NEW backend \in Backend \cup {None}, Configure(backend) PROVE IInv'
<1> USE Distinct DEF IInv, TypeOK, Configure, WorkerFree
<1>1. \A i \in DOMAIN posted : posted[i] \in Event
  BY EventTypes
<1>2. /\ tasks' \in Seq(Engine \cup {"drain"})
      /\ Head(tasks) = tasks[1] /\ Len(tasks) \in Nat /\ Len(tasks') = Len(tasks) - 1
      /\ DOMAIN tasks = 1 .. Len(tasks) /\ DOMAIN tasks' = 1 .. (Len(tasks) - 1)
      /\ \A i \in DOMAIN tasks : i > 1 => i - 1 \in DOMAIN tasks' /\ tasks[i] = tasks'[i - 1]
  BY TailAt
<1>3. /\ posted' \in Seq(Event)
      /\ Len(posted) \in Nat /\ DOMAIN posted = 1 .. Len(posted)
      /\ DOMAIN posted' = 1 .. (Len(posted) + 1)
      /\ \A i \in DOMAIN posted : posted'[i] = posted[i]
      /\ posted'[Len(posted) + 1] = Publication(backend)
  BY AppendAt DEF Event
<1>4. TypeOK'
  BY <1>2, <1>3 DEF Event
<1>5. InOrder'
  BY <1>1, <1>3 DEF InOrder, Event
<1>6. MailboxIsDrained'
  <2>1. ASSUME NEW i \in 1 .. Len(tasks), tasks[i] = "drain"
        PROVE  i - 1 \in 1 .. Len(tasks') /\ tasks'[i - 1] = "drain"
    BY <1>2, <2>1
  <2> QED BY <2>1 DEF MailboxIsDrained, Contains
<1>7. NewestIsHeld'
  BY <1>3 DEF NewestIsHeld
<1>8. PublishedFollowsWorker'
  <2>1. active' = backend
    OBVIOUS
  <2>2. \A j \in DOMAIN posted' : j > Len(posted) + 1 => posted'[j].request # None
    BY <1>3
  <2>3. Len(posted) + 1 \in DOMAIN posted' /\ posted'[Len(posted) + 1] = Publication(active)'
    BY <1>3, <2>1 DEF Publication
  <2> QED BY <2>2, <2>3 DEF PublishedFollowsWorker
<1> QED BY <1>4, <1>5, <1>6, <1>7, <1>8

LEMMA NextIInv == IInv /\ [Next]_vars => IInv'
<1> SUFFICES ASSUME IInv, [Next]_vars PROVE IInv'
  OBVIOUS
<1>1. CASE UNCHANGED vars
  BY <1>1 DEF vars, IInv, TypeOK, InOrder, MailboxIsDrained, Contains, NewestIsHeld,
     PublishedFollowsWorker, Publication
<1> QED
  BY <1>1, RecognizeIInv, SetEngineIInv, DeliverIInv, EndIInv, DrainIInv, FinishIInv,
     ConfigureIInv DEF Next, Worker

-----------------------------------------------------------------------------
(* No wakeup is lost (ocrservice.cpp:262-290): while a request waits in the  *)
(* mailbox a drain event is still to run.                                    *)
THEOREM RequestsAreDrained == Spec => []MailboxIsDrained
<1>1. IInv => MailboxIsDrained
  BY DEF IInv
<1> QED BY InitIInv, NextIInv, <1>1, PTL DEF Spec

(* The newest request (ocrservice.h:28) waits, runs or is posted until its   *)
(* callback has run.                                                         *)
THEOREM NewestIsKept == Spec => []NewestIsHeld
<1>1. IInv => NewestIsHeld
  BY DEF IInv
<1> QED BY InitIInv, NextIInv, <1>1, PTL DEF Spec

(* What is published is what the worker loaded last, or a publication that   *)
(* says so is on its way behind every other (ocrservice.cpp:161-188).        *)
THEOREM PublicationsFollow == Spec => []PublishedFollowsWorker
<1>1. IInv => PublishedFollowsWorker
  BY DEF IInv
<1> QED BY InitIInv, NextIInv, <1>1, PTL DEF Spec

(* Callbacks run in the order of their requests, each at most once, and none *)
(* once the destructor has begun (ocrservice.h:61).                          *)
THEOREM CallbacksAreOrdered == Spec => CallbacksInOrder
<1>1. IInv /\ [Next]_vars => [answered' # answered => answered' > answered /\ life = "up"]_vars
  <2> SUFFICES ASSUME IInv, Next, answered' # answered
               PROVE  answered' > answered /\ life = "up"
    BY DEF vars
  <2>1. Deliver
    BY DEF Next, Worker, Recognize, SetEngine, Destroy, Join, Drain, Finish, Configure
  <2>2. /\ life = "up" /\ answered' = posted[1].request /\ posted[1].request # None
        /\ 1 \in DOMAIN posted
    BY <2>1, TailAt DEF IInv, TypeOK, Deliver
  <2> QED BY <2>2, EventTypes, Distinct DEF IInv, TypeOK, InOrder, Event
<1> QED BY InitIInv, NextIInv, <1>1, PTL DEF Spec, CallbacksInOrder
=============================================================================
