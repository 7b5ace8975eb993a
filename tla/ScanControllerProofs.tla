------------------------ MODULE ScanControllerProofs ------------------------
(* The loop keeps its bookkeeping, for every screen, every set of regions,   *)
(* characters, settings and dictionaries, and every capacity of the cache.   *)
EXTENDS ScanController, SequenceTheorems, TLAPS

(* The answer, for n results asked for: only the last request is being       *)
(* looked up, a last hit is the one it asks about at a sufficient count, and *)
(* a card with no lookup under way is the response to it.                    *)
AnswerInv(a, n) ==
    /\ \A l \in a.lookups : l = a.request
    /\ a.last # NoHit =>
        /\ a.request \in Request
        /\ a.request.hit = a.last
        /\ a.request.max >= n
        /\ a.lookups # {} \/ a.hitActive
    /\ a.hitActive <=> a.shown # NoCard
    /\ a.hitActive => a.request \in Request
    /\ a.hitActive /\ a.lookups = {} =>
        /\ a.shown.hit = a.request.hit
        /\ a.shown.max = a.request.max

(* The pixels that were taken are those of the grab being served.            *)
ShotIsServed == source.shot # NoKey => source.shot.rect = source.serving

IInv ==
    /\ TypeOK
    /\ AnswerInv(answer, RequestedResults)
    /\ ShotIsServed
    /\ CurrentIsCached
    /\ FlaggedScanIsHeld
    /\ InactiveIsQuiet

-----------------------------------------------------------------------------
(* What the answer functions preserve.                                       *)

LEMMA NoHitReportedKeeps ==
    ASSUME NEW n \in Nat, NEW a \in Answer, AnswerInv(a, n)
    PROVE  NoHitReported(a) \in Answer /\ AnswerInv(NoHitReported(a), n)
BY DEF NoHitReported, Overtaken, Answer, AnswerInv

LEMMA DispatchedKeeps ==
    ASSUME NEW n \in Nat, NEW a \in Answer, AnswerInv(a, n),
           NEW hit \in Hit, NEW max \in Nat, NEW m \in Nat, max >= m,
           NEW last \in {hit, NoHit}
    PROVE  /\ Dispatched([a EXCEPT !.last = last], hit, max) \in Answer
           /\ AnswerInv(Dispatched([a EXCEPT !.last = last], hit, max), m)
<1> DEFINE r == [hit |-> hit, max |-> max]
           b == Dispatched([a EXCEPT !.last = last], hit, max)
<1>1. r \in Request /\ r.hit = hit /\ r.max = max
  BY DEF Request
<1>2. b = [a EXCEPT !.last = last, !.request = r, !.lookups = {r}]
  BY DEF Dispatched, Overtaken, Answer
<1> HIDE DEF r, b
<1>3. b \in Answer
  BY <1>1, <1>2 DEF Answer
<1>4. /\ b.last = last /\ b.request = r /\ b.lookups = {r}
      /\ b.hitActive = a.hitActive /\ b.shown = a.shown
  BY <1>2 DEF Answer
<1>5. AnswerInv(b, m)
  BY <1>1, <1>4 DEF AnswerInv
<1> QED BY <1>3, <1>5 DEF b

LEMMA MovedToKeeps ==
    ASSUME NEW n \in Nat, NEW a \in Answer, AnswerInv(a, n), NEW p \in Point
    PROVE  /\ MovedTo(a, p) \in Answer
           /\ AnswerInv(MovedTo(a, p), n)
           /\ MovedTo(a, p).shown = NoCard <=> a.shown = NoCard
<1>1. CASE a.shown = NoCard
  BY <1>1 DEF MovedTo
<1>2. CASE a.shown # NoCard
  <2> DEFINE c == [a.shown EXCEPT !.at = p]
             b == MovedTo(a, p)
  <2>1. a.shown \in Card
    BY <1>2 DEF Answer
  <2>2. c \in Card /\ c.hit = a.shown.hit /\ c.max = a.shown.max
    BY <2>1 DEF Card
  <2>3. c # NoCard
    BY <2>2, NullAssumption DEF Card
  <2>4. b = [a EXCEPT !.shown = c]
    BY <1>2 DEF MovedTo
  <2> HIDE DEF c, b
  <2>5. b \in Answer
    BY <2>2, <2>4 DEF Answer
  <2>6. /\ b.last = a.last /\ b.request = a.request /\ b.lookups = a.lookups
        /\ b.hitActive = a.hitActive /\ b.shown = c
    BY <2>4 DEF Answer
  <2>7. AnswerInv(b, n)
    BY <1>2, <2>2, <2>3, <2>6 DEF AnswerInv
  <2> QED BY <1>2, <2>3, <2>5, <2>6, <2>7 DEF b
<1> QED BY <1>1, <1>2

LEMMA DeliveredKeeps ==
    ASSUME TypeOK, NEW n \in Nat, AnswerInv(answer, n),
           NEW l \in answer.lookups, NEW found \in BOOLEAN, IsActive
    PROVE  /\ Delivered(answer, l, found) \in Answer
           /\ AnswerInv(Delivered(answer, l, found), n)
<1> DEFINE rest == [answer EXCEPT !.lookups = answer.lookups \ {l}]
           b == Delivered(answer, l, found)
<1>1. answer \in Answer /\ cursor \in Point
  BY DEF TypeOK
<1>2. l \in Request /\ l = answer.request /\ answer.lookups \ {l} = {}
  BY <1>1 DEF Answer, AnswerInv
<1>3. rest \in Answer
  BY <1>1 DEF Answer
<1>4. CASE ~found
  <2>1. b = NoHitReported(rest)
    BY <1>4 DEF Delivered
  <2>2. /\ NoHitReported(rest).last = NoHit
        /\ NoHitReported(rest).lookups = {}
        /\ NoHitReported(rest).shown = IF ~answer.hitActive /\ answer.nothingReported
                                       THEN answer.shown ELSE NoCard
        /\ NoHitReported(rest).hitActive <=> FALSE
        /\ NoHitReported(rest) \in Answer
    BY <1>1, <1>3 DEF NoHitReported, Overtaken, Answer
  <2> QED BY <2>1, <2>2 DEF AnswerInv
<1>5. CASE found
  <2> DEFINE c == [hit |-> l.hit, max |-> l.max, at |-> cursor]
  <2>1. c \in Card /\ c.hit = l.hit /\ c.max = l.max
    BY <1>1, <1>2 DEF Card, Request
  <2>2. c # NoCard
    BY <2>1, NullAssumption DEF Card
  <2>3. b = [rest EXCEPT !.hitActive = TRUE, !.nothingReported = FALSE, !.shown = c]
    BY <1>5 DEF Delivered
  <2> HIDE DEF c, b
  <2>4. /\ b \in Answer
        /\ b.last = answer.last /\ b.request = answer.request
        /\ b.lookups = {} /\ b.hitActive = TRUE /\ b.shown = c
    BY <1>1, <1>2, <2>1, <2>3 DEF Answer
  <2>5. AnswerInv(b, n)
    BY <1>2, <2>1, <2>2, <2>4 DEF AnswerInv
  <2> QED BY <2>4, <2>5 DEF b
<1> QED BY <1>4, <1>5

LEMMA LookedUpAgainKeeps ==
    ASSUME NEW before \in Nat, NEW count \in Nat, NEW active \in BOOLEAN,
           NEW a \in Answer, AnswerInv(a, before)
    PROVE  /\ LookedUpAgain(a, before, count, active) \in Answer
           /\ AnswerInv(LookedUpAgain(a, before, count, active), count)
           /\ ~active => /\ LookedUpAgain(a, before, count, active).lookups = a.lookups
                         /\ LookedUpAgain(a, before, count, active).shown = a.shown
<1>1. CASE count <= before
  <2>1. LookedUpAgain(a, before, count, active) = a
    BY <1>1 DEF LookedUpAgain
  <2>2. a.last # NoHit => a.request.max \in Nat
    BY DEF AnswerInv, Request
  <2> QED BY <1>1, <2>1, <2>2 DEF AnswerInv
<1>2. CASE count > before /\ a.hitActive /\ active
  <2> DEFINE h == a.request.hit
  <2>1. h \in Hit /\ a.last \in {h, NoHit}
    BY <1>2 DEF AnswerInv, Request
  <2>2. LookedUpAgain(a, before, count, active) = Dispatched([a EXCEPT !.last = a.last], h, count)
    BY <1>2 DEF LookedUpAgain, Answer
  <2>3. count >= count
    OBVIOUS
  <2> HIDE DEF h
  <2>4. /\ Dispatched([a EXCEPT !.last = a.last], h, count) \in Answer
        /\ AnswerInv(Dispatched([a EXCEPT !.last = a.last], h, count), count)
    BY <2>1, <2>3, DispatchedKeeps
  <2> QED BY <1>2, <2>2, <2>4
<1>3. CASE count > before /\ ~(a.hitActive /\ active)
  <2> DEFINE b == [a EXCEPT !.last = NoHit]
  <2>1. LookedUpAgain(a, before, count, active) = b
    BY <1>3 DEF LookedUpAgain
  <2>2. /\ b \in Answer /\ b.last = NoHit /\ b.request = a.request /\ b.lookups = a.lookups
        /\ b.hitActive = a.hitActive /\ b.shown = a.shown
    BY DEF Answer
  <2> HIDE DEF b
  <2> QED BY <2>1, <2>2 DEF AnswerInv
<1> QED BY <1>1, <1>2, <1>3

LEMMA WithdrawnKeeps ==
    ASSUME NEW n \in Nat, NEW m \in Nat, NEW a \in Answer, AnswerInv(a, n)
    PROVE  /\ Withdrawn(a) \in Answer
           /\ AnswerInv(Withdrawn(a), m)
           /\ Withdrawn(a).shown = NoCard
           /\ Withdrawn(a).lookups = {}
BY DEF Withdrawn, Overtaken, Answer, AnswerInv

-----------------------------------------------------------------------------
(* The cache: entries stay keys, and what was found or stored is its first.  *)

LEMMA WithoutKeeps ==
    ASSUME NEW s \in Seq(Key), NEW k \in Key
    PROVE  /\ SC!Without(s, k) \in Seq(Key)
           /\ Len(SC!Without(s, k)) = IF SC!Holds(s, k) THEN Len(s) - 1 ELSE Len(s)
<1>1. CASE ~SC!Holds(s, k)
  BY <1>1 DEF SC!Without
<1>2. CASE SC!Holds(s, k)
  <2> DEFINE i == SC!Position(s, k)
             left == SubSeq(s, 1, i - 1)
             right == SubSeq(s, i + 1, Len(s))
  <2>1. i \in 1..Len(s) /\ Len(s) \in Nat
    BY <1>2 DEF SC!Holds, SC!Position
  <2>2. \A j \in 1..Len(s) : s[j] \in Key
    BY ElementOfSeq
  <2>3. SC!Without(s, k) = left \o right
    BY <1>2 DEF SC!Without
  <2> HIDE DEF i
  <2>4. left \in Seq(Key) /\ Len(left) = i - 1
    BY <2>1, <2>2, SubSeqProperties
  <2>5. right \in Seq(Key) /\ Len(right) = Len(s) - i
    BY <2>1, <2>2, SubSeqProperties
  <2> HIDE DEF left, right
  <2>6. left \o right \in Seq(Key) /\ Len(left \o right) = Len(left) + Len(right)
    BY <2>4, <2>5, ConcatProperties
  <2> QED BY <1>2, <2>1, <2>3, <2>4, <2>5, <2>6
<1> QED BY <1>1, <1>2

LEMMA PromotedKeeps ==
    ASSUME NEW s \in Seq(Key), NEW k \in Key
    PROVE  /\ SC!Promoted(s, k) \in Seq(Key)
           /\ Len(SC!Promoted(s, k)) = 1 + Len(SC!Without(s, k))
           /\ SC!Promoted(s, k)[1] = k
           /\ SC!Holds(SC!Promoted(s, k), k)
<1> DEFINE w == SC!Without(s, k)
           all == SC!Promoted(s, k)
<1>1. w \in Seq(Key) /\ Len(w) \in Nat
  BY WithoutKeeps, LenProperties
<1>2. all = <<k>> \o w
  BY DEF SC!Promoted
<1> HIDE DEF w, all
<1>3. <<k>> \in Seq(Key) /\ Len(<<k>>) = 1 /\ <<k>>[1] = k
  OBVIOUS
<1>4. /\ <<k>> \o w \in Seq(Key)
      /\ Len(<<k>> \o w) = 1 + Len(w)
      /\ \A i \in 1..(1 + Len(w)) : (<<k>> \o w)[i] = IF i <= 1 THEN <<k>>[i] ELSE w[i - 1]
  BY <1>1, <1>3, ConcatProperties
<1>5. all \in Seq(Key) /\ Len(all) = 1 + Len(w) /\ all[1] = k
  BY <1>1, <1>2, <1>3, <1>4
<1>6. DOMAIN all = 1..Len(all)
  BY <1>5, LenProperties
<1>7. 1 \in DOMAIN all
  BY <1>1, <1>5, <1>6
<1>8. SC!Holds(all, k)
  BY <1>5, <1>7 DEF SC!Holds
<1> QED BY <1>5, <1>8 DEF w, all

LEMMA FoundKeeps ==
    ASSUME NEW s \in Seq(Key), NEW k \in Key, SC!Holds(s, k), Len(s) <= Capacity
    PROVE  /\ SC!Promoted(s, k) \in Seq(Key)
           /\ Len(SC!Promoted(s, k)) <= Capacity
           /\ SC!Holds(SC!Promoted(s, k), k)
<1>1. Len(s) \in Nat /\ Capacity \in Nat
  BY LenProperties, InputAssumption
<1> QED BY <1>1, WithoutKeeps, PromotedKeeps

LEMMA InsertedKeeps ==
    ASSUME NEW s \in Seq(Key), NEW k \in Key
    PROVE  /\ SC!Inserted(s, k) \in Seq(Key)
           /\ Len(SC!Inserted(s, k)) <= Capacity
           /\ SC!Holds(SC!Inserted(s, k), k)
<1> DEFINE all == SC!Promoted(s, k)
           n == IF Len(all) < Capacity THEN Len(all) ELSE Capacity
           kept == SubSeq(all, 1, n)
<1>1. Capacity \in Nat \ {0}
  BY InputAssumption
<1>2. SC!Inserted(s, k) = kept
  BY DEF SC!Inserted
<1>3. all \in Seq(Key) /\ all[1] = k /\ Len(all) \in Nat \ {0}
  <2>1. Len(SC!Without(s, k)) \in Nat
    BY WithoutKeeps, LenProperties
  <2> QED BY <2>1, PromotedKeeps
<1> HIDE DEF all
<1>4. n \in 1..Len(all) /\ n <= Capacity
  BY <1>1, <1>3
<1> HIDE DEF n
<1>5. \A i \in 1..n : all[i] \in Key
  BY <1>3, <1>4, ElementOfSeq
<1>6. kept \in Seq(Key) /\ Len(kept) = n /\ kept[1] = all[1]
  BY <1>3, <1>4, <1>5, SubSeqProperties
<1> HIDE DEF kept
<1>7. 1 \in DOMAIN kept
  BY <1>4, <1>6, LenProperties
<1> QED BY <1>2, <1>3, <1>4, <1>6, <1>7 DEF SC!Holds

-----------------------------------------------------------------------------
(* Scans that start.                                                         *)

Starts == [rect : Rect, unmeasured : BOOLEAN] \cup {NoStart}

LEMMA ConditionsTyped ==
    ASSUME TypeOK
    PROVE  /\ IsActive \in BOOLEAN
           /\ RequestedResults \in Nat
           /\ answer \in Answer /\ scan \in Scan /\ source \in Source
           /\ cache \in Seq(Key) /\ Len(cache) <= Capacity
BY DEF TypeOK, IsActive, ActiveUnder, RequestedResults, Requested, Setting

LEMMA ThrottledStartTyped ==
    ASSUME TypeOK, NEW asked \in BOOLEAN, NEW p \in Point
    PROVE  /\ ThrottledStart(asked, p) \in Starts
           /\ ThrottleAfter(asked) \in {"open", "closed", "pending"}
BY GeometryAssumption DEF TypeOK, ThrottledStart, ThrottleAfter, Start, Starts

LEMMA ReturnedStartTyped ==
    ASSUME TypeOK, NEW k \in Key, NEW v
    PROVE  ReturnedStart(k, v) \in Starts
<1>1. cursor \in Point /\ k.rect \in Rect
  BY DEF TypeOK, Key
<1>2. GrowthTarget(k, cursor) \in Rect \cup {NoRect}
  <2>1. Grow[<<k.rect, cursor>>] \in Rect \cup {NoRect}
    BY <1>1, GeometryAssumption
  <2>2. \A r \in Rect : Quantize[r] \in Rect
    BY GeometryAssumption
  <2> QED BY <2>1, <2>2 DEF GrowthTarget
<1>3. CASE Grows(k, v)
  <2>1. GrowthTarget(k, cursor) \in Rect
    BY <1>2, <1>3 DEF Grows
  <2>2. (Extent(k) = 0) \in BOOLEAN
    OBVIOUS
  <2> QED BY <1>3, <2>1, <2>2 DEF ReturnedStart, Start, Starts
<1>4. CASE ~Grows(k, v)
  <2>1. AsksForScan(v) \in BOOLEAN
    BY DEF AsksForScan, TypeOK, Setting
  <2>2. ThrottledStart(AsksForScan(v), cursor) \in Starts
    BY <1>1, <2>1, ThrottledStartTyped
  <2> QED BY <1>4, <2>2 DEF ReturnedStart
<1> QED BY <1>3, <1>4

LEMMA PollRectTyped ==
    ASSUME TypeOK
    PROVE  Start(PollRect, FALSE) \in Starts
<1>1. InitialRect[cursor] \in Rect
  BY GeometryAssumption DEF TypeOK
<1>2. current # NoKey => current.rect \in Rect
  BY DEF TypeOK, Key
<1> QED BY <1>1, <1>2 DEF PollRect, Start, Starts

(* A start requests the region that the scan waits for, behind the grab      *)
(* being served if there is one, and the pixels of that grab stay its own.   *)
LEMMA StartedScan ==
    ASSUME NEW start \in Starts, NEW s \in Scan, NEW f \in Source, NEW j \in Job
    PROVE  /\ ScanAfter(start, s) \in Scan
           /\ SourceAfter(start, f) \in Source
           /\ JobAfter(start, j) \in Job
           /\ start = NoStart => /\ ScanAfter(start, s) = s
                                 /\ SourceAfter(start, f) = f
                                 /\ JobAfter(start, j) = j
           /\ start # NoStart =>
                LET r == ScanAfter(start, s).pendingRect
                IN  IF f.serving = NoRect THEN SourceAfter(start, f).serving = r
                    ELSE SourceAfter(start, f).waiting = r
           /\ SourceAfter(start, f).shot = f.shot
           /\ f.serving # NoRect => SourceAfter(start, f).serving = f.serving
<1>1. CASE start = NoStart
  BY <1>1 DEF ScanAfter, SourceAfter, JobAfter
<1>2. CASE start # NoStart
  <2> DEFINE r == Quantize[start.rect]
  <2>1. start.rect \in Rect /\ start.unmeasured \in BOOLEAN
    BY <1>2 DEF Starts
  <2>2. r \in Rect
    BY <2>1, GeometryAssumption
  <2>3. ScanAfter(start, s) = [s EXCEPT !.pendingRect = r, !.inFlight = TRUE,
                                        !.grewUnmeasured = start.unmeasured]
    BY <1>2 DEF ScanAfter, Started
  <2>4. SourceAfter(start, f) = IF f.serving = NoRect THEN [f EXCEPT !.serving = r]
                                ELSE [f EXCEPT !.waiting = r]
    BY <1>2 DEF SourceAfter, Submitted
  <2> HIDE DEF r
  <2>5. ScanAfter(start, s) \in Scan /\ ScanAfter(start, s).pendingRect = r
    BY <2>1, <2>2, <2>3 DEF Scan
  <2>6. /\ SourceAfter(start, f) \in Source
        /\ SourceAfter(start, f).shot = f.shot
        /\ IF f.serving = NoRect THEN SourceAfter(start, f).serving = r
           ELSE /\ SourceAfter(start, f).waiting = r
                /\ SourceAfter(start, f).serving = f.serving
    BY <2>2, <2>4 DEF Source
  <2>7. JobAfter(start, j) \in Job
    BY DEF JobAfter, Stale, Job
  <2> QED BY <1>2, <2>5, <2>6, <2>7
<1> QED BY <1>1, <1>2

LEMMA StartScanKeeps ==
    ASSUME TypeOK, ShotIsServed, FlaggedScanIsHeld,
           NEW start \in Starts, NEW s \in Scan, StartScan(start, s),
           s.inFlight = scan.inFlight, s.pendingRect = scan.pendingRect
    PROVE  /\ scan' \in Scan /\ source' \in Source /\ mailbox' \in Job /\ reading' \in Job
           /\ ShotIsServed' /\ FlaggedScanIsHeld'
<1>1. /\ scan \in Scan /\ source \in Source /\ mailbox \in Job /\ reading \in Job
  BY DEF TypeOK
<1>2. /\ scan' = ScanAfter(start, s) /\ source' = SourceAfter(start, source)
      /\ mailbox' = JobAfter(start, mailbox) /\ reading' = JobAfter(start, reading)
  BY DEF StartScan
<1>3. scan' \in Scan /\ source' \in Source /\ mailbox' \in Job /\ reading' \in Job
  BY <1>1, <1>2, StartedScan
<1>4. ShotIsServed'
  <2>1. source.shot # NoKey => source.serving # NoRect
    BY <1>1, GeometryAssumption DEF ShotIsServed, Source, Key
  <2>2. source'.shot = source.shot /\ (source.serving # NoRect => source'.serving = source.serving)
    BY <1>1, <1>2, StartedScan
  <2> QED BY <2>1, <2>2 DEF ShotIsServed
<1>5. FlaggedScanIsHeld'
  <2>1. CASE start = NoStart
    <3>1. scan' = s /\ source' = source /\ mailbox' = mailbox /\ reading' = reading
      BY <1>1, <1>2, <2>1, StartedScan
    <3> QED BY <3>1 DEF FlaggedScanIsHeld
  <2>2. CASE start # NoStart
    <3>1. scan'.pendingRect \in {source'.serving, source'.waiting}
      BY <1>1, <1>2, <2>2, StartedScan
    <3> QED BY <3>1 DEF FlaggedScanIsHeld
  <2> QED BY <2>1, <2>2
<1> QED BY <1>3, <1>4, <1>5

-----------------------------------------------------------------------------
(* Evaluating a result.                                                      *)

LEMMA ForgottenKeeps ==
    ASSUME NEW n \in Nat, NEW a \in Answer, AnswerInv(a, n)
    PROVE  /\ [a EXCEPT !.last = NoHit] \in Answer
           /\ AnswerInv([a EXCEPT !.last = NoHit], n)
BY DEF Answer, AnswerInv

LEMMA EvaluatedKeeps ==
    ASSUME TypeOK, AnswerInv(answer, RequestedResults),
           NEW k \in Key, NEW p \in Point, NEW returned \in BOOLEAN
    PROVE  /\ Evaluated(answer, k, p, Verdict(k, p, returned)) \in Answer
           /\ AnswerInv(Evaluated(answer, k, p, Verdict(k, p, returned)), RequestedResults)
<1> DEFINE v == Verdict(k, p, returned)
           b == Evaluated(answer, k, p, v)
           n == RequestedResults
           h == [key |-> k, char |-> CharAt(k, p)]
<1> SUFFICES b \in Answer /\ AnswerInv(b, n)
  OBVIOUS
<1>1. answer \in Answer /\ n \in Nat
  BY ConditionsTyped
<1>2. v \in {"hold", "left", "none", "foreign", "hit"}
  BY DEF Verdict
<1>3. v = "hit" => h \in Hit
  <2>1. k.page \in Page /\ k.rect \in Rect
    BY DEF Key
  <2>2. CharAt(k, p) \in Char \cup {NoChar}
    BY <2>1, RecognitionAssumption DEF CharAt
  <2>3. v = "hit" => CharAt(k, p) # NoChar
    BY DEF Verdict
  <2> QED BY <2>2, <2>3 DEF Hit
<1> HIDE DEF v, h
<1>4. NoHitReported(answer) \in Answer /\ AnswerInv(NoHitReported(answer), n)
  BY <1>1, NoHitReportedKeeps
<1>5. CASE v = "hold"
  BY <1>1, <1>4, <1>5 DEF Evaluated, HeldThroughOcclusion
<1>6. CASE v = "left"
  BY <1>1, <1>6 DEF Evaluated
<1>7. CASE v \in {"none", "foreign"}
  <2>1. b = NoHitReported(answer)
    BY <1>7 DEF Evaluated
  <2> QED BY <1>4, <2>1
<1>8. CASE v = "hit"
  <2>1. b = Found(answer, h)
    BY <1>8 DEF Evaluated, h
  <2>2. CASE answer.last = h
    BY <1>1, <2>1, <2>2 DEF Found
  <2>3. CASE answer.last # h
    <3>1. b = Dispatched([answer EXCEPT !.last = h], h, n)
      BY <2>1, <2>3 DEF Found
    <3>2. n >= n
      BY <1>1
    <3> HIDE DEF b, n
    <3> QED BY <1>1, <1>3, <1>8, <3>1, <3>2, DispatchedKeeps DEF n
  <2> QED BY <2>2, <2>3
<1> QED BY <1>2, <1>5, <1>6, <1>7, <1>8

-----------------------------------------------------------------------------
(* The handlers.                                                             *)

LEMMA InitEstablishes ==
    ASSUME Init
    PROVE  IInv
<1>1. answer \in Answer /\ scan \in Scan /\ source \in Source
  BY DEF Init, Answer, Scan, Source
<1>2. <<>> \in Seq(Key) /\ Len(<<>>) = 0 /\ Capacity \in Nat
  BY InputAssumption
<1>3. TypeOK
  <2>1. settings \in Setting /\ minResults \in Nat /\ scanning \in BOOLEAN /\ locked \in BOOLEAN
    BY InputAssumption DEF Init
  <2>2. cache \in Seq(Key) /\ Len(cache) <= Capacity
    BY <1>2 DEF Init
  <2>3. /\ cursor \in Point /\ current \in Key \cup {NoKey} /\ page \in Page
        /\ throttle \in {"open", "closed", "pending"}
    BY DEF Init
  <2>4. mailbox \in Job /\ reading \in Job /\ card \in Cards
    BY DEF Init, Job, Cards
  <2> QED BY <1>1, <2>1, <2>2, <2>3, <2>4 DEF TypeOK
<1>4. AnswerInv(answer, RequestedResults)
  BY DEF Init, AnswerInv
<1>5. ShotIsServed /\ CurrentIsCached /\ FlaggedScanIsHeld
  BY DEF Init, ShotIsServed, CurrentIsCached, FlaggedScanIsHeld
<1>6. InactiveIsQuiet
  BY NullAssumption DEF Init, InactiveIsQuiet
<1> QED BY <1>3, <1>4, <1>5, <1>6 DEF IInv

LEMMA PositionKeeps ==
    ASSUME IInv, NEW p \in Point, OnPositionChanged(p)
    PROVE  IInv'
<1> USE DEF IInv
<1> DEFINE covered == /\ current # NoKey
                      /\ p \in Covers[current.rect]
                      /\ SC!Holds(cache, current)
           v == Verdict(current, p, FALSE)
           after == IF covered THEN Evaluated(answer, current, p, v) ELSE answer
           answered == covered /\ Answered(answer, v)
           asked == settings.trigger /\ (~answered \/ DescentWouldResolve(current, scan, p))
<1>1. /\ IsActive /\ cursor' = p
      /\ answer' = IF Follows(p, after, answered) THEN MovedTo(after, p) ELSE after
      /\ cache' = IF covered THEN SC!Promoted(cache, current) ELSE cache
      /\ throttle' = ThrottleAfter(asked)
      /\ StartScan(ThrottledStart(asked, p), scan)
      /\ UNCHANGED <<controls, current, world>>
  BY DEF OnPositionChanged
<1>2. UNCHANGED <<settings, minResults, scanning, locked, current, page, card>>
  BY <1>1 DEF controls, world
<1>3. IsActive' /\ RequestedResults' = RequestedResults
  BY <1>1, <1>2 DEF IsActive, RequestedResults
<1>4. /\ RequestedResults \in Nat /\ answer \in Answer /\ scan \in Scan
      /\ cache \in Seq(Key) /\ Len(cache) <= Capacity
      /\ current \in Key \cup {NoKey}
  BY ConditionsTyped DEF TypeOK
<1>5. after \in Answer /\ AnswerInv(after, RequestedResults)
  <2>1. CASE covered
    <3>1. current \in Key
      BY <1>4, <2>1
    <3>2. FALSE \in BOOLEAN
      OBVIOUS
    <3> HIDE DEF covered
    <3> QED BY <2>1, <3>1, <3>2, EvaluatedKeeps
  <2>2. CASE ~covered
    BY <1>4, <2>2
  <2> QED BY <2>1, <2>2
<1>6. cache' \in Seq(Key) /\ Len(cache') <= Capacity /\ (current # NoKey => SC!Holds(cache', current))
  <2>1. CASE covered
    <3>1. current \in Key
      BY <1>4, <2>1
    <3> QED BY <1>1, <1>4, <2>1, <3>1, FoundKeeps
  <2>2. CASE ~covered
    BY <1>1, <1>4, <2>2 DEF CurrentIsCached
  <2> QED BY <2>1, <2>2
<1>7. asked \in BOOLEAN
  BY DEF TypeOK, Setting, DescentWouldResolve
<1> HIDE DEF after, asked, answered, covered
<1>8. answer' \in Answer /\ AnswerInv(answer', RequestedResults)
  BY <1>1, <1>4, <1>5, MovedToKeeps
<1>9. ThrottledStart(asked, p) \in Starts /\ throttle' \in {"open", "closed", "pending"}
  BY <1>1, <1>7, ThrottledStartTyped
<1>10. /\ scan' \in Scan /\ source' \in Source /\ mailbox' \in Job /\ reading' \in Job
       /\ ShotIsServed' /\ FlaggedScanIsHeld'
  BY <1>1, <1>4, <1>9, StartScanKeeps
<1>11. TypeOK'
  BY <1>1, <1>2, <1>6, <1>8, <1>9, <1>10 DEF TypeOK
<1>12. AnswerInv(answer', RequestedResults')
  BY <1>3, <1>8
<1>13. CurrentIsCached' /\ InactiveIsQuiet'
  BY <1>2, <1>3, <1>6 DEF CurrentIsCached, InactiveIsQuiet, SC!Holds
<1> QED BY <1>10, <1>11, <1>12, <1>13

LEMMA ThrottleFiredKeeps ==
    ASSUME IInv, OnThrottleFired
    PROVE  IInv'
<1> USE DEF IInv
<1> DEFINE start == IF throttle = "pending" THEN Start(InitialRect[cursor], FALSE) ELSE NoStart
<1>1. /\ StartScan(start, scan) /\ throttle # "open"
      /\ throttle' = IF throttle = "pending" THEN "closed" ELSE "open"
      /\ UNCHANGED <<settings, minResults, scanning, locked, cursor, current, cache, answer, page, card>>
  BY DEF OnThrottleFired, controls, region, world
<1>2. start \in Starts
  BY GeometryAssumption DEF TypeOK, Start, Starts
<1>3. ~IsActive => start = NoStart
  BY DEF InactiveIsQuiet
<1> HIDE DEF start
<1>4. /\ scan' \in Scan /\ source' \in Source /\ mailbox' \in Job /\ reading' \in Job
      /\ ShotIsServed' /\ FlaggedScanIsHeld'
  BY <1>1, <1>2, ConditionsTyped, StartScanKeeps
<1>5. TypeOK'
  BY <1>1, <1>4 DEF TypeOK
<1>6. AnswerInv(answer, RequestedResults)' /\ CurrentIsCached'
  BY <1>1 DEF AnswerInv, RequestedResults, CurrentIsCached, SC!Holds
<1>7. InactiveIsQuiet'
  <2>1. SUFFICES ASSUME ~IsActive PROVE InactiveIsQuiet'
    BY <1>1 DEF InactiveIsQuiet, IsActive
  <2>2. scan' = scan /\ mailbox' = mailbox /\ reading' = reading
    BY <1>1, <1>3, <2>1 DEF StartScan, ScanAfter, JobAfter
  <2> QED BY <1>1, <2>1, <2>2 DEF InactiveIsQuiet
<1> QED BY <1>4, <1>5, <1>6, <1>7

LEMMA PollTickKeeps ==
    ASSUME IInv, OnPollTick
    PROVE  IInv'
<1> USE DEF IInv
<1>1. /\ IsActive
      /\ UNCHANGED <<settings, minResults, scanning, locked, cursor, current, cache, answer,
                     throttle, page, card>>
  BY DEF OnPollTick, controls, region, world
<1>2. scan \in Scan
  BY ConditionsTyped
<1>3. /\ scan' \in Scan /\ source' \in Source /\ mailbox' \in Job /\ reading' \in Job
      /\ ShotIsServed' /\ FlaggedScanIsHeld'
  <2>1. CASE scan.inFlight /\ ~scan.pollDeferred
    <3>1. /\ scan' = [scan EXCEPT !.pollDeferred = TRUE]
          /\ UNCHANGED <<source, mailbox, reading>>
      BY <2>1 DEF OnPollTick, ocr
    <3>2. scan' \in Scan /\ scan'.inFlight = scan.inFlight /\ scan'.pendingRect = scan.pendingRect
      BY <1>2, <3>1 DEF Scan
    <3> QED BY <3>1, <3>2 DEF TypeOK, ShotIsServed, FlaggedScanIsHeld
  <2>2. CASE ~(scan.inFlight /\ ~scan.pollDeferred)
    <3> DEFINE s == [scan EXCEPT !.pollDeferred = FALSE]
    <3>1. StartScan(Start(PollRect, FALSE), s)
      BY <2>2 DEF OnPollTick
    <3>2. s \in Scan /\ s.inFlight = scan.inFlight /\ s.pendingRect = scan.pendingRect
      BY <1>2 DEF Scan
    <3>3. Start(PollRect, FALSE) \in Starts
      BY PollRectTyped
    <3> HIDE DEF s
    <3> QED BY <3>1, <3>2, <3>3, StartScanKeeps
  <2> QED BY <2>1, <2>2
<1>4. TypeOK'
  BY <1>1, <1>3 DEF TypeOK
<1>5. AnswerInv(answer, RequestedResults)' /\ CurrentIsCached' /\ InactiveIsQuiet'
  BY <1>1 DEF AnswerInv, RequestedResults, CurrentIsCached, SC!Holds, InactiveIsQuiet, IsActive
<1> QED BY <1>3, <1>4, <1>5

LEMMA CaptureKeeps ==
    ASSUME IInv, Capture
    PROVE  IInv'
<1> USE DEF IInv
<1> DEFINE k == [rect |-> source.serving, page |-> page, card |-> card]
<1>1. /\ source.serving # NoRect
      /\ source' = [source EXCEPT !.shot = k]
      /\ UNCHANGED <<settings, minResults, scanning, locked, cursor, current, cache, answer, scan,
                     throttle, mailbox, reading, page, card>>
  BY DEF Capture, controls, region, ocr, world
<1>2. source \in Source
  BY ConditionsTyped
<1>3. k \in Key /\ k.rect = source.serving
  BY <1>1, <1>2 DEF Key, Source, TypeOK
<1> HIDE DEF k
<1>4. /\ source' \in Source /\ source'.shot = k
      /\ source'.serving = source.serving /\ source'.waiting = source.waiting
  BY <1>1, <1>2, <1>3 DEF Source
<1>5. TypeOK'
  BY <1>1, <1>4 DEF TypeOK
<1>6. ShotIsServed' /\ FlaggedScanIsHeld'
  BY <1>1, <1>3, <1>4 DEF ShotIsServed, FlaggedScanIsHeld
<1>7. AnswerInv(answer, RequestedResults)' /\ CurrentIsCached' /\ InactiveIsQuiet'
  BY <1>1 DEF AnswerInv, RequestedResults, CurrentIsCached, SC!Holds, InactiveIsQuiet, IsActive
<1> QED BY <1>5, <1>6, <1>7

(* The part that a cached and a recognized result share.                     *)
LEMMA EvaluateReturnedKeeps ==
    ASSUME TypeOK, AnswerInv(answer, RequestedResults), NEW k \in Key,
           EvaluateReturned(k, Verdict(k, cursor, TRUE))
    PROVE  /\ current' = k
           /\ answer' \in Answer /\ AnswerInv(answer', RequestedResults)
           /\ throttle' \in {"open", "closed", "pending"}
           /\ ReturnedStart(k, Verdict(k, cursor, TRUE)) \in Starts
           /\ Returned(scan) \in Scan /\ Returned(scan).inFlight = FALSE
           /\ scan' = ScanAfter(ReturnedStart(k, Verdict(k, cursor, TRUE)), Returned(scan))
<1> DEFINE v == Verdict(k, cursor, TRUE)
<1>1. /\ current' = k
      /\ answer' = IF v = "none" /\ Grows(k, v) THEN [answer EXCEPT !.last = NoHit]
                   ELSE Evaluated(answer, k, cursor, v)
      /\ throttle' = ThrottleAfter(AsksForScan(v))
      /\ scan' = ScanAfter(ReturnedStart(k, v), Returned(scan))
  BY DEF EvaluateReturned
<1>2. cursor \in Point /\ RequestedResults \in Nat /\ answer \in Answer /\ scan \in Scan
  BY ConditionsTyped DEF TypeOK
<1>3. answer' \in Answer /\ AnswerInv(answer', RequestedResults)
  <2>1. CASE v = "none" /\ Grows(k, v)
    BY <1>1, <1>2, <2>1, ForgottenKeeps
  <2>2. CASE ~(v = "none" /\ Grows(k, v))
    <3>1. TRUE \in BOOLEAN
      OBVIOUS
    <3>2. answer' = Evaluated(answer, k, cursor, Verdict(k, cursor, TRUE))
      BY <1>1, <2>2
    <3> QED BY <1>2, <3>1, <3>2, EvaluatedKeeps
  <2> QED BY <2>1, <2>2
<1> HIDE DEF v
<1>4. throttle' \in {"open", "closed", "pending"}
  <2>1. AsksForScan(v) \in BOOLEAN
    BY DEF AsksForScan, TypeOK, Setting
  <2> QED BY <1>1, <1>2, <2>1, ThrottledStartTyped
<1>5. ReturnedStart(k, v) \in Starts
  BY ReturnedStartTyped
<1>6. Returned(scan) \in Scan /\ Returned(scan).inFlight = FALSE
  BY <1>2 DEF Returned, Scan
<1> QED BY <1>1, <1>3, <1>4, <1>5, <1>6 DEF v

LEMMA FrameReadyKeeps ==
    ASSUME IInv, OnFrameReady
    PROVE  IInv'
<1> USE DEF IInv
<1> DEFINE k == source.shot
<1>1. /\ k # NoKey
      /\ DropFrame(k) \/ AnswerFromCache(k) \/ RecognizeFrame(k)
      /\ UNCHANGED <<settings, minResults, scanning, locked, cursor, page, card>>
  BY DEF OnFrameReady, controls, world
<1>2. source \in Source /\ scan \in Scan /\ cache \in Seq(Key) /\ Len(cache) <= Capacity
  BY ConditionsTyped
<1>3. k \in Key /\ k.rect = source.serving /\ source.serving \in Rect /\ source.serving # NoRect
  BY <1>1, <1>2, GeometryAssumption DEF ShotIsServed, Source, Key
<1>4. Ended(source) \in Source /\ Ended(source).serving = source.waiting /\ Ended(source).shot = NoKey
  BY <1>2 DEF Ended, Source
<1>5. (IsActive' <=> IsActive) /\ RequestedResults' = RequestedResults
  BY <1>1 DEF IsActive, RequestedResults
<1>6. CASE DropFrame(k)
  <2>1. /\ ~IsActive \/ k.rect # scan.pendingRect
        /\ source' = Ended(source)
        /\ UNCHANGED <<current, cache, answer, scan, throttle, mailbox, reading>>
    BY <1>6 DEF DropFrame, region, ocr
  <2>2. TypeOK'
    BY <1>1, <1>4, <2>1 DEF TypeOK
  <2>3. FlaggedScanIsHeld'
    BY <1>3, <1>4, <2>1 DEF FlaggedScanIsHeld, InactiveIsQuiet
  <2>4. ShotIsServed' /\ CurrentIsCached'
    BY <1>4, <2>1 DEF ShotIsServed, CurrentIsCached, SC!Holds
  <2>5. AnswerInv(answer, RequestedResults)' /\ InactiveIsQuiet'
    BY <1>5, <2>1 DEF AnswerInv, InactiveIsQuiet
  <2> QED BY <2>2, <2>3, <2>4, <2>5
<1>7. CASE AnswerFromCache(k)
  <2> DEFINE v == Verdict(k, cursor, TRUE)
             start == ReturnedStart(k, v)
  <2>1. /\ IsActive /\ SC!Holds(cache, k)
        /\ cache' = SC!Promoted(cache, k)
        /\ EvaluateReturned(k, v)
        /\ source' = Ended(SourceAfter(start, source))
        /\ mailbox' = JobAfter(start, mailbox)
        /\ reading' = JobAfter(start, reading)
    BY <1>7 DEF AnswerFromCache
  <2>2. /\ current' = k
        /\ answer' \in Answer /\ AnswerInv(answer', RequestedResults)
        /\ throttle' \in {"open", "closed", "pending"}
        /\ start \in Starts
        /\ Returned(scan) \in Scan /\ Returned(scan).inFlight = FALSE
        /\ scan' = ScanAfter(start, Returned(scan))
    BY <1>3, <2>1, EvaluateReturnedKeeps
  <2> HIDE DEF v, start, k
  <2>3. cache' \in Seq(Key) /\ Len(cache') <= Capacity /\ SC!Holds(cache', k)
    BY <1>2, <1>3, <2>1, FoundKeeps
  <2>4. mailbox \in Job /\ reading \in Job
    BY DEF TypeOK
  <2>5. scan' \in Scan /\ mailbox' \in Job /\ reading' \in Job
    BY <2>1, <2>2, <2>4, <1>2, StartedScan
  <2>6. /\ SourceAfter(start, source) \in Source
        /\ start = NoStart => scan'.inFlight = FALSE
        /\ start # NoStart => SourceAfter(start, source).waiting = scan'.pendingRect
    BY <1>2, <1>3, <2>2, <2>4, StartedScan
  <2>7. /\ source' \in Source /\ source'.shot = NoKey
        /\ source'.serving = SourceAfter(start, source).waiting
    BY <2>1, <2>6 DEF Ended, Source
  <2>8. TypeOK'
    BY <1>1, <1>3, <2>2, <2>3, <2>5, <2>7 DEF TypeOK
  <2>9. FlaggedScanIsHeld' /\ ShotIsServed'
    BY <2>6, <2>7 DEF FlaggedScanIsHeld, ShotIsServed
  <2>10. CurrentIsCached'
    BY <2>2, <2>3 DEF CurrentIsCached, SC!Holds
  <2>11. AnswerInv(answer', RequestedResults') /\ InactiveIsQuiet'
    BY <1>5, <2>1, <2>2 DEF InactiveIsQuiet
  <2> QED BY <2>8, <2>9, <2>10, <2>11
<1>8. CASE RecognizeFrame(k)
  <2>1. /\ IsActive /\ mailbox' = k
        /\ source' = Ended(source)
        /\ UNCHANGED <<current, cache, answer, scan, throttle, reading>>
    BY <1>8 DEF RecognizeFrame, region
  <2>2. TypeOK'
    BY <1>1, <1>3, <1>4, <2>1 DEF TypeOK, Job
  <2>3. FlaggedScanIsHeld' /\ ShotIsServed'
    BY <1>3, <1>4, <2>1 DEF FlaggedScanIsHeld, ShotIsServed
  <2>4. CurrentIsCached'
    BY <2>1 DEF CurrentIsCached, SC!Holds
  <2>5. AnswerInv(answer, RequestedResults)' /\ InactiveIsQuiet'
    BY <1>5, <2>1 DEF AnswerInv, InactiveIsQuiet
  <2> QED BY <2>2, <2>3, <2>4, <2>5
<1> QED BY <1>1, <1>6, <1>7, <1>8

LEMMA FrameFailedKeeps ==
    ASSUME IInv, OnFrameFailed
    PROVE  IInv'
<1> USE DEF IInv
<1>1. /\ scan' = Returned(scan) /\ source' = Ended(source)
      /\ UNCHANGED <<settings, minResults, scanning, locked, cursor, current, cache, answer,
                     throttle, mailbox, reading, page, card>>
  BY DEF OnFrameFailed, controls, region, ocr, world
<1>2. source \in Source /\ scan \in Scan
  BY ConditionsTyped
<1>3. Returned(scan) \in Scan /\ Returned(scan).inFlight = FALSE
  BY <1>2 DEF Returned, Scan
<1>4. Ended(source) \in Source /\ Ended(source).shot = NoKey
  BY <1>2 DEF Ended, Source
<1>5. TypeOK'
  BY <1>1, <1>3, <1>4 DEF TypeOK
<1>6. FlaggedScanIsHeld' /\ ShotIsServed'
  BY <1>1, <1>3, <1>4 DEF FlaggedScanIsHeld, ShotIsServed
<1>7. AnswerInv(answer, RequestedResults)' /\ CurrentIsCached' /\ InactiveIsQuiet'
  BY <1>1, <1>3 DEF AnswerInv, RequestedResults, CurrentIsCached, SC!Holds, InactiveIsQuiet, IsActive
<1> QED BY <1>5, <1>6, <1>7

LEMMA DrainKeeps ==
    ASSUME IInv, Drain
    PROVE  IInv'
<1> USE DEF IInv
<1>1. /\ reading = NoKey /\ reading' = mailbox /\ mailbox' = NoKey
      /\ UNCHANGED <<settings, minResults, scanning, locked, cursor, current, cache, answer, scan,
                     throttle, source, page, card>>
  BY DEF Drain, controls, region, world
<1>2. TypeOK'
  BY <1>1 DEF TypeOK, Job
<1>3. FlaggedScanIsHeld' /\ ShotIsServed'
  BY <1>1, NullAssumption DEF FlaggedScanIsHeld, ShotIsServed
<1>4. AnswerInv(answer, RequestedResults)' /\ CurrentIsCached' /\ InactiveIsQuiet'
  BY <1>1, NullAssumption
     DEF AnswerInv, RequestedResults, CurrentIsCached, SC!Holds, InactiveIsQuiet, IsActive
<1> QED BY <1>2, <1>3, <1>4

LEMMA RecognizedKeeps ==
    ASSUME IInv, NEW success \in BOOLEAN, OnRecognized(success)
    PROVE  IInv'
<1> USE DEF IInv
<1> DEFINE k == reading
           v == Verdict(k, cursor, TRUE)
           start == ReturnedStart(k, v)
<1>1. /\ reading # NoKey /\ reading' = NoKey
      /\ UNCHANGED <<settings, minResults, scanning, locked, cursor, page, card>>
  BY DEF OnRecognized, controls, world
<1>2. source \in Source /\ scan \in Scan /\ cache \in Seq(Key) /\ Len(cache) <= Capacity
  BY ConditionsTyped
<1>3. (IsActive' <=> IsActive) /\ RequestedResults' = RequestedResults
  BY <1>1 DEF IsActive, RequestedResults
<1>4. NoKey \in Job /\ mailbox \in Job /\ reading \in Job
  BY DEF TypeOK, Job
<1>5. CASE k = OldKey \/ ~IsActive
  <2>1. UNCHANGED <<current, cache, answer, scan, throttle, source, mailbox>>
    BY <1>5 DEF OnRecognized, region
  <2>2. TypeOK'
    BY <1>1, <1>4, <2>1 DEF TypeOK
  <2>3. FlaggedScanIsHeld' /\ ShotIsServed'
    BY <1>1, <1>5, <2>1, NullAssumption DEF FlaggedScanIsHeld, ShotIsServed, InactiveIsQuiet
  <2>4. AnswerInv(answer, RequestedResults)' /\ CurrentIsCached' /\ InactiveIsQuiet'
    BY <1>1, <1>3, <2>1, NullAssumption
       DEF AnswerInv, CurrentIsCached, SC!Holds, InactiveIsQuiet
  <2> QED BY <2>2, <2>3, <2>4
<1>6. CASE k # OldKey /\ IsActive /\ ~success
  <2>1. scan' = Returned(scan) /\ UNCHANGED <<current, cache, answer, throttle, source, mailbox>>
    BY <1>6 DEF OnRecognized, region
  <2>2. Returned(scan) \in Scan /\ Returned(scan).inFlight = FALSE
    BY <1>2 DEF Returned, Scan
  <2>3. TypeOK'
    BY <1>1, <1>4, <2>1, <2>2 DEF TypeOK
  <2>4. FlaggedScanIsHeld' /\ ShotIsServed'
    BY <2>1, <2>2 DEF FlaggedScanIsHeld, ShotIsServed
  <2>5. AnswerInv(answer, RequestedResults)' /\ CurrentIsCached' /\ InactiveIsQuiet'
    BY <1>3, <1>6, <2>1 DEF AnswerInv, CurrentIsCached, SC!Holds, InactiveIsQuiet
  <2> QED BY <2>3, <2>4, <2>5
<1>7. CASE k # OldKey /\ IsActive /\ success
  <2>1. /\ cache' = SC!Inserted(cache, k)
        /\ EvaluateReturned(k, v)
        /\ source' = SourceAfter(start, source)
        /\ mailbox' = JobAfter(start, mailbox)
    BY <1>7 DEF OnRecognized
  <2>2. k \in Key
    BY <1>1, <1>4, <1>7 DEF Job
  <2>3. /\ current' = k
        /\ answer' \in Answer /\ AnswerInv(answer', RequestedResults)
        /\ throttle' \in {"open", "closed", "pending"}
        /\ start \in Starts
        /\ Returned(scan) \in Scan /\ Returned(scan).inFlight = FALSE
        /\ scan' = ScanAfter(start, Returned(scan))
    BY <2>1, <2>2, EvaluateReturnedKeeps
  <2> HIDE DEF v, start, k
  <2>4. cache' \in Seq(Key) /\ Len(cache') <= Capacity /\ SC!Holds(cache', k)
    BY <1>2, <2>1, <2>2, InsertedKeeps
  <2>5. /\ scan' \in Scan /\ mailbox' \in Job /\ source' \in Source
        /\ source'.shot = source.shot
        /\ source.serving # NoRect => source'.serving = source.serving
        /\ start = NoStart => scan'.inFlight = FALSE
        /\ start # NoStart => scan'.pendingRect \in {source'.serving, source'.waiting}
    BY <1>2, <1>4, <2>1, <2>3, StartedScan
  <2>6. TypeOK'
    BY <1>1, <1>4, <2>2, <2>3, <2>4, <2>5 DEF TypeOK
  <2>7. FlaggedScanIsHeld'
    BY <2>5 DEF FlaggedScanIsHeld
  <2>8. ShotIsServed'
    BY <1>2, <2>5, GeometryAssumption DEF ShotIsServed, Source, Key
  <2>9. CurrentIsCached'
    BY <2>3, <2>4 DEF CurrentIsCached, SC!Holds
  <2>10. AnswerInv(answer', RequestedResults') /\ InactiveIsQuiet'
    BY <1>3, <1>7, <2>3 DEF InactiveIsQuiet
  <2> QED BY <2>6, <2>7, <2>8, <2>9, <2>10
<1> QED BY <1>5, <1>6, <1>7

LEMMA LookupKeeps ==
    ASSUME IInv, NEW l \in answer.lookups, NEW found \in BOOLEAN, DeliverLookup(l, found)
    PROVE  IInv'
<1> USE DEF IInv
<1>1. /\ answer' = Delivered(answer, l, found)
      /\ UNCHANGED <<settings, minResults, scanning, locked, cursor, current, cache, scan,
                     throttle, source, mailbox, reading, page, card>>
  BY DEF DeliverLookup, controls, region, ocr, world
<1>2. IsActive
  BY DEF InactiveIsQuiet
<1>3. answer' \in Answer /\ AnswerInv(answer', RequestedResults)
  BY <1>1, <1>2, ConditionsTyped, DeliveredKeeps
<1>4. TypeOK'
  BY <1>1, <1>3 DEF TypeOK
<1>5. RequestedResults' = RequestedResults /\ IsActive'
  BY <1>1, <1>2 DEF RequestedResults, IsActive
<1>6. FlaggedScanIsHeld' /\ ShotIsServed' /\ CurrentIsCached' /\ InactiveIsQuiet'
  BY <1>1, <1>5 DEF FlaggedScanIsHeld, ShotIsServed, CurrentIsCached, SC!Holds, InactiveIsQuiet
<1> QED BY <1>3, <1>4, <1>5, <1>6

(* A change of the controls after which n results are asked for.             *)
LEMMA UpdateActivityKeeps ==
    ASSUME IInv, NEW active \in BOOLEAN, NEW a \in Answer, NEW n \in Nat, AnswerInv(a, n),
           UpdateActivity(active, a), UNCHANGED <<cursor, source, page, card>>,
           settings' \in Setting, minResults' \in Nat, scanning' \in BOOLEAN, locked' \in BOOLEAN,
           IsActive' <=> active, RequestedResults' = n
    PROVE  IInv'
<1> USE DEF IInv
<1>1. scan \in Scan
  BY ConditionsTyped
<1>2. CASE active
  <2>1. answer' = a /\ UNCHANGED <<current, cache, scan, throttle, mailbox, reading>>
    BY <1>2 DEF UpdateActivity, region, ocr
  <2>2. TypeOK'
    BY <2>1 DEF TypeOK
  <2>3. FlaggedScanIsHeld' /\ ShotIsServed' /\ CurrentIsCached' /\ InactiveIsQuiet'
    BY <1>2, <2>1 DEF FlaggedScanIsHeld, ShotIsServed, CurrentIsCached, SC!Holds, InactiveIsQuiet
  <2>4. AnswerInv(answer', RequestedResults')
    BY <2>1
  <2> QED BY <2>2, <2>3, <2>4
<1>3. CASE ~active
  <2> DEFINE s == [scan EXCEPT !.pendingRect = NoRect, !.inFlight = FALSE, !.pollDeferred = FALSE]
  <2>1. /\ answer' = Withdrawn(a) /\ current' = NoKey /\ cache' = <<>> /\ scan' = s
        /\ throttle' = IF throttle = "pending" THEN "closed" ELSE throttle
        /\ mailbox' = Stale(mailbox) /\ reading' = Stale(reading)
    BY <1>3 DEF UpdateActivity
  <2>2. s \in Scan /\ s.inFlight = FALSE
    BY <1>1 DEF Scan
  <2>3. /\ mailbox' \in Job /\ reading' \in Job /\ mailbox' \notin Key /\ reading' \notin Key
    BY <2>1, NullAssumption DEF Stale, Job
  <2>4. /\ answer' \in Answer /\ AnswerInv(answer', n)
        /\ answer'.shown = NoCard /\ answer'.lookups = {}
    BY <2>1, WithdrawnKeeps
  <2>5. cache' \in Seq(Key) /\ Len(cache') <= Capacity
    BY <2>1, InputAssumption
  <2> HIDE DEF s
  <2>6. throttle' \in {"open", "closed"}
    BY <2>1 DEF TypeOK
  <2>7. TypeOK'
    BY <2>1, <2>2, <2>3, <2>4, <2>5, <2>6 DEF TypeOK
  <2>8. FlaggedScanIsHeld' /\ ShotIsServed' /\ CurrentIsCached'
    BY <2>1, <2>2 DEF FlaggedScanIsHeld, ShotIsServed, CurrentIsCached
  <2>9. InactiveIsQuiet'
    BY <2>1, <2>2, <2>3, <2>4, <2>6 DEF InactiveIsQuiet
  <2> QED BY <2>4, <2>7, <2>8, <2>9
<1> QED BY <1>2, <1>3

LEMMA ScanningKeeps ==
    ASSUME IInv, NEW on \in BOOLEAN, SetScanning(on)
    PROVE  IInv'
<1> DEFINE active == ActiveUnder(settings, on, locked)
<1>1. /\ scanning' = on
      /\ UpdateActivity(active, answer)
      /\ UNCHANGED <<settings, minResults, locked, cursor, source, page, card>>
  BY DEF SetScanning, world
<1>2. active \in BOOLEAN /\ (IsActive' <=> active) /\ RequestedResults' = RequestedResults
  BY <1>1 DEF IsActive, ActiveUnder, RequestedResults
<1>3. /\ settings' \in Setting /\ minResults' \in Nat /\ scanning' \in BOOLEAN /\ locked' \in BOOLEAN
  BY <1>1 DEF IInv, TypeOK
<1>4. answer \in Answer /\ RequestedResults \in Nat /\ AnswerInv(answer, RequestedResults)
  BY ConditionsTyped DEF IInv
<1> HIDE DEF active
<1> QED BY <1>1, <1>2, <1>3, <1>4, UpdateActivityKeeps

LEMMA LockedKeeps ==
    ASSUME IInv, NEW lock \in Locks, OnLockedChanged(lock)
    PROVE  IInv'
<1> DEFINE active == ActiveUnder(settings, scanning, lock)
<1>1. /\ locked' = lock
      /\ UpdateActivity(active, answer)
      /\ UNCHANGED <<settings, minResults, scanning, cursor, source, page, card>>
  BY DEF OnLockedChanged, world
<1>2. active \in BOOLEAN /\ (IsActive' <=> active) /\ RequestedResults' = RequestedResults
  BY <1>1 DEF IInv, TypeOK, IsActive, ActiveUnder, RequestedResults
<1>3. /\ settings' \in Setting /\ minResults' \in Nat /\ scanning' \in BOOLEAN /\ locked' \in BOOLEAN
  BY <1>1, InputAssumption DEF IInv, TypeOK
<1>4. answer \in Answer /\ RequestedResults \in Nat /\ AnswerInv(answer, RequestedResults)
  BY ConditionsTyped DEF IInv
<1> HIDE DEF active
<1> QED BY <1>1, <1>2, <1>3, <1>4, UpdateActivityKeeps

LEMMA SettingsKeep ==
    ASSUME IInv, NEW s \in Settings, ApplySettings(s)
    PROVE  IInv'
<1> DEFINE active == ActiveUnder(s, scanning, locked)
           n == Requested(s, minResults)
           a == LookedUpAgain(answer, RequestedResults, n, active)
<1>1. /\ settings' = s
      /\ UpdateActivity(active, a)
      /\ UNCHANGED <<minResults, scanning, locked, cursor, source, page, card>>
  BY DEF ApplySettings, world
<1>2. s \in Setting
  BY InputAssumption
<1>3. active \in BOOLEAN /\ (IsActive' <=> active) /\ n \in Nat /\ RequestedResults' = n
  BY <1>1, <1>2 DEF IInv, TypeOK, Setting, IsActive, ActiveUnder, RequestedResults, Requested
<1>4. /\ settings' \in Setting /\ minResults' \in Nat /\ scanning' \in BOOLEAN /\ locked' \in BOOLEAN
  BY <1>1, <1>2 DEF IInv, TypeOK
<1>5. answer \in Answer /\ RequestedResults \in Nat /\ AnswerInv(answer, RequestedResults)
  BY ConditionsTyped DEF IInv
<1> HIDE DEF active, n
<1>6. a \in Answer /\ AnswerInv(a, n)
  BY <1>3, <1>5, LookedUpAgainKeeps
<1> HIDE DEF a
<1> QED BY <1>1, <1>3, <1>4, <1>6, UpdateActivityKeeps

LEMMA MinimumKeeps ==
    ASSUME IInv, NEW n \in Counts, SetMinimumResults(n)
    PROVE  IInv'
<1> USE DEF IInv
<1> DEFINE m == Requested(settings, n)
           active == IsActive
           a == LookedUpAgain(answer, RequestedResults, m, active)
<1>1. /\ minResults' = n
      /\ answer' = a
      /\ UNCHANGED <<settings, scanning, locked, cursor, current, cache, scan, throttle, source,
                     mailbox, reading, page, card>>
  BY DEF SetMinimumResults, region, ocr, world
<1>2. n \in Nat /\ m \in Nat /\ RequestedResults' = m /\ (IsActive' <=> IsActive)
  BY <1>1, InputAssumption DEF TypeOK, Setting, Requested, RequestedResults, IsActive
<1>3. /\ answer \in Answer /\ RequestedResults \in Nat /\ active \in BOOLEAN
      /\ AnswerInv(answer, RequestedResults)
  BY ConditionsTyped
<1> HIDE DEF m, active
<1>4. /\ a \in Answer /\ AnswerInv(a, m)
      /\ ~active => a.lookups = answer.lookups /\ a.shown = answer.shown
  BY <1>2, <1>3, LookedUpAgainKeeps
<1> HIDE DEF a
<1>5. TypeOK'
  BY <1>1, <1>2, <1>4 DEF TypeOK
<1>6. FlaggedScanIsHeld' /\ ShotIsServed' /\ CurrentIsCached'
  BY <1>1 DEF FlaggedScanIsHeld, ShotIsServed, CurrentIsCached, SC!Holds
<1>7. InactiveIsQuiet'
  BY <1>1, <1>2, <1>4 DEF InactiveIsQuiet, active
<1> QED BY <1>1, <1>2, <1>4, <1>5, <1>6, <1>7

LEMMA ForceRescanKeeps ==
    ASSUME IInv, ForceRescan
    PROVE  IInv'
<1> USE DEF IInv
<1> DEFINE start == IF IsActive THEN Start(InitialRect[cursor], FALSE) ELSE NoStart
<1>1. /\ cache' = <<>> /\ current' = NoKey
      /\ answer' = [answer EXCEPT !.last = NoHit]
      /\ throttle' = IF IsActive /\ throttle = "pending" THEN "closed" ELSE throttle
      /\ StartScan(start, scan)
      /\ UNCHANGED <<settings, minResults, scanning, locked, cursor, page, card>>
  BY DEF ForceRescan, controls, world
<1>2. answer \in Answer /\ scan \in Scan /\ RequestedResults \in Nat
  BY ConditionsTyped
<1>3. start \in Starts
  BY GeometryAssumption DEF TypeOK, Start, Starts
<1>4. ~IsActive => scan' = scan /\ mailbox' = mailbox /\ reading' = reading
  BY <1>1 DEF StartScan, ScanAfter, JobAfter
<1> HIDE DEF start
<1>5. /\ scan' \in Scan /\ source' \in Source /\ mailbox' \in Job /\ reading' \in Job
      /\ ShotIsServed' /\ FlaggedScanIsHeld'
  BY <1>1, <1>2, <1>3, StartScanKeeps
<1>6. answer' \in Answer /\ AnswerInv(answer', RequestedResults)
  BY <1>1, <1>2, ForgottenKeeps
<1>7. answer'.shown = answer.shown /\ answer'.lookups = answer.lookups
  BY <1>1, <1>2 DEF Answer
<1>8. RequestedResults' = RequestedResults /\ (IsActive' <=> IsActive)
  BY <1>1 DEF RequestedResults, IsActive
<1>9. cache' \in Seq(Key) /\ Len(cache') <= Capacity
  BY <1>1, InputAssumption
<1>10. TypeOK'
  BY <1>1, <1>5, <1>6, <1>9 DEF TypeOK
<1>11. CurrentIsCached' /\ InactiveIsQuiet'
  BY <1>1, <1>4, <1>7, <1>8 DEF CurrentIsCached, InactiveIsQuiet
<1> QED BY <1>5, <1>6, <1>8, <1>10, <1>11

(* The screen changes, and nothing of the controller does.                   *)
LEMMA WorldKeeps ==
    ASSUME IInv, page' \in Page, card' \in Cards,
           UNCHANGED <<controls, cursor, region, answer, scan, throttle, source, ocr>>
    PROVE  IInv'
<1> USE DEF IInv, controls, region, ocr
<1>1. TypeOK'
  BY DEF TypeOK
<1>2. FlaggedScanIsHeld' /\ ShotIsServed' /\ CurrentIsCached'
  BY DEF FlaggedScanIsHeld, ShotIsServed, CurrentIsCached, SC!Holds
<1>3. AnswerInv(answer, RequestedResults)' /\ InactiveIsQuiet'
  BY DEF AnswerInv, RequestedResults, InactiveIsQuiet, IsActive
<1> QED BY <1>1, <1>2, <1>3

LEMMA RepaintKeeps ==
    ASSUME IInv, NEW q \in Page, NEW over \in {card, Drawn}, Repaint(q, over)
    PROVE  IInv'
<1>1. answer.shown # NoCard => answer.shown.hit.char \in Char
  BY ConditionsTyped DEF IInv, Answer, Card, Hit
<1>2. page' \in Page /\ card' \in Cards
  BY <1>1 DEF Drawn, Repaint, IInv, TypeOK, Cards
<1> QED BY <1>2, WorldKeeps DEF Repaint

-----------------------------------------------------------------------------
(* The invariant, and what it says of the loop.                              *)

LEMMA NextKeeps ==
    ASSUME IInv, [Next]_vars
    PROVE  IInv'
<1>1. CASE UNCHANGED vars
  <2>1. page' \in Page /\ card' \in Cards
    BY <1>1 DEF vars, world, IInv, TypeOK
  <2> QED BY <1>1, <2>1, WorldKeeps DEF vars
<1>2. CASE Scanning
  <2>1. ASSUME NEW l \in answer.lookups, DeliverLookup(l, l.hit.char \in Known)
        PROVE  IInv'
    <3>1. (l.hit.char \in Known) \in BOOLEAN
      OBVIOUS
    <3> QED BY <2>1, <3>1, LookupKeeps
  <2>2. ASSUME OnRecognized(TRUE)
        PROVE  IInv'
    <3>1. TRUE \in BOOLEAN
      OBVIOUS
    <3> QED BY <2>2, <3>1, RecognizedKeeps
  <2> QED BY <1>2, <2>1, <2>2, ThrottleFiredKeeps, CaptureKeeps, FrameReadyKeeps, DrainKeeps
     DEF Scanning
<1>3. CASE OnPollTick
  BY <1>3, PollTickKeeps
<1>4. CASE Intervention
  <2>1. ASSUME NEW l \in answer.lookups, DeliverLookup(l, l.hit.char \notin Known)
        PROVE  IInv'
    <3>1. (l.hit.char \notin Known) \in BOOLEAN
      OBVIOUS
    <3> QED BY <2>1, <3>1, LookupKeeps
  <2>2. ASSUME OnRecognized(FALSE)
        PROVE  IInv'
    <3>1. FALSE \in BOOLEAN
      OBVIOUS
    <3> QED BY <2>2, <3>1, RecognizedKeeps
  <2> QED BY <1>4, <2>1, <2>2, PositionKeeps, FrameFailedKeeps, ScanningKeeps, LockedKeeps,
             SettingsKeep, MinimumKeeps, ForceRescanKeeps DEF Intervention
<1>5. CASE \E q \in Page, over \in {card, Drawn} : Repaint(q, over)
  BY <1>5, RepaintKeeps
<1> QED BY <1>1, <1>2, <1>3, <1>4, <1>5 DEF Next

THEOREM Invariance == Spec => []IInv
<1>1. Init => IInv
  BY InitEstablishes
<1>2. IInv /\ [Next]_vars => IInv'
  BY NextKeeps
<1> QED BY <1>1, <1>2, PTL DEF Spec

(* The state keeps its types: in particular every scan waits for a region of *)
(* the ladder and the cache never grows past its capacity.                   *)
THEOREM TypeCorrectness == Spec => []TypeOK
<1>1. IInv => TypeOK
  BY DEF IInv
<1> QED BY <1>1, Invariance, PTL

(* The last hit is answered by the card or by a lookup under way, and every  *)
(* lookup under way is for the hit deliverLookup() takes it to be for.       *)
THEOREM AnswerSafety == Spec => []LastHitIsAnswered
<1>1. IInv => LastHitIsAnswered
  BY DEF IInv, AnswerInv, LastHitIsAnswered
<1> QED BY <1>1, Invariance, PTL

LEMMA CountFollows ==
    ASSUME IInv
    PROVE  CountIsSatisfied
<1>1. answer \in Answer /\ RequestedResults \in Nat
  BY ConditionsTyped DEF IInv
<1>2. answer.lookups # {} => \E l \in answer.lookups : l = answer.request
  BY DEF IInv, AnswerInv
<1>3. answer.last # NoHit => answer.request.max \in Nat
  BY DEF IInv, AnswerInv, Request
<1> QED BY <1>1, <1>2, <1>3 DEF IInv, AnswerInv, CountIsSatisfied

(* A card with fewer results than are asked for does not stay as it is.      *)
THEOREM CountSafety == Spec => []CountIsSatisfied
<1>1. IInv => CountIsSatisfied
  BY CountFollows
<1> QED BY <1>1, Invariance, PTL

(* The result under the pointer is in the cache, at every capacity.          *)
THEOREM CacheSafety == Spec => []CurrentIsCached
<1>1. IInv => CurrentIsCached
  BY DEF IInv
<1> QED BY <1>1, Invariance, PTL

(* A poll is held back only by a scan that somebody will return.             *)
THEOREM FlagSafety == Spec => []FlaggedScanIsHeld
<1>1. IInv => FlaggedScanIsHeld
  BY DEF IInv
<1> QED BY <1>1, Invariance, PTL

(* An inactive loop shows nothing and listens to nothing.                    *)
THEOREM PauseSafety == Spec => []InactiveIsQuiet
<1>1. IInv => InactiveIsQuiet
  BY DEF IInv
<1> QED BY <1>1, Invariance, PTL

-----------------------------------------------------------------------------
(* Where a card goes up, and what takes it down.                             *)

(* Evaluating a result raises no card, and takes one down only where the     *)
(* result shows the spot under the pointer.                                  *)
LEMMA EvaluatedShows ==
    ASSUME IInv, NEW k \in Key, NEW p \in Point, NEW returned \in BOOLEAN
    PROVE  LET v == Verdict(k, p, returned)
               b == Evaluated(answer, k, p, v)
           IN  /\ b.shown \in {answer.shown, NoCard}
               /\ answer.shown # NoCard /\ b.shown = NoCard =>
                    /\ p \notin k.card
                    /\ CharAt(k, p) # NoChar => Centre[CharAt(k, p)] \notin k.card
               /\ b.hitActive /\ ~returned => Answered(answer, v)
<1> DEFINE v == Verdict(k, p, returned)
           b == Evaluated(answer, k, p, v)
           h == [key |-> k, char |-> CharAt(k, p)]
<1> SUFFICES /\ b.shown \in {answer.shown, NoCard}
             /\ answer.shown # NoCard /\ b.shown = NoCard =>
                    /\ p \notin k.card
                    /\ CharAt(k, p) # NoChar => Centre[CharAt(k, p)] \notin k.card
             /\ b.hitActive /\ ~returned => Answered(answer, v)
  OBVIOUS
<1>1. answer \in Answer /\ (answer.hitActive <=> answer.shown # NoCard)
  BY ConditionsTyped DEF IInv, AnswerInv
<1>2. /\ NoHitReported(answer).shown \in {answer.shown, NoCard}
      /\ ~NoHitReported(answer).hitActive
  BY <1>1 DEF NoHitReported, Answer
<1>3. Found(answer, h).shown = answer.shown
  <2> HIDE DEF h
  <2> QED BY <1>1 DEF Found, Dispatched, Answer
<1>4. /\ v \in {"hold", "left", "none", "foreign", "hit"}
      /\ v = "left" => returned
      /\ v \in {"none", "foreign"} =>
            /\ p \notin k.card
            /\ CharAt(k, p) # NoChar => Centre[CharAt(k, p)] \notin k.card
  BY DEF Verdict
<1> HIDE DEF v, h
<1>5. CASE v = "hold"
  <2>1. b = IF answer.hitActive THEN answer ELSE NoHitReported(answer)
    BY <1>5 DEF Evaluated, HeldThroughOcclusion
  <2> QED BY <1>1, <1>2, <1>5, <2>1 DEF Answered
<1>6. CASE v = "left"
  <2>1. b = answer
    BY <1>6 DEF Evaluated
  <2> QED BY <1>4, <1>6, <2>1
<1>7. CASE v \in {"none", "foreign"}
  <2>1. b = NoHitReported(answer)
    BY <1>7 DEF Evaluated
  <2> QED BY <1>2, <1>4, <1>7, <2>1
<1>8. CASE v = "hit"
  <2>1. b = Found(answer, h)
    BY <1>8 DEF Evaluated, h
  <2> QED BY <1>3, <1>8, <2>1 DEF Answered
<1> QED BY <1>4, <1>5, <1>6, <1>7, <1>8

(* A handler that leaves the pointer alone and raises no card.               *)
LEMMA PlacedWhereNothingRises ==
    ASSUME cursor' = cursor, answer'.shown \in {answer.shown, NoCard}
    PROVE  PlacedAtPointer
BY DEF PlacedAtPointer

LEMMA PositionPlaces ==
    ASSUME IInv, NEW p \in Point, OnPositionChanged(p)
    PROVE  PlacedAtPointer /\ WithdrawnForCause
<1> DEFINE covered == /\ current # NoKey
                      /\ p \in Covers[current.rect]
                      /\ SC!Holds(cache, current)
           v == Verdict(current, p, FALSE)
           after == IF covered THEN Evaluated(answer, current, p, v) ELSE answer
           answered == covered /\ Answered(answer, v)
<1>1. /\ cursor' = p /\ current' = current
      /\ answer' = IF Follows(p, after, answered) THEN MovedTo(after, p) ELSE after
  BY DEF OnPositionChanged
<1>2. current \in Key \cup {NoKey} /\ answer \in Answer /\ RequestedResults \in Nat
  BY ConditionsTyped DEF IInv, TypeOK
<1>3. /\ after \in Answer /\ AnswerInv(after, RequestedResults)
      /\ after.shown \in {answer.shown, NoCard}
      /\ answer.shown # NoCard /\ after.shown = NoCard =>
            /\ p \notin current.card
            /\ CharAt(current, p) # NoChar => Centre[CharAt(current, p)] \notin current.card
      /\ after.hitActive /\ covered => answered
  <2>1. CASE covered
    <3>1. current \in Key /\ FALSE \in BOOLEAN
      BY <1>2, <2>1
    <3>2. after = Evaluated(answer, current, p, Verdict(current, p, FALSE))
      BY <2>1
    <3>3. after \in Answer /\ AnswerInv(after, RequestedResults)
      BY <3>1, <3>2, EvaluatedKeeps DEF IInv
    <3> QED BY <2>1, <3>1, <3>2, <3>3, EvaluatedShows
  <2>2. CASE ~covered
    BY <1>2, <2>2 DEF IInv
  <2> QED BY <2>1, <2>2
<1>4. WillRescan \/ (current # NoKey /\ p \in Covers[current.rect]) => WillRescan \/ covered
  BY DEF IInv, CurrentIsCached
<1> HIDE DEF after, covered, answered
<1>5. after.hitActive <=> after.shown # NoCard
  BY <1>3 DEF AnswerInv
<1>6. MovedTo(after, p).shown = NoCard <=> after.shown = NoCard
  BY <1>2, <1>3, MovedToKeeps
<1>7. after.shown # NoCard => MovedTo(after, p).shown.at = p
  BY <1>3 DEF MovedTo, Answer, Card
<1>8. answer'.shown = NoCard <=> after.shown = NoCard
  BY <1>1, <1>6
<1>9. PlacedAtPointer
  BY <1>1, <1>3, <1>4, <1>5, <1>7, <1>8 DEF PlacedAtPointer, Follows
<1>10. WithdrawnForCause
  BY <1>1, <1>3, <1>8 DEF WithdrawnForCause, Occluded
<1> QED BY <1>9, <1>10

LEMMA ReturnedPlaces ==
    ASSUME IInv, NEW k \in Key, EvaluateReturned(k, Verdict(k, cursor, TRUE)), cursor' = cursor
    PROVE  PlacedAtPointer /\ WithdrawnForCause
<1> DEFINE v == Verdict(k, cursor, TRUE)
<1>1. cursor \in Point /\ TRUE \in BOOLEAN /\ answer \in Answer
  BY ConditionsTyped DEF IInv, TypeOK
<1>2. /\ current' = k
      /\ answer' = IF v = "none" /\ Grows(k, v) THEN [answer EXCEPT !.last = NoHit]
                   ELSE Evaluated(answer, k, cursor, v)
  BY DEF EvaluateReturned
<1>3. CASE v = "none" /\ Grows(k, v)
  <2>1. answer'.shown = answer.shown
    BY <1>1, <1>2, <1>3 DEF Answer
  <2> QED BY <2>1 DEF PlacedAtPointer, WithdrawnForCause
<1>4. CASE ~(v = "none" /\ Grows(k, v))
  <2>1. answer' = Evaluated(answer, k, cursor, Verdict(k, cursor, TRUE))
    BY <1>2, <1>4
  <2>2. /\ answer'.shown \in {answer.shown, NoCard}
        /\ answer.shown # NoCard /\ answer'.shown = NoCard =>
            /\ cursor \notin k.card
            /\ CharAt(k, cursor) # NoChar => Centre[CharAt(k, cursor)] \notin k.card
    BY <1>1, <2>1, EvaluatedShows
  <2>3. PlacedAtPointer
    BY <2>2, PlacedWhereNothingRises
  <2> QED BY <1>2, <2>2, <2>3 DEF WithdrawnForCause, Occluded
<1> QED BY <1>3, <1>4

LEMMA LookupPlaces ==
    ASSUME IInv, NEW l \in answer.lookups, NEW found \in BOOLEAN, DeliverLookup(l, found)
    PROVE  PlacedAtPointer /\ WithdrawnForCause
<1>1. answer \in Answer /\ cursor' = cursor /\ answer' = Delivered(answer, l, found)
  BY ConditionsTyped DEF DeliverLookup, IInv
<1>2. answer'.shown \in {answer.shown, NoCard} \/ answer'.shown.at = cursor
  BY <1>1 DEF Delivered, NoHitReported, Answer
<1> QED BY <1>1, <1>2 DEF PlacedAtPointer, WithdrawnForCause

LEMMA ActivityPlaces ==
    ASSUME IInv, NEW active \in BOOLEAN, NEW a \in Answer, a.shown = answer.shown,
           UpdateActivity(active, a), cursor' = cursor, IsActive' <=> active
    PROVE  PlacedAtPointer /\ WithdrawnForCause
<1>1. /\ answer'.shown \in {answer.shown, NoCard}
      /\ IsActive' => answer'.shown = answer.shown
  BY DEF UpdateActivity, Withdrawn, Answer
<1>2. PlacedAtPointer
  BY <1>1, PlacedWhereNothingRises
<1> QED BY <1>1, <1>2 DEF WithdrawnForCause

LEMMA ControlsPlace ==
    ASSUME IInv,
           \/ \E on \in BOOLEAN : SetScanning(on)
           \/ \E lock \in Locks : OnLockedChanged(lock)
           \/ \E s \in Settings : ApplySettings(s)
    PROVE  PlacedAtPointer /\ WithdrawnForCause
<1>1. /\ answer \in Answer /\ RequestedResults \in Nat
      /\ minResults \in Nat /\ scanning \in BOOLEAN /\ locked \in BOOLEAN /\ settings \in Setting
  BY ConditionsTyped DEF IInv, TypeOK
<1>2. ASSUME NEW on \in BOOLEAN, SetScanning(on)
      PROVE  PlacedAtPointer /\ WithdrawnForCause
  <2> DEFINE active == ActiveUnder(settings, on, locked)
  <2>1. /\ UpdateActivity(active, answer) /\ cursor' = cursor
        /\ active \in BOOLEAN /\ (IsActive' <=> active)
    BY <1>2 DEF SetScanning, ActiveUnder, IsActive
  <2> HIDE DEF active
  <2> QED BY <1>1, <2>1, ActivityPlaces
<1>3. ASSUME NEW lock \in Locks, OnLockedChanged(lock)
      PROVE  PlacedAtPointer /\ WithdrawnForCause
  <2> DEFINE active == ActiveUnder(settings, scanning, lock)
  <2>1. /\ UpdateActivity(active, answer) /\ cursor' = cursor
        /\ active \in BOOLEAN /\ (IsActive' <=> active)
    BY <1>1, <1>3 DEF OnLockedChanged, ActiveUnder, IsActive
  <2> HIDE DEF active
  <2> QED BY <1>1, <2>1, ActivityPlaces
<1>4. ASSUME NEW s \in Settings, ApplySettings(s)
      PROVE  PlacedAtPointer /\ WithdrawnForCause
  <2> DEFINE active == ActiveUnder(s, scanning, locked)
             n == Requested(s, minResults)
             a == LookedUpAgain(answer, RequestedResults, n, active)
  <2>1. /\ UpdateActivity(active, a) /\ cursor' = cursor
        /\ active \in BOOLEAN /\ (IsActive' <=> active) /\ n \in Nat
    BY <1>1, <1>4, InputAssumption
       DEF ApplySettings, ActiveUnder, IsActive, Requested, Setting
  <2> HIDE DEF active, n
  <2>2. a \in Answer
    BY <1>1, <2>1, LookedUpAgainKeeps DEF IInv
  <2>3. a.shown = answer.shown
    BY <1>1 DEF LookedUpAgain, Dispatched, Answer
  <2> HIDE DEF a
  <2> QED BY <2>1, <2>2, <2>3, ActivityPlaces
<1> QED BY <1>2, <1>3, <1>4

LEMMA NextPlaces ==
    ASSUME IInv, Next
    PROVE  PlacedAtPointer /\ WithdrawnForCause
<1>1. answer \in Answer /\ source \in Source /\ reading \in Job
  BY ConditionsTyped DEF IInv, TypeOK
<1>2. ASSUME answer' = answer, cursor' = cursor
      PROVE  PlacedAtPointer /\ WithdrawnForCause
  BY <1>2 DEF PlacedAtPointer, WithdrawnForCause
<1>3. ASSUME NEW success \in BOOLEAN, OnRecognized(success)
      PROVE  PlacedAtPointer /\ WithdrawnForCause
  <2>1. CASE reading = OldKey \/ ~IsActive \/ ~success
    BY <1>2, <1>3, <2>1 DEF OnRecognized
  <2>2. CASE ~(reading = OldKey \/ ~IsActive \/ ~success)
    <3>1. reading \in Key /\ cursor' = cursor /\ EvaluateReturned(reading, Verdict(reading, cursor, TRUE))
      BY <1>1, <1>3, <2>2 DEF OnRecognized, Job
    <3> QED BY <3>1, ReturnedPlaces
  <2> QED BY <2>1, <2>2
<1>4. ASSUME OnFrameReady
      PROVE  PlacedAtPointer /\ WithdrawnForCause
  <2>1. source.shot \in Key /\ cursor' = cursor
    BY <1>1, <1>4 DEF OnFrameReady, Source
  <2>2. CASE AnswerFromCache(source.shot)
    <3>1. EvaluateReturned(source.shot, Verdict(source.shot, cursor, TRUE))
      BY <2>2 DEF AnswerFromCache
    <3> QED BY <2>1, <3>1, ReturnedPlaces
  <2>3. CASE DropFrame(source.shot) \/ RecognizeFrame(source.shot)
    BY <1>2, <2>1, <2>3 DEF DropFrame, RecognizeFrame
  <2> QED BY <1>4, <2>2, <2>3 DEF OnFrameReady
<1>5. ASSUME NEW n \in Counts, SetMinimumResults(n)
      PROVE  PlacedAtPointer /\ WithdrawnForCause
  <2>1. answer'.shown = answer.shown /\ cursor' = cursor
    BY <1>1, <1>5 DEF SetMinimumResults, LookedUpAgain, Dispatched, Answer
  <2> QED BY <2>1 DEF PlacedAtPointer, WithdrawnForCause
<1>6. ASSUME ForceRescan
      PROVE  PlacedAtPointer /\ WithdrawnForCause
  <2>1. answer'.shown = answer.shown /\ cursor' = cursor
    BY <1>1, <1>6 DEF ForceRescan, Answer
  <2> QED BY <2>1 DEF PlacedAtPointer, WithdrawnForCause
<1>7. ASSUME OnThrottleFired \/ OnPollTick \/ Capture \/ Drain \/ OnFrameFailed
             \/ \E q \in Page, over \in {card, Drawn} : Repaint(q, over)
      PROVE  PlacedAtPointer /\ WithdrawnForCause
  BY <1>2, <1>7
     DEF OnThrottleFired, OnPollTick, Capture, Drain, OnFrameFailed, Repaint
<1>8. ASSUME NEW l \in answer.lookups,
             DeliverLookup(l, l.hit.char \in Known) \/ DeliverLookup(l, l.hit.char \notin Known)
      PROVE  PlacedAtPointer /\ WithdrawnForCause
  <2>1. (l.hit.char \in Known) \in BOOLEAN /\ (l.hit.char \notin Known) \in BOOLEAN
    OBVIOUS
  <2> QED BY <1>8, <2>1, LookupPlaces
<1>9. TRUE \in BOOLEAN /\ FALSE \in BOOLEAN
  OBVIOUS
<1>10. CASE Scanning
  BY <1>3, <1>4, <1>7, <1>8, <1>9, <1>10 DEF Scanning
<1>11. CASE Intervention
  BY <1>3, <1>5, <1>6, <1>8, <1>7, <1>9, <1>11, PositionPlaces, ControlsPlace DEF Intervention
<1> QED BY <1>7, <1>10, <1>11 DEF Next

(* A sample that leaves the card up moves it to the pointer, and a response  *)
(* puts it up there and not where its hit was tested.                        *)
THEOREM PlacementSafety == Spec => CardFollowsPointer
<1>1. IInv /\ [Next]_vars => [PlacedAtPointer]_vars
  BY NextPlaces
<1> QED BY <1>1, Invariance, PTL DEF Spec, CardFollowsPointer

(* A grab that shows the card in place of the text never takes it down.      *)
THEOREM OcclusionSafety == Spec => CardOutlivesOcclusion
<1>1. IInv /\ [Next]_vars => [WithdrawnForCause]_vars
  BY NextPlaces
<1> QED BY <1>1, Invariance, PTL DEF Spec, CardOutlivesOcclusion

-----------------------------------------------------------------------------
(* What the card answers for, and where the pointer is.                      *)

Pointed == current # NoKey /\ cursor \in Covers[current.rect] /\ ~Occluded

(* The request that is on screen or under way asks about the character under *)
(* the pointer in the result it is over.                                     *)
RequestIsPointed ==
    /\ settings \in Settings
    /\ /\ Pointed
       /\ MayGrow => answer.last # NoHit
       /\ answer.hitActive \/ answer.lookups # {}
       => answer.request.hit = [key |-> current, char |-> CharAt(current, cursor)]

LEMMA EvaluatedPoints ==
    ASSUME IInv, NEW k \in Key, NEW p \in Point, NEW returned \in BOOLEAN,
           p \in Covers[k.rect], p \notin k.card,
           CharAt(k, p) # NoChar => Centre[CharAt(k, p)] \notin k.card,
           NEW b, b = Evaluated(answer, k, p, Verdict(k, p, returned)),
           b.hitActive \/ b.lookups # {}
    PROVE  b.request.hit = [key |-> k, char |-> CharAt(k, p)]
<1> DEFINE v == Verdict(k, p, returned)
           h == [key |-> k, char |-> CharAt(k, p)]
<1>1. answer \in Answer
  BY ConditionsTyped DEF IInv
<1>2. v \in {"none", "foreign", "hit"}
  BY DEF Verdict
<1>3. ~NoHitReported(answer).hitActive /\ NoHitReported(answer).lookups = {}
  BY <1>1 DEF NoHitReported, Overtaken, Answer
<1>4. b = Evaluated(answer, k, p, v)
  OBVIOUS
<1>0. v = "hit" => CharAt(k, p) # NoChar
  BY DEF Verdict
<1> HIDE DEF v
<1>5. v = "hit"
  BY <1>2, <1>3, <1>4 DEF Evaluated
<1>6. b = Found(answer, h)
  BY <1>4, <1>5 DEF Evaluated
<1>9. h \in Hit
  <2>1. k.page \in Page /\ k.rect \in Rect
    BY DEF Key
  <2>2. CharAt(k, p) \in Char \cup {NoChar}
    BY <2>1, RecognitionAssumption DEF CharAt
  <2> QED BY <1>0, <1>5, <2>2 DEF Hit
<1> HIDE DEF h
<1>7. CASE answer.last = h
  <2>1. b = answer /\ answer.last # NoHit
    <3>1. answer.last # NoHit
      BY <1>7, <1>9, NullAssumption
    <3> QED BY <1>6, <1>7, <3>1 DEF Found
  <2> QED BY <1>7, <2>1 DEF IInv, AnswerInv, h
<1>8. CASE answer.last # h
  <2>1. b.request = [hit |-> h, max |-> RequestedResults]
    BY <1>1, <1>6, <1>8 DEF Found, Dispatched, Answer
  <2> QED BY <2>1 DEF h
<1> QED BY <1>7, <1>8

(* A step that leaves the pointer and the result under it, and raises no     *)
(* request but for the hit that was asked about.                             *)
LEMMA PointedKept ==
    ASSUME RequestIsPointed, settings' \in Settings, cursor' = cursor, current' = current,
           answer'.request.hit = answer.request.hit,
           answer'.hitActive \/ answer'.lookups # {} => answer.hitActive \/ answer.lookups # {},
           answer'.last # NoHit => answer.last # NoHit
    PROVE  RequestIsPointed'
BY DEF RequestIsPointed, Pointed, Occluded

LEMMA NothingPointed ==
    ASSUME settings' \in Settings, current' = NoKey
    PROVE  RequestIsPointed'
BY DEF RequestIsPointed, Pointed

LEMMA PositionPoints ==
    ASSUME IInv, RequestIsPointed, NEW p \in Point, OnPositionChanged(p)
    PROVE  RequestIsPointed'
<1> DEFINE covered == /\ current # NoKey
                      /\ p \in Covers[current.rect]
                      /\ SC!Holds(cache, current)
           v == Verdict(current, p, FALSE)
           after == IF covered THEN Evaluated(answer, current, p, v) ELSE answer
           answered == covered /\ Answered(answer, v)
<1>1. /\ cursor' = p /\ current' = current /\ settings' = settings
      /\ answer' = IF Follows(p, after, answered) THEN MovedTo(after, p) ELSE after
  BY DEF OnPositionChanged, controls
<1> SUFFICES ASSUME Pointed', answer'.hitActive \/ answer'.lookups # {}
             PROVE  answer'.request.hit = [key |-> current', char |-> CharAt(current', cursor')]
  BY <1>1 DEF RequestIsPointed
<1>2. /\ current \in Key /\ covered
      /\ p \in Covers[current.rect] /\ p \notin current.card
      /\ CharAt(current, p) # NoChar => Centre[CharAt(current, p)] \notin current.card
  BY <1>1 DEF Pointed, Occluded, IInv, TypeOK, CurrentIsCached
<1>3. after = Evaluated(answer, current, p, Verdict(current, p, FALSE)) /\ FALSE \in BOOLEAN
  BY <1>2
<1>4. after \in Answer
  BY <1>2, <1>3, EvaluatedKeeps DEF IInv
<1> HIDE DEF covered, v, after, answered
<1>5. /\ answer'.request = after.request /\ answer'.hitActive = after.hitActive
      /\ answer'.lookups = after.lookups
  BY <1>1, <1>4 DEF MovedTo, Answer
<1> QED BY <1>1, <1>2, <1>3, <1>5, EvaluatedPoints

LEMMA ReturnedPoints ==
    ASSUME IInv, RequestIsPointed, NEW k \in Key, EvaluateReturned(k, Verdict(k, cursor, TRUE)),
           cursor' = cursor, settings' = settings
    PROVE  RequestIsPointed'
<1> DEFINE v == Verdict(k, cursor, TRUE)
<1>1. cursor \in Point /\ TRUE \in BOOLEAN /\ answer \in Answer
  BY ConditionsTyped DEF IInv, TypeOK
<1>2. /\ current' = k
      /\ answer' = IF v = "none" /\ Grows(k, v) THEN [answer EXCEPT !.last = NoHit]
                   ELSE Evaluated(answer, k, cursor, v)
  BY DEF EvaluateReturned
<1> SUFFICES ASSUME Pointed', MayGrow => answer'.last # NoHit,
                    answer'.hitActive \/ answer'.lookups # {}
             PROVE  answer'.request.hit = [key |-> current', char |-> CharAt(current', cursor')]
  BY DEF RequestIsPointed
<1>3. ~(v = "none" /\ Grows(k, v))
  <2>1. Grows(k, v) => MayGrow
    BY DEF Grows, GrowthTarget, RequestIsPointed, MayGrow
  <2> QED BY <1>1, <1>2, <2>1 DEF Answer
<1>4. answer' = Evaluated(answer, k, cursor, Verdict(k, cursor, TRUE))
  BY <1>2, <1>3
<1>5. /\ cursor \in Covers[k.rect] /\ cursor \notin k.card
      /\ CharAt(k, cursor) # NoChar => Centre[CharAt(k, cursor)] \notin k.card
  BY <1>2 DEF Pointed, Occluded
<1> QED BY <1>1, <1>2, <1>4, <1>5, EvaluatedPoints

(* Looking up at a larger count asks about the same hit.                     *)
LEMMA LookedUpAgainPoints ==
    ASSUME IInv, NEW before \in Nat, NEW count \in Nat, NEW active \in BOOLEAN,
           NEW b, b = LookedUpAgain(answer, before, count, active)
    PROVE  /\ b.request.hit = answer.request.hit
           /\ b.hitActive \/ b.lookups # {} => answer.hitActive \/ answer.lookups # {}
           /\ b.last # NoHit => answer.last # NoHit
<1>1. answer \in Answer
  BY ConditionsTyped DEF IInv
<1> QED BY <1>1 DEF LookedUpAgain, Dispatched, Answer

LEMMA ActivityPoints ==
    ASSUME RequestIsPointed, NEW active \in BOOLEAN, NEW a, UpdateActivity(active, a),
           settings' \in Settings, cursor' = cursor,
           a.request.hit = answer.request.hit,
           a.hitActive \/ a.lookups # {} => answer.hitActive \/ answer.lookups # {},
           a.last # NoHit => answer.last # NoHit
    PROVE  RequestIsPointed'
<1>1. CASE active
  BY <1>1, PointedKept DEF UpdateActivity, region
<1>2. CASE ~active
  BY <1>2, NothingPointed DEF UpdateActivity
<1> QED BY <1>1, <1>2

LEMMA LookupPoints ==
    ASSUME IInv, RequestIsPointed, NEW l \in answer.lookups, NEW found \in BOOLEAN,
           DeliverLookup(l, found)
    PROVE  RequestIsPointed'
<1>1. /\ answer \in Answer /\ answer' = Delivered(answer, l, found)
      /\ cursor' = cursor /\ current' = current /\ settings' = settings
  BY ConditionsTyped DEF DeliverLookup, IInv, region, controls
<1>2. /\ answer'.request = answer.request
      /\ answer'.last # NoHit => answer.last # NoHit
  BY <1>1 DEF Delivered, NoHitReported, Overtaken, Answer
<1> QED BY <1>1, <1>2, PointedKept DEF RequestIsPointed

LEMMA ControlsPoint ==
    ASSUME IInv, RequestIsPointed,
           \/ \E on \in BOOLEAN : SetScanning(on)
           \/ \E lock \in Locks : OnLockedChanged(lock)
           \/ \E s \in Settings : ApplySettings(s)
    PROVE  RequestIsPointed'
<1>1. /\ answer \in Answer /\ RequestedResults \in Nat /\ settings \in Settings
      /\ minResults \in Nat /\ scanning \in BOOLEAN /\ locked \in BOOLEAN /\ settings \in Setting
  BY ConditionsTyped DEF IInv, TypeOK, RequestIsPointed
<1>2. ASSUME NEW on \in BOOLEAN, SetScanning(on)
      PROVE  RequestIsPointed'
  <2> DEFINE active == ActiveUnder(settings, on, locked)
  <2>1. /\ UpdateActivity(active, answer) /\ cursor' = cursor /\ settings' = settings
        /\ active \in BOOLEAN
    BY <1>2 DEF SetScanning, ActiveUnder
  <2> HIDE DEF active
  <2> QED BY <1>1, <2>1, ActivityPoints
<1>3. ASSUME NEW lock \in Locks, OnLockedChanged(lock)
      PROVE  RequestIsPointed'
  <2> DEFINE active == ActiveUnder(settings, scanning, lock)
  <2>1. /\ UpdateActivity(active, answer) /\ cursor' = cursor /\ settings' = settings
        /\ active \in BOOLEAN
    BY <1>1, <1>3 DEF OnLockedChanged, ActiveUnder
  <2> HIDE DEF active
  <2> QED BY <1>1, <2>1, ActivityPoints
<1>4. ASSUME NEW s \in Settings, ApplySettings(s)
      PROVE  RequestIsPointed'
  <2> DEFINE active == ActiveUnder(s, scanning, locked)
             n == Requested(s, minResults)
             a == LookedUpAgain(answer, RequestedResults, n, active)
  <2>1. /\ UpdateActivity(active, a) /\ cursor' = cursor /\ settings' = s
        /\ active \in BOOLEAN /\ n \in Nat
    BY <1>1, <1>4, InputAssumption DEF ApplySettings, ActiveUnder, Requested, Setting
  <2> HIDE DEF active, n
  <2>2. /\ a.request.hit = answer.request.hit
        /\ a.hitActive \/ a.lookups # {} => answer.hitActive \/ answer.lookups # {}
        /\ a.last # NoHit => answer.last # NoHit
    BY <1>1, <2>1, LookedUpAgainPoints
  <2> HIDE DEF a
  <2> QED BY <2>1, <2>2, ActivityPoints
<1> QED BY <1>2, <1>3, <1>4

LEMMA NextPoints ==
    ASSUME IInv, RequestIsPointed, [Next]_vars
    PROVE  RequestIsPointed'
<1>1. /\ answer \in Answer /\ source \in Source /\ reading \in Job
      /\ settings \in Settings /\ RequestedResults \in Nat
  BY ConditionsTyped DEF IInv, TypeOK, RequestIsPointed
<1>2. ASSUME answer' = answer, cursor' = cursor, current' = current, settings' = settings
      PROVE  RequestIsPointed'
  BY <1>1, <1>2, PointedKept
<1>3. ASSUME NEW success \in BOOLEAN, OnRecognized(success)
      PROVE  RequestIsPointed'
  <2>1. cursor' = cursor /\ settings' = settings
    BY <1>3 DEF OnRecognized, controls
  <2>2. CASE reading = OldKey \/ ~IsActive \/ ~success
    BY <1>2, <1>3, <2>1, <2>2 DEF OnRecognized, region
  <2>3. CASE ~(reading = OldKey \/ ~IsActive \/ ~success)
    <3>1. reading \in Key /\ EvaluateReturned(reading, Verdict(reading, cursor, TRUE))
      BY <1>1, <1>3, <2>3 DEF OnRecognized, Job
    <3> QED BY <2>1, <3>1, ReturnedPoints
  <2> QED BY <2>2, <2>3
<1>4. ASSUME OnFrameReady
      PROVE  RequestIsPointed'
  <2>1. source.shot \in Key /\ cursor' = cursor /\ settings' = settings
    BY <1>1, <1>4 DEF OnFrameReady, Source, controls
  <2>2. CASE AnswerFromCache(source.shot)
    <3>1. EvaluateReturned(source.shot, Verdict(source.shot, cursor, TRUE))
      BY <2>2 DEF AnswerFromCache
    <3> QED BY <2>1, <3>1, ReturnedPoints
  <2>3. CASE DropFrame(source.shot) \/ RecognizeFrame(source.shot)
    BY <1>2, <2>1, <2>3 DEF DropFrame, RecognizeFrame, region
  <2> QED BY <1>4, <2>2, <2>3 DEF OnFrameReady
<1>5. ASSUME NEW n \in Counts, SetMinimumResults(n)
      PROVE  RequestIsPointed'
  <2> DEFINE m == Requested(settings, n)
  <2>1. /\ cursor' = cursor /\ current' = current /\ settings' = settings
        /\ answer' = LookedUpAgain(answer, RequestedResults, m, IsActive)
        /\ m \in Nat /\ IsActive \in BOOLEAN
    BY <1>1, <1>5, InputAssumption
       DEF SetMinimumResults, region, IInv, TypeOK, Requested, Setting, IsActive, ActiveUnder
  <2> HIDE DEF m
  <2> QED BY <1>1, <2>1, LookedUpAgainPoints, PointedKept
<1>6. ASSUME ForceRescan
      PROVE  RequestIsPointed'
  BY <1>1, <1>6, NothingPointed DEF ForceRescan, controls
<1>7. ASSUME OnThrottleFired \/ OnPollTick \/ Capture \/ Drain \/ OnFrameFailed
             \/ (\E q \in Page, over \in {card, Drawn} : Repaint(q, over))
             \/ UNCHANGED vars
      PROVE  RequestIsPointed'
  BY <1>2, <1>7
     DEF OnThrottleFired, OnPollTick, Capture, Drain, OnFrameFailed, Repaint, vars, region, controls
<1>8. ASSUME NEW l \in answer.lookups,
             DeliverLookup(l, l.hit.char \in Known) \/ DeliverLookup(l, l.hit.char \notin Known)
      PROVE  RequestIsPointed'
  <2>1. (l.hit.char \in Known) \in BOOLEAN /\ (l.hit.char \notin Known) \in BOOLEAN
    OBVIOUS
  <2> QED BY <1>8, <2>1, LookupPoints
<1>9. TRUE \in BOOLEAN /\ FALSE \in BOOLEAN
  OBVIOUS
<1>10. CASE Scanning
  BY <1>3, <1>4, <1>7, <1>8, <1>9, <1>10 DEF Scanning
<1>11. CASE Intervention
  BY <1>3, <1>5, <1>6, <1>8, <1>7, <1>9, <1>11, PositionPoints, ControlsPoint DEF Intervention
<1> QED BY <1>7, <1>10, <1>11 DEF Next

(* With nothing under way the card answers for the character under the       *)
(* pointer in the result it is over, whatever was grabbed, overtaken, failed *)
(* or switched off on the way.                                               *)
THEOREM PointerSafety == Spec => []CardMatchesPointer
<1>1. Init => RequestIsPointed
  BY DEF Init, RequestIsPointed, Pointed
<1>2. IInv /\ RequestIsPointed /\ [Next]_vars => RequestIsPointed'
  BY NextPoints
<1>3. IInv /\ RequestIsPointed => CardMatchesPointer
  BY DEF IInv, AnswerInv, RequestIsPointed, Pointed, CardMatchesPointer
<1> QED BY <1>1, <1>2, <1>3, Invariance, PTL DEF Spec
=============================================================================
