--------------------------- MODULE ScanController ---------------------------
(* scan::ScanController (src/src/scan/scancontroller.cpp): the loop from the *)
(* pointer to the dictionary.  A pointer sample or a poll tick starts a grab *)
(* of a region, the frame is recognized, the character under the pointer is  *)
(* looked up, and the answer is emitted as lookupReady(), which raises or    *)
(* replaces the popup card, or as nothingUnderCursor(), which withdraws it.  *)
(*                                                                           *)
(* Every handler runs on one thread; what happens between the handlers is    *)
(* asynchronous: the grab (a latest-wins server, see CaptureSources), the    *)
(* recognition (a mailbox of one before a worker thread, see OcrService) and *)
(* the lookups (a thread pool, which finishes them in any order).            *)
(* m_scanGeneration and m_lookupTicket only grow and are only compared with  *)
(* the copy an asynchronous job took along.  A job whose copy is not the     *)
(* current value any more is dropped unread when it returns: an overtaken    *)
(* lookup leaves the model at once, and an overtaken recognition, which      *)
(* still occupies the OcrService, becomes OldKey.                            *)
EXTENDS Integers, Sequences

CONSTANTS
    Point,          \* pointer positions
    Rect, NoRect,   \* regions, and the empty QRect
    Page,           \* contents of the desktop
    Char, NoChar,   \* characters as hits name them, and a position without one
    NoKey, NoHit, NoCard,
    OldKey,         \* the pixels of a recognition that was overtaken
    Covers,         \* [Rect -> SUBSET Point]: QRect::contains()
    Size,           \* [Rect -> Nat]: the extent of a region
    InitialRect,    \* [Point -> Rect]: capture::initialRect()
    Grow,           \* capture::grow(), NoRect at the top of the ladder
    Quantize,       \* FrameSource::quantize()
    Reading,        \* what recognizing a region of a page finds, see below
    MinExtent,      \* [Rect -> Nat]: the smallest character a pass over the region separates
    Centre,         \* [Char -> Point]: the centre of a character's box
    Foreign,        \* the characters jp::isJapanese() rejects
    CardOver,       \* [Char -> SUBSET Point]: what its card hides in a grab
    Known,          \* the characters the dictionaries have an answer for
    Settings,       \* the settings the dialog may apply
    Counts,         \* the values of setMinimumResults()
    Locks,          \* what the greeter reports, {} without a LockWatcher
    Capacity        \* the capacity of the ScanCache

Cards == {{}} \cup {CardOver[c] : c \in Char}

(* Pixels, with the region they show: a recognition result is a function of  *)
(* it, and its hash is what the cache and the last hit compare.              *)
Key == [rect : Rect, page : Page, card : Cards]
Hit == [key : Key, char : Char]
Setting == [trigger : BOOLEAN, poll : BOOLEAN, progressive : BOOLEAN,
            pauseLocked : BOOLEAN, maxResults : Nat]

(* Reading[page, rect]: the character under each position, the characters    *)
(* whose paragraph reaches the edge of the frame, and the median character   *)
(* extent, 0 where nothing was recognized.                                   *)
ASSUME GeometryAssumption ==
    /\ Covers \in [Rect -> SUBSET Point]
    /\ Size \in [Rect -> Nat]
    /\ InitialRect \in [Point -> Rect]
    /\ Grow \in [Rect \X Point -> Rect \cup {NoRect}]
    /\ Quantize \in [Rect -> Rect]
    /\ NoRect \notin Rect
ASSUME RecognitionAssumption ==
    /\ Reading \in [Page \X Rect ->
            [at : [Point -> Char \cup {NoChar}], edge : SUBSET Char, extent : Nat]]
    /\ MinExtent \in [Rect -> Nat]
    /\ Centre \in [Char -> Point]
    /\ NoChar \notin Char
ASSUME InputAssumption ==
    /\ CardOver \in [Char -> SUBSET Point]
    /\ Known \subseteq Char
    /\ Settings \subseteq Setting
    /\ Counts \subseteq Nat
    /\ Locks \subseteq BOOLEAN
    /\ Capacity \in Nat \ {0}
ASSUME NullAssumption ==
    /\ NoKey \notin Key /\ OldKey \notin Key /\ NoKey # OldKey
    /\ NoHit \notin Hit
    /\ NoCard \notin [hit : Hit, max : Nat, at : Point]

VARIABLES
    settings,   \* the members applySettings() reads
    minResults, \* m_minimumResults
    scanning,   \* m_scanning
    locked,     \* m_locked
    cursor,     \* m_cursor
    current,    \* m_currentRect and m_currentHash; NoKey for an empty rect
    cache,      \* m_cache
    answer,     \* the last hit, its lookups and what was emitted, see Answer
    scan,       \* the scan in progress, see Scan
    throttle,   \* m_moveThrottle: "open", "closed" within an interval, or "pending"
    source,     \* the FrameSource, see Source
    mailbox,    \* the frame waiting in the OcrService, or NoKey
    reading,    \* the frame its worker took and has not answered, or NoKey
    page,       \* what is on the screen
    card        \* the part of it the popup covers, where grabs contain the popup

controls == <<settings, minResults, scanning, locked>>
region == <<current, cache>>
ocr == <<mailbox, reading>>
world == <<page, card>>
vars == <<controls, cursor, region, answer, scan, throttle, source, ocr, world>>

SC == INSTANCE ScanCache

(* last: m_lastRect, m_lastHash, m_lastParagraph and m_lastCharIndex, NoHit  *)
(* for -1.  request: m_lastRequest, m_lastContext and m_pendingHit.          *)
(* lookups: those on the thread pool with the current ticket.  shown: what   *)
(* what the application was told last, lookupReady() or hitMoved() putting a *)
(* card up or moving it and nothingUnderCursor() taking it away.             *)
Request == [hit : Hit, max : Nat]
Card == [hit : Hit, max : Nat, at : Point]
Answer == [last : Hit \cup {NoHit}, hitActive : BOOLEAN, nothingReported : BOOLEAN,
           request : Request \cup {NoHit}, lookups : SUBSET Request,
           shown : Card \cup {NoCard}]

(* m_pendingRect, m_scanInFlight, m_pollDeferred and m_grewUnmeasured.       *)
Scan == [pendingRect : Rect \cup {NoRect}, inFlight : BOOLEAN,
         pollDeferred : BOOLEAN, grewUnmeasured : BOOLEAN]

(* The latest-wins server of CaptureSources, and the pixels of the grab it   *)
(* serves once they are taken.                                               *)
Source == [serving : Rect \cup {NoRect}, waiting : Rect \cup {NoRect},
           shot : Key \cup {NoKey}]

(* What the OcrService may have at either place.                             *)
Job == Key \cup {NoKey, OldKey}

TypeOK ==
    /\ settings \in Setting
    /\ minResults \in Nat
    /\ scanning \in BOOLEAN
    /\ locked \in BOOLEAN
    /\ cursor \in Point
    /\ current \in Key \cup {NoKey}
    /\ cache \in Seq(Key) /\ Len(cache) <= Capacity
    /\ answer \in Answer
    /\ scan \in Scan
    /\ throttle \in {"open", "closed", "pending"}
    /\ source \in Source
    /\ mailbox \in Job
    /\ reading \in Job
    /\ page \in Page
    /\ card \in Cards

Init ==
    /\ settings \in Settings
    /\ minResults = 0
    /\ scanning = FALSE
    /\ locked = FALSE
    /\ cursor \in Point
    /\ current = NoKey
    /\ cache = <<>>
    /\ answer = [last |-> NoHit, hitActive |-> FALSE, nothingReported |-> FALSE,
                 request |-> NoHit, lookups |-> {}, shown |-> NoCard]
    /\ scan = [pendingRect |-> NoRect, inFlight |-> FALSE, pollDeferred |-> FALSE,
               grewUnmeasured |-> FALSE]
    /\ throttle = "open"
    /\ source = [serving |-> NoRect, waiting |-> NoRect, shot |-> NoKey]
    /\ mailbox = NoKey
    /\ reading = NoKey
    /\ page \in Page
    /\ card = {}

-----------------------------------------------------------------------------
(* Conditions.                                                               *)

ActiveUnder(s, on, lock) == on /\ ~(s.pauseLocked /\ lock)
IsActive == ActiveUnder(settings, scanning, locked)

Requested(s, n) == IF s.maxResults > n THEN s.maxResults ELSE n
RequestedResults == Requested(settings, minResults)

WillRescan == settings.trigger \/ settings.poll

CharAt(k, p) == Reading[<<k.page, k.rect>>].at[p]
Extent(k) == Reading[<<k.page, k.rect>>].extent
AtEdge(k, c) == c \in Reading[<<k.page, k.rect>>].edge

(* ocr::resolvesCharactersAt(): a pass over the region r separates           *)
(* characters of this extent; with none to measure it is assumed to.         *)
Resolves(extent, r) == extent = 0 \/ extent >= MinExtent[r]

(* Mutant: descends from every region its own pass does not resolve.         *)
DescentAlways(k, s, p) ==
    /\ k # NoKey
    /\ ~Resolves(Extent(k), k.rect)
    /\ Size[InitialRect[p]] < Size[k.rect]

(* descentWouldResolve() with m_currentRect = k.rect and the pointer at p.   *)
DescentWouldResolve(k, s, p) ==
    /\ k # NoKey
    /\ ~Resolves(Extent(k), k.rect)
    /\ s.grewUnmeasured
    /\ Size[InitialRect[p]] < Size[k.rect]

(* The rect growAndRescan() starts a scan of, NoRect where it declines.      *)
GrowthTarget(k, p) ==
    LET grown == Grow[<<k.rect, p>>]
        target == Quantize[grown]
    IN  IF /\ settings.progressive
           /\ grown # NoRect
           /\ target # k.rect
           /\ p \in Covers[target]
           /\ Resolves(Extent(k), target)
        THEN target ELSE NoRect
-----------------------------------------------------------------------------
(* The answer: what the handlers do to the last hit, its lookups and the     *)
(* card, as functions of it.                                                 *)

(* Mutant: the ticket is not raised.                                         *)
NotOvertaken(lookups) == lookups

(* ++m_lookupTicket: no lookup on the pool will be listened to.              *)
Overtaken(lookups) == {}

(* Mutant: the record of the last hit outlives the report that it is gone.   *)
NoHitRemembering(a) ==
    IF ~a.hitActive /\ a.nothingReported THEN [a EXCEPT !.lookups = Overtaken(a.lookups)]
    ELSE [a EXCEPT !.lookups = Overtaken(a.lookups), !.hitActive = FALSE,
                   !.nothingReported = TRUE, !.shown = NoCard]

(* reportNoHit().                                                            *)
NoHitReported(a) ==
    LET quiet == [a EXCEPT !.last = NoHit, !.lookups = Overtaken(a.lookups)]
    IN  IF ~a.hitActive /\ a.nothingReported THEN quiet
        ELSE [quiet EXCEPT !.hitActive = FALSE, !.nothingReported = TRUE, !.shown = NoCard]

(* Mutant: a pointer over the card is a pointer that left the text.          *)
HoldNothing(a) == NoHitReported(a)

(* holdThroughOcclusion().                                                   *)
HeldThroughOcclusion(a) == IF a.hitActive THEN a ELSE NoHitReported(a)

(* dispatchLookup() for a hit, with the count to ask for.                    *)
Dispatched(a, hit, max) ==
    [a EXCEPT !.request = [hit |-> hit, max |-> max],
              !.lookups = Overtaken(a.lookups) \cup {[hit |-> hit, max |-> max]}]

(* The end of evaluate(): the character hit, unless it is the last one.      *)
Found(a, hit) ==
    IF a.last = hit THEN a
    ELSE Dispatched([a EXCEPT !.last = hit], hit, RequestedResults)

(* What is under p in the pixels k, by the tests of evaluate() in order; a   *)
(* grab that returned is the case of `returned`, a pointer sample the other. *)
Verdict(k, p, returned) ==
    IF p \in k.card THEN "hold"
    ELSE IF returned /\ p \notin Covers[k.rect] /\ WillRescan THEN "left"
    ELSE IF CharAt(k, p) = NoChar THEN "none"
    ELSE IF Centre[CharAt(k, p)] \in k.card THEN "hold"
    ELSE IF CharAt(k, p) \in Foreign THEN "foreign"
    ELSE "hit"

(* The answer after evaluate() found the verdict v for k under p.            *)
Evaluated(a, k, p, v) ==
    CASE v = "hold" -> HeldThroughOcclusion(a)
      [] v = "left" -> a
      [] v \in {"none", "foreign"} -> NoHitReported(a)
      [] v = "hit" -> Found(a, [key |-> k, char |-> CharAt(k, p)])

(* What evaluate() returns, that is, whether no fresh grab is needed.        *)
Answered(a, v) == v = "hit" \/ (v = "hold" /\ a.hitActive)

(* hitMoved().                                                               *)
MovedTo(a, p) ==
    IF a.shown = NoCard THEN a ELSE [a EXCEPT !.shown.at = p]

(* deliverLookup(): the response of l, empty or not.                         *)
Delivered(a, l, found) ==
    LET rest == [a EXCEPT !.lookups = a.lookups \ {l}]
    IN  IF ~IsActive THEN rest
        ELSE IF ~found THEN NoHitReported(rest)
        ELSE [rest EXCEPT !.hitActive = TRUE, !.nothingReported = FALSE,
                          !.shown = [hit |-> l.hit, max |-> l.max, at |-> cursor]]

(* Mutant: a raised count waits for the next hit.                            *)
RaisedLater(a, before, count, active) == a

(* lookUpAgainIfRaised(): the hit on screen is looked up at the larger       *)
(* count, or, with none on screen, the last hit is forgotten.                *)
LookedUpAgain(a, before, count, active) ==
    IF count <= before THEN a
    ELSE IF a.hitActive /\ active THEN Dispatched(a, a.request.hit, count)
    ELSE [a EXCEPT !.last = NoHit]

(* Mutant: the pause leaves a lookup on the pool its ticket.                 *)
WithdrawnOnScreen(a) ==
    [a EXCEPT !.last = NoHit, !.hitActive = FALSE, !.nothingReported = TRUE, !.shown = NoCard]

(* updateActivity() where the loop is not active any more.                   *)
Withdrawn(a) ==
    LET quiet == [a EXCEPT !.last = NoHit, !.lookups = Overtaken(a.lookups)]
    IN  IF ~a.hitActive THEN quiet
        ELSE [quiet EXCEPT !.hitActive = FALSE, !.nothingReported = TRUE, !.shown = NoCard]

-----------------------------------------------------------------------------
(* The scan: startScan(), scanReturned() and the servers behind them.        *)

Started(s, r, unmeasured) ==
    [s EXCEPT !.pendingRect = r, !.inFlight = TRUE, !.grewUnmeasured = unmeasured]

Returned(s) == [s EXCEPT !.inFlight = FALSE, !.pollDeferred = FALSE]

(* Mutant: the source forgets the remembered grab when it ends one.          *)
EndedForgetting(f) == [serving |-> NoRect, waiting |-> NoRect, shot |-> NoKey]

(* FrameSource::beginRequest(), and endRequest() with the issue it leads to. *)
Submitted(f, r) ==
    IF f.serving = NoRect THEN [f EXCEPT !.serving = r] ELSE [f EXCEPT !.waiting = r]
Ended(f) == [serving |-> f.waiting, waiting |-> NoRect, shot |-> NoKey]

(* Mutant: a recognition in flight stays listened to.                        *)
StillFresh(j) == j

(* ++m_scanGeneration: the recognitions in flight are overtaken.             *)
Stale(j) == IF j = NoKey THEN NoKey ELSE OldKey

NoStart == [rect |-> NoRect, unmeasured |-> FALSE]
Start(r, unmeasured) == [rect |-> r, unmeasured |-> unmeasured]

(* The scan and the source after a handler that finds the scan at s, the     *)
(* source at f and starts a scan as `start` says, NoStart for none.          *)
ScanAfter(start, s) ==
    IF start = NoStart THEN s ELSE Started(s, Quantize[start.rect], start.unmeasured)
SourceAfter(start, f) ==
    IF start = NoStart THEN f ELSE Submitted(f, Quantize[start.rect])
JobAfter(start, j) == IF start = NoStart THEN j ELSE Stale(j)

(* Throttle::request() with the pointer at p: the scan that an open throttle *)
(* starts at once, and the throttle afterwards.                              *)
ThrottledStart(asked, p) ==
    IF asked /\ throttle = "open" THEN Start(InitialRect[p], FALSE) ELSE NoStart

(* Mutant: a request within the interval is dropped, not deferred.           *)
ThrottleDropping(asked) == IF asked /\ throttle = "open" THEN "closed" ELSE throttle

ThrottleAfter(asked) ==
    IF ~asked THEN throttle
    ELSE IF throttle = "open" THEN "closed" ELSE "pending"

(* The scan evaluate() starts for a grab that returned with the pixels k: a  *)
(* miss or a paragraph at the edge grows the region, and a pointer that left *)
(* it asks the throttle for a scan of its own.                               *)
Grows(k, v) ==
    /\ GrowthTarget(k, cursor) # NoRect
    /\ \/ v = "none"
       \/ /\ v = "hit"
          /\ answer.last # [key |-> k, char |-> CharAt(k, cursor)]
          /\ AtEdge(k, CharAt(k, cursor))

AsksForScan(v) == v = "left" /\ settings.trigger
ReturnedStart(k, v) ==
    IF Grows(k, v) THEN Start(GrowthTarget(k, cursor), Extent(k) = 0)
    ELSE ThrottledStart(AsksForScan(v), cursor)

(* The rest of a handler in which the grab of k returned: scanReturned() and *)
(* evaluate(), which reports no hit unless it grows the region to find one.  *)
EvaluateReturned(k, v) ==
    /\ current' = k
    /\ answer' = IF v = "none" /\ Grows(k, v) THEN [answer EXCEPT !.last = NoHit]
                 ELSE Evaluated(answer, k, cursor, v)
    /\ throttle' = ThrottleAfter(AsksForScan(v))
    /\ scan' = ScanAfter(ReturnedStart(k, v), Returned(scan))

-----------------------------------------------------------------------------
(* The handlers.                                                             *)

(* startScan() and nothing else, from a handler that leaves the scan at s.   *)
StartScan(start, s) ==
    /\ scan' = ScanAfter(start, s)
    /\ source' = SourceAfter(start, source)
    /\ mailbox' = JobAfter(start, mailbox)
    /\ reading' = JobAfter(start, reading)

(* Mutant: the card waits for the character under the new position.          *)
FollowsAnswers(p, a, answered) == p # cursor /\ a.hitActive /\ answered

(* Whether the sample at p that left the answer at a emits hitMoved().       *)
Follows(p, a, answered) == p # cursor /\ a.hitActive /\ (answered \/ WillRescan)

(* onPositionChanged(): the cached result answers where it covers the        *)
(* position, the card follows, and otherwise the throttle asks for a scan.   *)
OnPositionChanged(p) ==
    LET covered == /\ current # NoKey
                   /\ p \in Covers[current.rect]
                   /\ SC!Holds(cache, current)
        v == Verdict(current, p, FALSE)
        after == IF covered THEN Evaluated(answer, current, p, v) ELSE answer
        answered == covered /\ Answered(answer, v)
        asked == settings.trigger /\ (~answered \/ DescentWouldResolve(current, scan, p))
    IN  /\ IsActive
        /\ cursor' = p
        /\ answer' = IF Follows(p, after, answered) THEN MovedTo(after, p) ELSE after
        /\ cache' = IF covered THEN SC!Promoted(cache, current) ELSE cache
        /\ throttle' = ThrottleAfter(asked)
        /\ StartScan(ThrottledStart(asked, p), scan)
        /\ UNCHANGED <<controls, current, world>>

(* The throttle's interval ends: a trailing fire, or an open throttle.       *)
OnThrottleFired ==
    /\ throttle # "open"
    /\ throttle' = IF throttle = "pending" THEN "closed" ELSE "open"
    /\ StartScan(IF throttle = "pending" THEN Start(InitialRect[cursor], FALSE) ELSE NoStart, scan)
    /\ UNCHANGED <<controls, cursor, region, answer, world>>

(* pollRect().                                                               *)
PollRect ==
    IF /\ current # NoKey
       /\ cursor \in Covers[current.rect]
       /\ ~DescentWouldResolve(current, scan, cursor)
    THEN current.rect ELSE InitialRect[cursor]

(* onPollTick(): defers once to a scan in flight.                            *)
OnPollTick ==
    /\ IsActive /\ settings.poll
    /\ IF scan.inFlight /\ ~scan.pollDeferred
       THEN /\ scan' = [scan EXCEPT !.pollDeferred = TRUE]
            /\ UNCHANGED <<source, ocr>>
       ELSE StartScan(Start(PollRect, FALSE), [scan EXCEPT !.pollDeferred = FALSE])
    /\ UNCHANGED <<controls, cursor, region, answer, throttle, world>>

(* The source reads the pixels of the grab it serves, the card with them.    *)
Capture ==
    /\ source.serving # NoRect /\ source.shot = NoKey
    /\ source' = [source EXCEPT !.shot = [rect |-> source.serving, page |-> page, card |-> card]]
    /\ UNCHANGED <<controls, cursor, region, answer, scan, throttle, ocr, world>>

(* onFrameReady(): dropped when inactive or overtaken, answered from the     *)
(* cache for known pixels, handed to the recognition otherwise.  The source  *)
(* ends the grab when the handler returns.                                   *)
DropFrame(k) ==
    /\ ~IsActive \/ k.rect # scan.pendingRect
    /\ source' = Ended(source)
    /\ UNCHANGED <<region, answer, scan, throttle, ocr>>

AnswerFromCache(k) ==
    LET v == Verdict(k, cursor, TRUE) IN
    /\ IsActive /\ k.rect = scan.pendingRect
    /\ SC!Holds(cache, k)
    /\ cache' = SC!Promoted(cache, k)
    /\ EvaluateReturned(k, v)
    /\ source' = Ended(SourceAfter(ReturnedStart(k, v), source))
    /\ mailbox' = JobAfter(ReturnedStart(k, v), mailbox)
    /\ reading' = JobAfter(ReturnedStart(k, v), reading)

RecognizeFrame(k) ==
    /\ IsActive /\ k.rect = scan.pendingRect
    /\ ~SC!Holds(cache, k)
    /\ mailbox' = k
    /\ source' = Ended(source)
    /\ UNCHANGED <<region, answer, scan, throttle, reading>>

OnFrameReady ==
    /\ source.shot # NoKey
    /\ DropFrame(source.shot) \/ AnswerFromCache(source.shot) \/ RecognizeFrame(source.shot)
    /\ UNCHANGED <<controls, cursor, world>>

(* onFrameFailed(): marks the scan as returned, whichever grab it was.       *)
OnFrameFailed ==
    /\ source.serving # NoRect
    /\ scan' = Returned(scan)
    /\ source' = Ended(source)
    /\ UNCHANGED <<controls, cursor, region, answer, throttle, ocr, world>>

(* OcrService::drain() takes the frame in the mailbox.                       *)
Drain ==
    /\ mailbox # NoKey /\ reading = NoKey
    /\ reading' = mailbox
    /\ mailbox' = NoKey
    /\ UNCHANGED <<controls, cursor, region, answer, scan, throttle, source, world>>

(* The recognition callback and onRecognized(): dropped when overtaken or    *)
(* inactive; a failure only returns the scan.                                *)
OnRecognized(success) ==
    /\ reading # NoKey
    /\ reading' = NoKey
    /\ LET k == reading
           v == Verdict(k, cursor, TRUE)
       IN  IF k = OldKey \/ ~IsActive
           THEN UNCHANGED <<region, answer, scan, throttle, source, mailbox>>
           ELSE IF ~success
           THEN scan' = Returned(scan) /\ UNCHANGED <<region, answer, throttle, source, mailbox>>
           ELSE /\ cache' = SC!Inserted(cache, k)
                /\ EvaluateReturned(k, v)
                /\ source' = SourceAfter(ReturnedStart(k, v), source)
                /\ mailbox' = JobAfter(ReturnedStart(k, v), mailbox)
    /\ UNCHANGED <<controls, cursor, world>>

DeliverLookup(l, found) ==
    /\ answer' = Delivered(answer, l, found)
    /\ UNCHANGED <<controls, cursor, region, scan, throttle, source, ocr, world>>

-----------------------------------------------------------------------------
(* Controls: the tray, the settings dialog, the greeter, the lookup window.  *)

(* updateActivity(), the controls set and the answer at a: an inactive loop  *)
(* forgets the scan, the results and the card.                               *)
UpdateActivity(active, a) ==
    IF active
    THEN answer' = a /\ UNCHANGED <<region, scan, throttle, ocr>>
    ELSE /\ answer' = Withdrawn(a)
         /\ current' = NoKey
         /\ cache' = <<>>
         /\ scan' = [scan EXCEPT !.pendingRect = NoRect, !.inFlight = FALSE,
                                 !.pollDeferred = FALSE]
         /\ throttle' = IF throttle = "pending" THEN "closed" ELSE throttle
         /\ mailbox' = Stale(mailbox)
         /\ reading' = Stale(reading)

SetScanning(on) ==
    /\ on # scanning
    /\ scanning' = on
    /\ UpdateActivity(ActiveUnder(settings, on, locked), answer)
    /\ UNCHANGED <<settings, minResults, locked, cursor, source, world>>

OnLockedChanged(lock) ==
    /\ lock # locked
    /\ locked' = lock
    /\ UpdateActivity(ActiveUnder(settings, scanning, lock), answer)
    /\ UNCHANGED <<settings, minResults, scanning, cursor, source, world>>

ApplySettings(s) ==
    LET active == ActiveUnder(s, scanning, locked) IN
    /\ settings' = s
    /\ UpdateActivity(active, LookedUpAgain(answer, RequestedResults,
                                            Requested(s, minResults), active))
    /\ UNCHANGED <<minResults, scanning, locked, cursor, source, world>>

SetMinimumResults(n) ==
    /\ minResults' = n
    /\ answer' = LookedUpAgain(answer, RequestedResults, Requested(settings, n), IsActive)
    /\ UNCHANGED <<settings, scanning, locked, cursor, region, scan, throttle, source, ocr, world>>

(* forceRescan(): also what a change of the dictionaries calls.              *)
ForceRescan ==
    /\ cache' = <<>>
    /\ current' = NoKey
    /\ answer' = [answer EXCEPT !.last = NoHit]
    /\ throttle' = IF IsActive /\ throttle = "pending" THEN "closed" ELSE throttle
    /\ StartScan(IF IsActive THEN Start(InitialRect[cursor], FALSE) ELSE NoStart, scan)
    /\ UNCHANGED <<controls, cursor, world>>

(* The screen shows another page, or the card as it is now.                  *)
Repaint(q, over) ==
    /\ <<q, over>> # <<page, card>>
    /\ page' = q
    /\ card' = over
    /\ UNCHANGED <<controls, cursor, region, answer, scan, throttle, source, ocr>>

ChangePage(q) == Repaint(q, card)

Drawn == IF answer.shown = NoCard THEN {} ELSE CardOver[answer.shown.hit.char]
DrawCard == Repaint(page, Drawn)

-----------------------------------------------------------------------------
(* The steps the loop takes by itself, on grabs and recognitions that work   *)
(* and dictionaries that answer as they did before.                          *)
Scanning ==
    \/ OnThrottleFired
    \/ Capture
    \/ OnFrameReady
    \/ Drain
    \/ OnRecognized(TRUE)
    \/ \E l \in answer.lookups : DeliverLookup(l, l.hit.char \in Known)

Pipeline == Scanning \/ DrawCard

(* What the user and the rest of the system do to it.                        *)
Intervention ==
    \/ \E p \in Point : OnPositionChanged(p)
    \/ OnFrameFailed
    \/ OnRecognized(FALSE)
    \/ \E l \in answer.lookups : DeliverLookup(l, l.hit.char \notin Known)
    \/ \E on \in BOOLEAN : SetScanning(on)
    \/ \E lock \in Locks : OnLockedChanged(lock)
    \/ \E s \in Settings : ApplySettings(s)
    \/ \E n \in Counts : SetMinimumResults(n)
    \/ ForceRescan

Environment == Intervention \/ \E q \in Page : ChangePage(q)

Next ==
    \/ Scanning
    \/ OnPollTick
    \/ Intervention
    \/ \E q \in Page, over \in {card, Drawn} : Repaint(q, over)

Spec == Init /\ [][Next]_vars

-----------------------------------------------------------------------------
(* The last hit stands for an answer that is on screen or on its way         *)
(* (scancontroller.cpp:446-452 returns for it without a lookup), and what is *)
(* on its way is the hit whose geometry and request deliverLookup() and      *)
(* lookUpAgainIfRaised() read when it arrives (scancontroller.h:231-238).    *)
LastHitIsAnswered ==
    /\ \A l \in answer.lookups : l.hit = answer.request.hit
    /\ answer.last # NoHit =>
         \/ \E l \in answer.lookups : l.hit = answer.last
         \/ answer.shown # NoCard /\ answer.shown.hit = answer.last

(* The result the pointer is over is never evicted while it is in use: a     *)
(* sample inside its region would find nothing, and every sample would cost  *)
(* a grab (scancache.h promises the eight most recently used).               *)
CurrentIsCached == current # NoKey => SC!Holds(cache, current)

(* What the card hides is not read: there the answer on screen is held.      *)
Occluded ==
    /\ current # NoKey
    /\ \/ cursor \in current.card
       \/ CharAt(current, cursor) # NoChar /\ Centre[CharAt(current, cursor)] \in current.card

(* With nothing in flight the card answers for the character under the       *)
(* pointer in the result it is over, whatever was grabbed, overtaken, failed *)
(* or switched off on the way: no lookup puts a card up for a character the  *)
(* pointer has left (scancontroller.cpp:682-685).  Exempt are a position the *)
(* card itself hides and, where growth may be on, a miss whose larger region *)
(* is awaited, also when growth was switched off meanwhile.                  *)
MayGrow == \E s \in Settings : s.progressive
CardMatchesPointer ==
    /\ answer.shown # NoCard /\ answer.lookups = {}
    /\ current # NoKey /\ cursor \in Covers[current.rect]
    /\ ~Occluded
    /\ MayGrow => answer.last # NoHit
    => answer.shown.hit = [key |-> current, char |-> CharAt(current, cursor)]

(* No card is withdrawn on the word of a grab that shows the card where the  *)
(* text was, whatever the pointer and the screen do meanwhile: it would come *)
(* back with the text it uncovers (scancontroller.cpp:384-392 and 697-703).  *)
WithdrawnForCause ==
    /\ answer.shown # NoCard /\ answer.lookups = {}
    /\ answer'.shown = NoCard /\ IsActive'
    => ~Occluded'

CardOutlivesOcclusion == [][WithdrawnForCause]_vars

(* A card cut at fewer results than are asked for now is being looked up     *)
(* again, or the next evaluation will look it up (scancontroller.h:85-91).   *)
CountIsSatisfied ==
    answer.shown # NoCard /\ answer.shown.max < RequestedResults =>
        \/ answer.last = NoHit
        \/ \E l \in answer.lookups : l.max >= RequestedResults

(* m_scanInFlight holds a poll tick back, so it must not outlive its scan:   *)
(* the grab is with the source, or its frame is with the recognition and not *)
(* overtaken (scancontroller.h:214).                                         *)
FlaggedScanIsHeld ==
    scan.inFlight =>
        \/ scan.pendingRect \in {source.serving, source.waiting}
        \/ mailbox \in Key \/ reading \in Key

(* The card is where the pointer is: a sample that leaves it up moves it,    *)
(* unless nothing would ever evaluate the new position, and a card that goes *)
(* up does so at the pointer, not where the hit was tested                   *)
(* (scancontroller.cpp:209-223 and 587-591).                                 *)
PlacedAtPointer ==
    answer'.shown # NoCard =>
        /\ cursor' # cursor /\ (WillRescan \/ (current # NoKey /\ cursor' \in Covers[current.rect]))
           => answer'.shown.at = cursor'
        /\ answer.shown = NoCard => answer'.shown.at = cursor

CardFollowsPointer == [][PlacedAtPointer]_vars

(* What an inactive loop leaves behind: no card, no result of the desktop as *)
(* it was, no lookup or recognition it would listen to, no scheduled scan    *)
(* (scancontroller.cpp:792-818).                                             *)
InactiveIsQuiet ==
    ~IsActive =>
        /\ answer.shown = NoCard /\ answer.lookups = {}
        /\ current = NoKey /\ cache = <<>>
        /\ throttle # "pending" /\ ~scan.inFlight
        /\ mailbox \notin Key /\ reading \notin Key
=============================================================================
