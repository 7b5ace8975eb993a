--------------------------- MODULE CaptureSources ---------------------------
(* The pixel sources as state machines over FrameSource's slot:              *)
(* WlrFrameSource (wlrframesource.cpp), which copies a region through        *)
(* zwlr_screencopy_v1 under a watchdog, KWinFrameSource                      *)
(* (kwinframesource.cpp) with its KWinGrab (kwingrabber.cpp), whose answer   *)
(* is a D-Bus reply plus the pixels on a pipe, and WinFrameSource with its   *)
(* thread.  A session has one of them.                                       *)
EXTENDS WinFrameSource

CONSTANT ProtocolVersions   \* zwlr_screencopy_manager_v1 versions to consider

ASSUME ProtocolVersionsAssumption == ProtocolVersions \subseteq Nat \ {0}

VARIABLES
    backend,    \* KWin, Windows, or the protocol version of a wlroots compositor
    watchdog,   \* m_watchdog of WlrFrameSource is running
    turn        \* history: the number of grabs that left the wire, modulo 2

vars == <<slot, job, worker, backend, watchdog, turn>>

(* WlrFrameSource::Pending, and `offering`: the compositor has not yet sent  *)
(* the buffer_done of this frame.                                            *)
WlrJob == [rect : Rect, haveBuffer : BOOLEAN, copied : BOOLEAN, offering : BOOLEAN]
WlrIssued(r) == [rect |-> r, haveBuffer |-> FALSE, copied |-> FALSE, offering |-> TRUE]

(* KWinGrab: m_replyReceived and m_pixelsReceived.                           *)
KWinJob == [rect : Rect, reply : BOOLEAN, pixels : BOOLEAN]
KWinIssued(r) == [rect |-> r, reply |-> FALSE, pixels |-> FALSE]

ASSUME NoJobAssumption == NoJob \notin WlrJob /\ NoJob \notin KWinJob

KWin == 0
Windows == -1
Idle == job = NoJob
OnWlr == backend \in ProtocolVersions
OnKWin == backend = KWin
OnWindows == backend = Windows

TypeOK ==
    /\ slot \in Slot
    /\ backend \in ProtocolVersions \cup {KWin, Windows}
    /\ watchdog \in BOOLEAN
    /\ turn \in {0, 1}
    /\ job \in {NoJob} \cup (IF OnKWin THEN KWinJob ELSE IF OnWindows THEN WinJob ELSE WlrJob)
    /\ worker \in Worker

Init ==
    /\ slot = EmptySlot
    /\ job = NoJob
    /\ worker = FreeWorker
    /\ backend \in ProtocolVersions \cup {KWin, Windows}
    /\ watchdog = FALSE
    /\ turn = 0

-----------------------------------------------------------------------------
(* WlrFrameSource::issue(r) reaches the compositor, or is refused because no *)
(* output holds r; a refused grab emits failed() and ends in the same call.  *)
(* endRequest() has cleared the remembered rect by then, so nothing further  *)
(* is issued.  An outcome is the slot and the rect on the wire.              *)
IssueOutcomes(s, r) ==
    IF r = NoRect THEN {<<s, NoRect>>}
    ELSE {<<s, r>>, <<EndRequest(s), NoRect>>}

(* What issue() leaves behind: m_pending and the watchdog it armed.          *)
Wire(out) ==
    /\ slot' = out[1]
    /\ job' = IF out[2] = NoRect THEN NoJob ELSE WlrIssued(out[2])
    /\ watchdog' = (out[2] # NoRect)
    /\ UNCHANGED <<worker, backend>>

WlrGrab(r) ==
    /\ OnWlr
    /\ IF slot.inFlight
       THEN slot' = BeginRequest(slot, r) /\ UNCHANGED <<worker, job, watchdog, backend, turn>>
       ELSE \E out \in IssueOutcomes(BeginRequest(slot, r), r) : Wire(out) /\ UNCHANGED turn

(* endRequest() and, for a remembered rect, issue().                         *)
WlrIssueNext(s) ==
    /\ \E out \in IssueOutcomes(EndRequest(s), s.pending) : Wire(out)
    /\ turn' = 1 - turn

(* abortPending(): watchdog off, frame destroyed, failed(), issueNext().     *)
AbortPending == WlrIssueNext(slot)

(* Mutant: sendCopy() gives up on a frame without ending the grab.           *)
SendCopyGivesUp(j) ==
    \/ j.haveBuffer /\ job' = [j EXCEPT !.copied = TRUE]
       /\ UNCHANGED <<worker, slot, watchdog, backend, turn>>
    \/ job' = NoJob /\ watchdog' = FALSE /\ UNCHANGED <<worker, slot, backend, turn>>

(* sendCopy() on the frame j: the copy is sent where there is a buffer for   *)
(* it, and where shared memory can be had; otherwise the frame is aborted.   *)
SendCopy(j) ==
    \/ j.haveBuffer /\ job' = [j EXCEPT !.copied = TRUE]
       /\ UNCHANGED <<worker, slot, watchdog, backend, turn>>
    \/ AbortPending

(* A buffer event, `usable` when this build has an image format for it.      *)
(* Before version 3 one buffer event is the whole offer and sends the copy.  *)
OnBuffer(usable) ==
    /\ OnWlr
    /\ ~Idle /\ job.offering
    /\ LET offered == [job EXCEPT !.haveBuffer = job.haveBuffer \/ usable,
                                  !.offering = backend >= 3]
       IN  IF backend < 3 /\ usable /\ ~job.haveBuffer
           THEN SendCopy(offered)
           ELSE job' = offered /\ UNCHANGED <<worker, slot, watchdog, backend, turn>>

OnBufferDone ==
    /\ OnWlr
    /\ ~Idle /\ job.offering /\ backend >= 3
    /\ SendCopy([job EXCEPT !.offering = FALSE])

(* finishPending(): the pixels arrived.  The frame is released before        *)
(* frameReady() is emitted and the grab ended after it.                      *)
OnReady ==
    /\ OnWlr
    /\ ~Idle /\ job.copied
    /\ \E s \in AfterHandler(slot) : WlrIssueNext(s)

OnFailed ==
    /\ OnWlr
    /\ ~Idle
    /\ AbortPending

OnRequestTimeout ==
    /\ OnWlr
    /\ watchdog /\ ~Idle
    /\ AbortPending

-----------------------------------------------------------------------------
KWinIssue(s, r) ==
    /\ slot' = s
    /\ job' = IF r = NoRect THEN NoJob ELSE KWinIssued(r)
    /\ UNCHANGED <<worker, watchdog, backend>>

KWinGrab(r) ==
    /\ OnKWin
    /\ IF slot.inFlight
       THEN slot' = BeginRequest(slot, r) /\ UNCHANGED <<worker, job, watchdog, backend, turn>>
       ELSE KWinIssue(BeginRequest(slot, r), r) /\ UNCHANGED turn

KWinIssueNext(s) ==
    /\ KWinIssue(EndRequest(s), s.pending)
    /\ turn' = 1 - turn

(* maybeFinish() on the grab j: nothing until the reply and the pixels are   *)
(* both in.  Then finished() is emitted, whose handler may grab again, or,   *)
(* for an image that does not add up, failed().                              *)
MaybeFinish(j) ==
    IF j.reply /\ j.pixels
    THEN \E s \in AfterHandler(slot) : KWinIssueNext(s)
    ELSE job' = j /\ UNCHANGED <<worker, slot, watchdog, backend, turn>>

OnReply ==
    /\ OnKWin
    /\ ~Idle /\ ~job.reply
    /\ MaybeFinish([job EXCEPT !.reply = TRUE])

OnPixels ==
    /\ OnKWin
    /\ ~Idle /\ ~job.pixels
    /\ MaybeFinish([job EXCEPT !.pixels = TRUE])

(* failOnce(): pipe2 failed, or D-Bus answered with an error or timed out.   *)
OnGrabFailed ==
    /\ OnKWin
    /\ ~Idle /\ ~job.reply
    /\ KWinIssueNext(slot)

-----------------------------------------------------------------------------
(* WinFrameSource, where deliver() ends a grab.                              *)
WindowsGrab(r) == OnWindows /\ WinGrab(r) /\ UNCHANGED <<watchdog, backend, turn>>

OnDelivered ==
    /\ OnWindows
    /\ Deliver
    /\ turn' = 1 - turn
    /\ UNCHANGED <<watchdog, backend>>

OnWorker == OnWindows /\ WorkerStep /\ UNCHANGED <<watchdog, backend, turn>>

WindowsStep == OnWindows /\ (Release \/ IdleEvent) /\ UNCHANGED <<watchdog, backend, turn>>

-----------------------------------------------------------------------------
Grab(r) == WlrGrab(r) \/ KWinGrab(r) \/ WindowsGrab(r)

Next ==
    \/ \E r \in Rect : Grab(r)
    \/ \E usable \in BOOLEAN : OnBuffer(usable)
    \/ OnBufferDone
    \/ OnReady
    \/ OnFailed
    \/ OnRequestTimeout
    \/ OnReply
    \/ OnPixels
    \/ OnGrabFailed
    \/ OnDelivered
    \/ OnWorker
    \/ WindowsStep

(* The compositor owes a wlroots grab nothing: only the watchdog is fair.    *)
(* KWin's reply is bounded by the D-Bus timeout (kwingrabber.cpp:30), and    *)
(* its write end of the pipe is closed on every path, so the reader returns. *)
(* On Windows both threads run their event loops and no call blocks.         *)
Fairness ==
    /\ WF_vars(OnRequestTimeout)
    /\ WF_vars(OnReply \/ OnGrabFailed)
    /\ WF_vars(OnPixels)
    /\ WF_vars(OnWorker)
    /\ WF_vars(OnDelivered)

Safety == Init /\ [][Next]_vars
Spec == Safety /\ Fairness

-----------------------------------------------------------------------------
(* The served request is the one the slot counts as in flight.               *)
Serving == IF slot.inFlight /\ ~Idle THEN job.rect ELSE NoRect

LW == INSTANCE LatestWins WITH
        Request <- Rect, None <- NoRect,
        serving <- Serving, waiting <- slot.pending

(* The slot and the issued grab agree: a slot in flight with nothing issued  *)
(* would refuse every later grab, and a grab outside the slot would let two  *)
(* share the one buffer.  The watchdog times exactly the grab on the wire.   *)
SlotMatchesJob ==
    /\ slot.inFlight <=> ~Idle
    /\ slot.pending # NoRect => slot.inFlight
    /\ watchdog <=> OnWlr /\ ~Idle

(* No frame lacks a present from before its grab: what the compositor shows  *)
(* while an output is made, or between two grabs, or with a pointer update,  *)
(* reaches the copy (winframesource.cpp:433-434, :463-464).                  *)
FramesAreCurrent == OnWindows /\ ~Idle => job.answer # "stale"

(* All sources are latest-wins servers in which every grab ends, whatever   *)
(* the compositor does or fails to do.                                       *)
ImplementsLatestWins == LW!Spec
=============================================================================
