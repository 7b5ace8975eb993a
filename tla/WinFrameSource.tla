--------------------------- MODULE WinFrameSource ---------------------------
(* WinFrameSource (src/src/capture/winframesource.cpp): a grab is a queued   *)
(* call to a WinCaptureWorker on a thread of its own, which reads the copy   *)
(* it keeps of a duplicated output, or else the screen by BitBlt, and queues *)
(* the answer back.  One monitor stands for all of them, since the worker    *)
(* keeps an output for each; the adapters it shares are left out.            *)
EXTENDS FrameSource, Integers, Sequences, FiniteSets

VARIABLE worker   \* see Worker

(* answer: what was queued back, "none" as yet.  A "stale" frame lacks what  *)
(* was on screen when the worker took the grab.                              *)
WinJob == [rect : Rect, answer : {"none", "frame", "stale", "error"}]
WinIssued(r) == [rect |-> r, answer |-> "none"]
WinRefused(r) == [rect |-> r, answer |-> "error"]

ASSUME NoWinJobAssumption == NoJob \notin WinJob

(* An Output: which halves of it were made, what the duplication has for it, *)
(* and whether the copy in Output::last lacks a present that is not there.   *)
Output == [made : SUBSET {"duplication", "copy"}, queued : {"nothing", "pointer", "present"},
           lacks : BOOLEAN]
NoOutput == [made |-> {}, queued |-> "nothing", lacks |-> FALSE]

(* calls: the events queued to it.  step: how far capture() is.  timed:      *)
(* m_idle runs.  deferred: before the time of m_retryAfter.                  *)
Worker == [calls : Seq({"capture", "release"}), step : {"free", "make", "copy", "blit"},
           output : Output, timed : BOOLEAN, deferred : BOOLEAN]
FreeWorker == [calls |-> <<>>, step |-> "free", output |-> NoOutput, timed |-> FALSE,
               deferred |-> FALSE]

-----------------------------------------------------------------------------
(* issue(): a grab no screen holds fails through the event loop.             *)
WinIssue(s, r) ==
    /\ slot' = s
    /\ \/ r = NoRect /\ job' = NoJob /\ UNCHANGED worker
       \/ r # NoRect /\ job' = WinRefused(r) /\ UNCHANGED worker
       \/ /\ r # NoRect /\ job' = WinIssued(r)
          /\ worker' = [worker EXCEPT !.calls = Append(@, "capture")]

WinGrab(r) ==
    IF slot.inFlight
    THEN slot' = BeginRequest(slot, r) /\ UNCHANGED <<job, worker>>
    ELSE WinIssue(BeginRequest(slot, r), r)

(* deliver(), with issueNext() after the handler.                            *)
Deliver ==
    /\ job # NoJob /\ job.answer # "none"
    /\ IF job.answer = "error"
       THEN WinIssue(EndRequest(slot), slot.pending)
       ELSE \E s \in AfterHandler(slot) : WinIssue(EndRequest(s), s.pending)

(* release(), when pointer tracking stops.  A call behind another one of its *)
(* kind finds nothing to release.                                            *)
Releasing == worker.calls # <<>> /\ worker.calls[Len(worker.calls)] = "release"
Release ==
    /\ ~Releasing
    /\ worker' = [worker EXCEPT !.calls = Append(@, "release")]
    /\ UNCHANGED <<slot, job>>

-----------------------------------------------------------------------------
(* Mutant: WinCaptureWorker::release() stops the timer alone.                *)
ReleasedLater(w) == [w EXCEPT !.timed = FALSE]

(* WinCaptureWorker::release(): stops m_idle and releases every output.      *)
Released(w) == [w EXCEPT !.output = NoOutput, !.timed = FALSE]

TakeRelease ==
    /\ worker.step = "free" /\ worker.calls # <<>> /\ Head(worker.calls) = "release"
    /\ worker' = [Released(worker) EXCEPT !.calls = Tail(@)]
    /\ UNCHANGED <<slot, job>>

(* capture(): m_idle starts again, and outputFor() answers the output it     *)
(* has, none while a retry is deferred, or goes on to make one.              *)
TakeCapture ==
    /\ worker.step = "free" /\ worker.calls # <<>> /\ Head(worker.calls) = "capture"
    /\ worker' = [worker EXCEPT !.calls = Tail(@), !.timed = TRUE,
                                !.step = IF worker.output.made # {} THEN "copy"
                                         ELSE IF worker.deferred THEN "blit" ELSE "make"]
    /\ UNCHANGED <<slot, job>>

(* Mutant: the copy is seeded before the output is duplicated.               *)
SeedFirst == <<"copy", "duplication">>

(* startDuplication() seeds the copy by BitBlt once the output is duplicated.*)
Making == <<"duplication", "copy">>

(* duplicate(): one half of the output, or none at all and deferRetry().     *)
MakeOutput(ok) ==
    LET half == Making[Cardinality(worker.output.made) + 1]
        made == worker.output.made \cup {half}
    IN  /\ worker.step = "make"
        /\ worker' = IF ok
                     THEN [worker EXCEPT !.output.made = made,
                                         !.step = IF Cardinality(made) = 2 THEN "copy" ELSE "make"]
                     ELSE [worker EXCEPT !.output = NoOutput, !.deferred = TRUE, !.step = "blit"]
        /\ UNCHANGED <<slot, job>>

(* Mutant: a frame that carries a pointer update alone is copied as well.    *)
DrainedAll(o) == [o EXCEPT !.queued = "nothing", !.lacks = o.queued = "pointer"]

(* drain(): the newest image, except of frames without a present.            *)
Drained(o) == [o EXCEPT !.queued = "nothing", !.lacks = o.lacks /\ o.queued # "present"]

(* copyFromDuplication(): drained and copied; or the rect or the staging     *)
(* texture will not do; or the duplication was lost, and is destroyed.       *)
CopyOutput(outcome) ==
    /\ worker.step = "copy"
    /\ CASE outcome = "copied" ->
              /\ worker' = [worker EXCEPT !.output = Drained(@), !.step = "free"]
              /\ job' = [job EXCEPT !.answer = IF Drained(worker.output).lacks THEN "stale" ELSE "frame"]
         [] outcome = "unfit" ->
              worker' = [worker EXCEPT !.output = Drained(@), !.step = "blit"] /\ UNCHANGED job
         [] outcome = "lost" ->
              /\ worker' = [worker EXCEPT !.output = NoOutput, !.deferred = TRUE, !.step = "blit"]
              /\ UNCHANGED job
    /\ UNCHANGED slot

(* captureWithBitBlt(): the screen as it is, unless it cannot be read.       *)
BlitScreen(ok) ==
    /\ worker.step = "blit"
    /\ job' = [job EXCEPT !.answer = IF ok THEN "frame" ELSE "error"]
    /\ worker' = [worker EXCEPT !.step = "free"]
    /\ UNCHANGED slot

(* m_idle fires.                                                             *)
IdleRelease ==
    /\ worker.step = "free" /\ worker.timed
    /\ worker' = [worker EXCEPT !.output = NoOutput, !.timed = FALSE]
    /\ UNCHANGED <<slot, job>>

(* The time of m_retryAfter passes.                                          *)
RetryDelayPasses ==
    /\ worker.deferred
    /\ worker' = [worker EXCEPT !.deferred = FALSE]
    /\ UNCHANGED <<slot, job>>

(* The compositor presents an image, or moves the pointer alone.             *)
Shown(o, kind) ==
    IF "duplication" \in o.made
    THEN [o EXCEPT !.queued = IF o.queued = "present" THEN "present" ELSE kind]
    ELSE [o EXCEPT !.lacks = o.lacks \/ ("copy" \in o.made /\ kind = "present")]
Present(kind) ==
    /\ worker' = [worker EXCEPT !.output = Shown(@, kind)]
    /\ UNCHANGED <<slot, job>>

(* The event loop of the thread, and capture() in the middle of its work.    *)
WorkerStep ==
    \/ TakeRelease
    \/ TakeCapture
    \/ \E ok \in BOOLEAN : MakeOutput(ok) \/ BlitScreen(ok)
    \/ \E outcome \in {"copied", "unfit", "lost"} : CopyOutput(outcome)

(* What else happens around the worker.                                      *)
IdleEvent ==
    \/ IdleRelease
    \/ RetryDelayPasses
    \/ \E kind \in {"pointer", "present"} : Present(kind)

-----------------------------------------------------------------------------
(* A duplication costs video memory and a copy of every present: whatever is *)
(* grabbed, released and lost in whatever order, one is held only while the  *)
(* timer runs that lets go of it (winframesource.cpp:37-40, :201-203).       *)
HeldIsTimed == worker.output.made # {} => worker.timed
=============================================================================
