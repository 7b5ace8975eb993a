------------------------- MODULE PointerGrabsProofs -------------------------
(* The throttle keeps its rate and its trailing edge, for every set of       *)
(* intervals and every lateness of the event loop; the pixel sources keep    *)
(* their bookkeeping and serve the newest request, for every set of regions  *)
(* and every protocol version, and the worker of the Windows source answers  *)
(* with current frames. What each does alone it does where the one drives    *)
(* the other, because every step of the two is a step or a stutter of each.  *)
EXTENDS PointerGrabs, SequenceTheorems, FiniteSetTheorems, TLAPS

-----------------------------------------------------------------------------
(* The throttle.                                                             *)

(* Longest is what its name says, so every interval lies in 1 .. Longest.    *)
LEMMA LongestBounds ==
    /\ Longest \in Nat /\ Longest >= 1
    /\ Intervals \subseteq 1 .. Longest
<1>1. Intervals \subseteq Nat /\ \A n \in Intervals : n >= 1
  <2>1. \A n \in Settings : Larger(n, 1) \in Nat /\ Larger(n, 1) >= 1
    BY SettingsAssumption DEF Larger
  <2> QED BY <2>1 DEF Intervals
<1>2. \E n \in Intervals : \A m \in Intervals : m <= n
  <2>1. PICK n \in Settings : \A m \in Settings : m <= n
    BY LongestAssumption
  <2>2. ASSUME NEW m \in Settings PROVE Larger(m, 1) <= Larger(n, 1)
    <3>1. m \in Nat /\ n \in Nat /\ m <= n
      BY <2>1, SettingsAssumption
    <3> QED BY <3>1 DEF Larger
  <2>3. Larger(n, 1) \in Intervals
    BY DEF Intervals
  <2>4. \A m \in Intervals : m <= Larger(n, 1)
    BY <2>2 DEF Intervals
  <2> QED BY <2>3, <2>4
<1>3. Longest \in Intervals /\ \A m \in Intervals : m <= Longest
  BY <1>2 DEF Longest
<1> QED BY <1>1, <1>3

(* Every interval setIntervalMs() installs is one of Intervals.              *)
LEMMA ClampedIsInterval ==
    ASSUME NEW n \in Settings
    PROVE  ClampedIntervalMs(n) \in Intervals
BY DEF ClampedIntervalMs, Intervals

(* The clock measures true time, an interval in force is never shorter than  *)
(* the shortest, and a scheduled fire respects the shortest one too.         *)
Consistent ==
    /\ sinceFire = gap
    /\ ~hasFired => gap = Horizon
    /\ shortest <= intervalMs
    /\ timer # NoTimer => shortest <= gap + timer

ThrottleInv == ThrottleTypeOK /\ Consistent /\ TrailingFireEndsWindow /\ RequestIsCarried

(* The throttle starts in the invariant.                                     *)
LEMMA ThrottleStarts == ThrottleInit => ThrottleInv
<1> SUFFICES ASSUME ThrottleInit PROVE ThrottleInv
  OBVIOUS
<1>1. intervalMs \in 1 .. Longest /\ intervalMs \in Intervals
  BY LongestBounds DEF ThrottleInit
<1>2. Horizon \in Nat /\ Horizon >= 1 /\ NoTimer \in Int /\ NoTimer < 0
  BY LongestBounds, MaxLateAssumption DEF Horizon, NoTimer
<1>3. ThrottleTypeOK
  <2>1. timer \in NoTimer .. Longest /\ gap \in 0 .. Horizon /\ waiting \in NoRequest .. Horizon
    BY <1>2, LongestBounds DEF ThrottleInit, NoRequest
  <2>2. sinceFire \in Int
    BY <1>2 DEF ThrottleInit
  <2> QED BY <1>1, <2>1, <2>2 DEF ThrottleInit, ThrottleTypeOK
<1>4. Consistent /\ TrailingFireEndsWindow /\ RequestIsCarried
  <2>1. shortest <= intervalMs
    BY <1>1, LongestBounds DEF ThrottleInit
  <2> QED BY <2>1 DEF ThrottleInit, Consistent, TrailingFireEndsWindow, RequestIsCarried
<1> QED BY <1>3, <1>4 DEF ThrottleInv

(* Every operation, and the passing of time, preserves the invariant.        *)
LEMMA ThrottleKeeps == ThrottleInv /\ [ThrottleNext]_throttleVars => ThrottleInv'
<1> SUFFICES ASSUME ThrottleInv, [ThrottleNext]_throttleVars PROVE ThrottleInv'
  OBVIOUS
<1> USE LongestBounds, MaxLateAssumption
    DEF ThrottleInv, ThrottleTypeOK, Consistent, TrailingFireEndsWindow, RequestIsCarried,
        NoTimer, NoRequest, Horizon
<1>1. ASSUME Fire PROVE ThrottleInv'
  BY <1>1 DEF Fire
<1>2. CASE Request
  <2>1. CASE Coalesce
    BY <2>1 DEF Coalesce, throttleVars, history
  <2>2. CASE timer = NoTimer /\ ~MayFire /\ Schedule
    BY <2>2 DEF MayFire, Schedule
  <2> QED BY <1>1, <1>2, <2>1, <2>2 DEF Request
<1>3. CASE Cancel
  BY <1>3 DEF Cancel
<1>4. ASSUME NEW n \in Settings, SetIntervalMs(n) PROVE ThrottleInv'
  <2>1. intervalMs' \in Intervals
    BY <1>4, ClampedIsInterval DEF SetIntervalMs
  <2> QED BY <1>4, <2>1 DEF SetIntervalMs, Smaller
<1>5. CASE Timeout
  BY <1>1, <1>5 DEF Timeout
<1>6. CASE Tick
  BY <1>6 DEF Tick, Smaller
<1>7. CASE UNCHANGED throttleVars
  BY <1>7 DEF throttleVars, history
<1> QED BY <1>2, <1>3, <1>4, <1>5, <1>6, <1>7 DEF ThrottleNext

(* The types, the end of a window and the carried request (throttle.h:6 and  *)
(* 20-22) hold in every state of every behaviour.                            *)
THEOREM ThrottleSafety == ThrottleSpec => [](ThrottleTypeOK /\ TrailingFireEndsWindow /\ RequestIsCarried)
<1>1. ThrottleInv => ThrottleTypeOK /\ TrailingFireEndsWindow /\ RequestIsCarried
  BY DEF ThrottleInv
<1> QED BY ThrottleStarts, ThrottleKeeps, <1>1, PTL DEF ThrottleSpec

(* A request that did not fire is carried by a trailing fire, which comes    *)
(* within the longest interval of it (throttle.h:20-22).                     *)
THEOREM RequestsAreCarried == ThrottleSpec => []RequestIsCarried
<1>1. ThrottleInv => RequestIsCarried
  BY DEF ThrottleInv
<1> QED BY ThrottleStarts, ThrottleKeeps, <1>1, PTL DEF ThrottleSpec

(* At most one fire per interval (throttle.h:20): a fire comes no sooner     *)
(* than the shortest interval in force since the one before it.              *)
THEOREM ThrottleRate == ThrottleSpec => AtMostOncePerInterval
<1>1. ThrottleInv /\ [ThrottleNext]_throttleVars => [parity' # parity => gap >= shortest /\ gap >= 1]_throttleVars
  <2> SUFFICES ASSUME ThrottleInv, ThrottleNext, parity' # parity
               PROVE  gap >= shortest /\ gap >= 1
    BY DEF throttleVars
  <2> USE LongestBounds, MaxLateAssumption
      DEF ThrottleInv, ThrottleTypeOK, Consistent, NoTimer, Horizon
  <2>1. CASE Request
    BY <2>1 DEF Request, Coalesce, MayFire, Schedule, throttleVars, history
  <2>2. CASE Timeout
    BY <2>2 DEF Timeout
  <2>3. CASE Cancel
    BY <2>3 DEF Cancel
  <2>4. CASE \E n \in Settings : SetIntervalMs(n)
    BY <2>4 DEF SetIntervalMs
  <2>5. CASE Tick
    BY <2>5 DEF Tick
  <2> QED BY <2>1, <2>2, <2>3, <2>4, <2>5 DEF ThrottleNext
<1> QED BY ThrottleStarts, ThrottleKeeps, <1>1, PTL DEF ThrottleSpec, AtMostOncePerInterval

-----------------------------------------------------------------------------
(* The worker: at most one call to capture(), the timer around an output,    *)
(* and a copy that lacks nothing.                                            *)
Call == {"capture", "release"}
Captures(calls) == {i \in DOMAIN calls : calls[i] = "capture"}
Busy(w) == w.step # "free" \/ Captures(w.calls) # {}
WorkerOk(w) ==
    /\ w \in Worker
    /\ \A i, j \in Captures(w.calls) : i = j
    /\ w.step # "free" => Captures(w.calls) = {}
    /\ w.output.made # {} => w.timed
    /\ w.step = "make" => w.timed /\ w.output.made \in {{}, {"duplication"}}
    /\ w.output.made \in {{}, {"duplication"}, {"duplication", "copy"}}
    /\ w.output.lacks = FALSE

(* A busy worker works on the grab on the wire, and has not answered it yet. *)
WinInv ==
    /\ WorkerOk(worker)
    /\ Busy(worker) => OnWindows /\ job \in WinJob /\ job.answer = "none"
    /\ FramesAreCurrent

LEMMA AppendedCall ==
    ASSUME NEW s \in Seq(Call), NEW c \in Call
    PROVE  /\ Append(s, c) \in Seq(Call)
           /\ Captures(Append(s, c)) =
                IF c = "capture" THEN Captures(s) \cup {Len(s) + 1} ELSE Captures(s)
<1>1. /\ Len(s) \in Nat /\ DOMAIN s = 1 .. Len(s) /\ Append(s, c) \in Seq(Call)
      /\ Len(Append(s, c)) = Len(s) + 1 /\ Append(s, c)[Len(s) + 1] = c
      /\ \A i \in 1 .. Len(s) : Append(s, c)[i] = s[i]
  BY AppendProperties, LenProperties
<1>2. DOMAIN Append(s, c) = 1 .. Len(s) + 1
  BY <1>1, LenProperties
<1> QED BY <1>1, <1>2 DEF Captures

LEMMA TakenCall ==
    ASSUME NEW s \in Seq(Call), s # <<>>,
           \A i, j \in Captures(s) : i = j
    PROVE  /\ Tail(s) \in Seq(Call)
           /\ \A i, j \in Captures(Tail(s)) : i = j
           /\ Captures(s) = {} => Captures(Tail(s)) = {}
           /\ Head(s) = "capture" => Captures(s) # {} /\ Captures(Tail(s)) = {}
           /\ Captures(Tail(s)) # {} => Captures(s) # {}
<1>1. /\ Len(s) \in Nat \ {0} /\ DOMAIN s = 1 .. Len(s) /\ Head(s) = s[1]
      /\ Tail(s) \in Seq(Call) /\ Len(Tail(s)) = Len(s) - 1
      /\ \A i \in 1 .. Len(Tail(s)) : Tail(s)[i] = s[i + 1]
  BY HeadTailProperties, LenProperties, EmptySeq
<1>2. DOMAIN Tail(s) = 1 .. Len(s) - 1
  BY <1>1, LenProperties
<1>3. \A i \in Captures(Tail(s)) : i + 1 \in Captures(s) /\ i \in Nat \ {0}
  BY <1>1, <1>2 DEF Captures
<1>4. Head(s) = "capture" => 1 \in Captures(s)
  BY <1>1 DEF Captures
<1> QED BY <1>1, <1>3, <1>4

(* What the thread of the worker and the world around it do to the worker.   *)
LEMMA WorkerMoves ==
    ASSUME WorkerOk(worker), TakeRelease \/ TakeCapture \/ Release \/ IdleEvent
    PROVE  WorkerOk(worker') /\ (Busy(worker') => Busy(worker))
<1> DEFINE w == worker
<1>1. /\ w \in [calls : Seq(Call), step : {"free", "make", "copy", "blit"}, output : Output,
                timed : BOOLEAN, deferred : BOOLEAN]
      /\ \A i, j \in Captures(w.calls) : i = j
      /\ w.output \in Output /\ w.calls \in Seq(Call)
  BY DEF WorkerOk, Worker, Call
<1>2. NoOutput \in Output /\ NoOutput.made = {} /\ NoOutput.lacks = FALSE
  BY DEF NoOutput, Output
<1>3. CASE TakeRelease
  <2>1. worker' = [w EXCEPT !.output = NoOutput, !.timed = FALSE, !.calls = Tail(w.calls)]
    BY <1>3 DEF TakeRelease, Released
  <2>2. w.calls # <<>> /\ w.step = "free"
    BY <1>3 DEF TakeRelease
  <2> QED BY <1>1, <1>2, <2>1, <2>2, TakenCall DEF WorkerOk, Worker, Busy, Call
<1>4. CASE TakeCapture
  <2> DEFINE next == IF w.output.made # {} THEN "copy" ELSE IF w.deferred THEN "blit" ELSE "make"
  <2>1. worker' = [w EXCEPT !.calls = Tail(w.calls), !.timed = TRUE, !.step = next]
    BY <1>4 DEF TakeCapture
  <2>2. w.calls # <<>> /\ w.step = "free" /\ Head(w.calls) = "capture"
    BY <1>4 DEF TakeCapture
  <2>3. next \in {"make", "copy", "blit"} /\ (next = "make" => w.output.made = {})
    OBVIOUS
  <2> HIDE DEF next
  <2> QED BY <1>1, <2>1, <2>2, <2>3, TakenCall DEF WorkerOk, Worker, Busy, Call
<1>5. CASE Release
  <2>1. worker' = [w EXCEPT !.calls = Append(w.calls, "release")]
    BY <1>5 DEF Release
  <2>2. Append(w.calls, "release") \in Seq(Call) /\ Captures(Append(w.calls, "release")) = Captures(w.calls)
    BY <1>1, AppendedCall DEF Call
  <2> QED BY <1>1, <2>1, <2>2 DEF WorkerOk, Worker, Busy, Call
<1>6. CASE IdleRelease
  <2>1. worker' = [w EXCEPT !.output = NoOutput, !.timed = FALSE] /\ w.step = "free"
    BY <1>6 DEF IdleRelease
  <2> QED BY <1>1, <1>2, <2>1 DEF WorkerOk, Worker, Busy, Call
<1>7. CASE RetryDelayPasses
  <2>1. worker' = [w EXCEPT !.deferred = FALSE]
    BY <1>7 DEF RetryDelayPasses
  <2> QED BY <1>1, <2>1 DEF WorkerOk, Worker, Busy, Call
<1>8. ASSUME NEW kind \in {"pointer", "present"}, Present(kind)
      PROVE  WorkerOk(worker') /\ (Busy(worker') => Busy(worker))
  <2>1. worker' = [w EXCEPT !.output = Shown(w.output, kind)]
    BY <1>8 DEF Present
  <2>2. /\ Shown(w.output, kind) \in Output
        /\ Shown(w.output, kind).made = w.output.made
        /\ Shown(w.output, kind).lacks = FALSE
    BY <1>1 DEF Shown, Output, WorkerOk
  <2> QED BY <1>1, <2>1, <2>2 DEF WorkerOk, Worker, Busy, Call
<1> QED BY <1>3, <1>4, <1>5, <1>6, <1>7, <1>8 DEF IdleEvent

LEMMA OutputMade ==
    ASSUME WorkerOk(worker), NEW ok \in BOOLEAN, MakeOutput(ok)
    PROVE  WorkerOk(worker') /\ Busy(worker)
<1> DEFINE w == worker
<1>1. /\ w \in [calls : Seq(Call), step : {"free", "make", "copy", "blit"}, output : Output,
                timed : BOOLEAN, deferred : BOOLEAN]
      /\ w.output \in Output /\ w.step = "make" /\ w.timed /\ Captures(w.calls) = {}
      /\ w.output.made \in {{}, {"duplication"}}
  BY DEF WorkerOk, Worker, Call, MakeOutput
<1>2. CASE ~ok
  <2>1. worker' = [w EXCEPT !.output = NoOutput, !.deferred = TRUE, !.step = "blit"]
    BY <1>2 DEF MakeOutput
  <2>2. NoOutput \in Output /\ NoOutput.made = {} /\ NoOutput.lacks = FALSE
    BY DEF NoOutput, Output
  <2> QED BY <1>1, <2>1, <2>2 DEF WorkerOk, Worker, Busy, Call
<1>3. CASE ok
  <2> DEFINE made == w.output.made \cup {Making[Cardinality(w.output.made) + 1]}
             next == IF Cardinality(made) = 2 THEN "copy" ELSE "make"
  <2>1. worker' = [w EXCEPT !.output.made = made, !.step = next]
    BY <1>1, <1>3 DEF MakeOutput
  <2>2. \/ made = {"duplication"} /\ next = "make"
        \/ made = {"duplication", "copy"} /\ next = "copy"
    <3>1. /\ Cardinality({}) = 0 /\ Cardinality({"duplication"}) = 1
          /\ Cardinality({"duplication", "copy"}) = 2
      <4>1. Cardinality({}) = 0 /\ Cardinality({"duplication"}) = 1 /\ IsFiniteSet({"duplication"})
        BY FS_EmptySet, FS_Singleton
      <4>2. Cardinality({"duplication"} \cup {"copy"}) = Cardinality({"duplication"}) + 1
        BY <4>1, FS_AddElement
      <4>3. {"duplication", "copy"} = {"duplication"} \cup {"copy"}
        OBVIOUS
      <4> QED BY <4>1, <4>2, <4>3
    <3>2. CASE w.output.made = {}
      <4>1. made = {"duplication"}
        BY <3>1, <3>2 DEF Making
      <4> QED BY <3>1, <4>1
    <3>3. CASE w.output.made = {"duplication"}
      <4>1. made = {"duplication", "copy"}
        BY <3>1, <3>3 DEF Making
      <4> QED BY <3>1, <4>1
    <3> QED BY <1>1, <3>2, <3>3
  <2> HIDE DEF made, next
  <2>3. [w.output EXCEPT !.made = made] \in Output
    BY <1>1, <2>2 DEF Output
  <2>4. /\ worker'.output = [w.output EXCEPT !.made = made] /\ worker'.step = next
        /\ worker'.calls = w.calls /\ worker'.timed = w.timed /\ worker' \in Worker
    BY <1>1, <2>1, <2>2, <2>3 DEF Worker, Call
  <2>5. worker'.output.made = made /\ worker'.output.lacks = FALSE
    BY <1>1, <2>4 DEF Output, WorkerOk
  <2> QED BY <1>1, <2>2, <2>4, <2>5 DEF WorkerOk, Busy
<1> QED BY <1>1, <1>2, <1>3 DEF Busy

(* The end of capture(): the answer is a frame that lacks nothing, or an     *)
(* error.                                                                    *)
LEMMA WorkerAnswers ==
    ASSUME WorkerOk(worker), job \in WinJob,
           \/ \E ok \in BOOLEAN : BlitScreen(ok)
           \/ \E outcome \in {"copied", "unfit", "lost"} : CopyOutput(outcome)
    PROVE  /\ WorkerOk(worker') /\ Busy(worker)
           /\ \/ ~Busy(worker') /\ job' \in WinJob /\ job'.rect = job.rect /\ job'.answer \in {"frame", "error"}
              \/ UNCHANGED job
<1> DEFINE w == worker
<1>1. /\ w \in [calls : Seq(Call), step : {"free", "make", "copy", "blit"}, output : Output,
                timed : BOOLEAN, deferred : BOOLEAN]
      /\ w.output \in Output /\ w.output.lacks = FALSE
      /\ w.step # "free" => Captures(w.calls) = {}
  BY DEF WorkerOk, Worker, Call
<1>2. ASSUME NEW ok \in BOOLEAN, BlitScreen(ok)
      PROVE  /\ WorkerOk(worker') /\ Busy(worker) /\ ~Busy(worker')
             /\ job' \in WinJob /\ job'.rect = job.rect /\ job'.answer \in {"frame", "error"}
  <2>1. worker' = [w EXCEPT !.step = "free"] /\ w.step = "blit"
    BY <1>2 DEF BlitScreen
  <2>2. WorkerOk(worker') /\ Busy(worker) /\ ~Busy(worker')
    BY <1>1, <2>1 DEF WorkerOk, Worker, Busy, Call
  <2> QED BY <1>2, <2>2 DEF BlitScreen, WinJob
<1>3. /\ Drained(w.output) \in Output /\ Drained(w.output).lacks = FALSE
      /\ Drained(w.output).made = w.output.made
      /\ NoOutput \in Output /\ NoOutput.made = {} /\ NoOutput.lacks = FALSE
  BY <1>1 DEF Drained, Output, NoOutput
<1>4. CASE CopyOutput("copied")
  <2>1. /\ worker' = [w EXCEPT !.output = Drained(w.output), !.step = "free"] /\ w.step = "copy"
        /\ job' = [job EXCEPT !.answer = "frame"]
    BY <1>3, <1>4 DEF CopyOutput
  <2>2. WorkerOk(worker') /\ Busy(worker) /\ ~Busy(worker')
    BY <1>1, <1>3, <2>1 DEF WorkerOk, Worker, Busy, Call
  <2> QED BY <2>1, <2>2 DEF WinJob
<1>5. CASE CopyOutput("unfit")
  <2>1. worker' = [w EXCEPT !.output = Drained(w.output), !.step = "blit"] /\ w.step = "copy" /\ UNCHANGED job
    BY <1>5 DEF CopyOutput
  <2> QED BY <1>1, <1>3, <2>1 DEF WorkerOk, Worker, Busy, Call
<1>6. CASE CopyOutput("lost")
  <2>1. /\ worker' = [w EXCEPT !.output = NoOutput, !.deferred = TRUE, !.step = "blit"]
        /\ w.step = "copy" /\ UNCHANGED job
    BY <1>6 DEF CopyOutput
  <2> QED BY <1>1, <1>3, <2>1 DEF WorkerOk, Worker, Busy, Call
<1> QED BY <1>2, <1>4, <1>5, <1>6

(* A call to capture(), queued to a worker that is not busy.                 *)
LEMMA CaptureQueued ==
    ASSUME WorkerOk(worker), ~Busy(worker),
           worker' = [worker EXCEPT !.calls = Append(worker.calls, "capture")]
    PROVE  WorkerOk(worker')
<1>1. worker.calls \in Seq(Call) /\ Captures(worker.calls) = {} /\ worker.step = "free"
  BY DEF WorkerOk, Worker, Busy, Call
<1>2. /\ Append(worker.calls, "capture") \in Seq(Call)
      /\ Captures(Append(worker.calls, "capture")) = {Len(worker.calls) + 1}
  BY <1>1, AppendedCall DEF Call
<1>3. /\ worker' \in Worker /\ worker'.calls = Append(worker.calls, "capture")
      /\ worker'.step = "free" /\ worker'.output = worker.output /\ worker'.timed = worker.timed
  BY <1>1, <1>2 DEF WorkerOk, Worker, Call
<1> QED BY <1>1, <1>2, <1>3 DEF WorkerOk

(* issue() on the Windows source, with no grab of the worker's under way.    *)
LEMMA WinIssueKeeps ==
    ASSUME WinInv, OnWindows, OnWindows', Idle \/ job.answer # "none",
           NEW s, NEW r \in Rect \cup {NoRect}, WinIssue(s, r)
    PROVE  /\ WinInv' /\ slot' = s
           /\ r = NoRect => job' = NoJob
           /\ r # NoRect => job' \in WinJob /\ job'.rect = r /\ job' # NoJob
<1> USE NoWinJobAssumption
<1>1. ~Busy(worker)
  BY DEF WinInv, Idle
<1>2. CASE r = NoRect /\ job' = NoJob /\ UNCHANGED worker
  BY <1>1, <1>2 DEF WinInv, FramesAreCurrent, Idle, WinIssue
<1>3. CASE r # NoRect /\ job' = WinRefused(r) /\ UNCHANGED worker
  <2>1. WinRefused(r) \in WinJob /\ WinRefused(r).rect = r /\ WinRefused(r).answer = "error"
    BY <1>3 DEF WinRefused, WinJob
  <2> QED BY <1>1, <1>3, <2>1 DEF WinInv, FramesAreCurrent, Idle, WinIssue
<1>4. CASE /\ r # NoRect /\ job' = WinIssued(r)
           /\ worker' = [worker EXCEPT !.calls = Append(worker.calls, "capture")]
  <2>1. WinIssued(r) \in WinJob /\ WinIssued(r).rect = r /\ WinIssued(r).answer = "none"
    BY <1>4 DEF WinIssued, WinJob
  <2>2. WorkerOk(worker')
    BY <1>1, <1>4, CaptureQueued DEF WinInv
  <2> QED BY <1>4, <2>1, <2>2 DEF WinInv, FramesAreCurrent, Idle, WinIssue
<1> QED BY <1>2, <1>3, <1>4 DEF WinIssue

(* A step of the worker that answers nothing.                                *)
LEMMA WorkerKeeps ==
    ASSUME WorkerOk(worker'), Busy(worker') => Busy(worker),
           WinInv, OnWindows, UNCHANGED <<job, backend>>
    PROVE  WinInv'
BY DEF WinInv, FramesAreCurrent, OnWindows, Idle, Busy

(* On Linux the worker does not exist.                                       *)
LEMMA LinuxKeeps ==
    ASSUME WinInv, ~OnWindows, UNCHANGED <<worker, backend>>
    PROVE  WinInv'
BY DEF WinInv, Busy, FramesAreCurrent, OnWindows

IInv == TypeOK /\ SlotMatchesJob /\ WinInv

(* A session has one source.                                                 *)
LEMMA Backends ==
    /\ KWin \notin ProtocolVersions /\ Windows \notin ProtocolVersions /\ KWin # Windows
    /\ OnWlr => ~OnKWin /\ ~OnWindows
    /\ OnKWin => ~OnWindows
BY ProtocolVersionsAssumption DEF KWin, Windows, OnWlr, OnKWin, OnWindows

(* What a grab on the wire is, by source.                                    *)
Jobs == IF OnKWin THEN KWinJob ELSE IF OnWindows THEN WinJob ELSE WlrJob

(* An issued grab is a grab, and not the absence of one.                     *)
LEMMA Issued ==
    ASSUME NEW r \in Rect
    PROVE  /\ WlrIssued(r) \in WlrJob /\ WlrIssued(r).rect = r /\ WlrIssued(r) # NoJob
           /\ KWinIssued(r) \in KWinJob /\ KWinIssued(r).rect = r /\ KWinIssued(r) # NoJob
<1>1. WlrIssued(r) \in WlrJob /\ KWinIssued(r) \in KWinJob
  BY DEF WlrIssued, WlrJob, KWinIssued, KWinJob
<1>2. WlrIssued(r).rect = r /\ KWinIssued(r).rect = r
  BY DEF WlrIssued, KWinIssued
<1> QED BY <1>1, <1>2, NoJobAssumption

(* The slot as a frameReady() handler leaves it.                             *)
LEMMA AfterHandlerSlot ==
    ASSUME slot \in Slot, slot.inFlight, NEW s \in AfterHandler(slot)
    PROVE  /\ s \in Slot /\ s.inFlight
           /\ s.pending = slot.pending \/ s.pending \in Rect
BY DEF AfterHandler, Slot, BeginRequest

(* The end of a grab: nothing is issued, or a request of this slot is.       *)
Ends(s) ==
    /\ slot'.pending = NoRect
    /\ turn' = 1 - turn
    /\ UNCHANGED backend
    /\ \/ slot'.inFlight = FALSE /\ job' = NoJob
       \/ slot'.inFlight = TRUE /\ s.pending \in Rect /\ job' # NoJob /\ job'.rect = s.pending

LEMMA WlrEnds ==
    ASSUME IInv, OnWlr, NEW s \in Slot, WlrIssueNext(s)
    PROVE  IInv' /\ Ends(s)
<1> USE NoRectAssumption
<1>1. PICK out \in IssueOutcomes(EndRequest(s), s.pending) :
          /\ slot' = out[1]
          /\ job' = IF out[2] = NoRect THEN NoJob ELSE WlrIssued(out[2])
          /\ watchdog' = (out[2] # NoRect)
          /\ UNCHANGED <<worker, backend>>
  BY DEF WlrIssueNext, Wire
<1> DEFINE free == [inFlight |-> FALSE, pending |-> NoRect]
           taken == [inFlight |-> TRUE, pending |-> NoRect]
<1>6. \/ out = <<free, NoRect>>
      \/ out = <<taken, s.pending>> /\ s.pending \in Rect
  <2>1. CASE s.pending = NoRect
    BY <2>1 DEF IssueOutcomes, EndRequest
  <2>2. CASE s.pending # NoRect
    <3>1. EndRequest(s) = taken /\ EndRequest(taken) = free
      BY <2>2 DEF EndRequest
    <3>2. s.pending \in Rect
      BY <2>2 DEF Slot
    <3> QED BY <2>2, <3>1, <3>2 DEF IssueOutcomes
  <2> QED BY <2>1, <2>2
<1>7. \/ out[1] = free /\ out[2] = NoRect
      \/ out[1] = taken /\ out[2] = s.pending /\ s.pending \in Rect
  <2> HIDE DEF free, taken
  <2> QED BY <1>6
<1>2. turn' = 1 - turn /\ turn' \in {0, 1}
  BY DEF WlrIssueNext, IInv, TypeOK
<1>3. /\ OnWlr' /\ ~OnKWin' /\ ~OnWindows' /\ backend' \in ProtocolVersions \cup {KWin, Windows}
      /\ ~OnWindows
  BY <1>1, Backends DEF OnWlr, OnKWin, OnWindows
<1>8. WinInv' /\ worker' \in Worker
  BY <1>1, <1>3, LinuxKeeps DEF IInv, TypeOK
<1>4. CASE out[2] = NoRect
  <2>1. slot' = [inFlight |-> FALSE, pending |-> NoRect]
    BY <1>1, <1>4, <1>7
  <2>2. job' = NoJob /\ watchdog' = FALSE
    BY <1>1, <1>4
  <2> QED BY <1>1, <1>2, <1>3, <1>8, <2>1, <2>2 DEF IInv, TypeOK, SlotMatchesJob, Ends, Slot, Idle
<1>5. CASE out[2] # NoRect
  <2>1. /\ slot' = [inFlight |-> TRUE, pending |-> NoRect]
        /\ out[2] = s.pending /\ s.pending \in Rect
    BY <1>1, <1>5, <1>7
  <2>2. job' = WlrIssued(s.pending) /\ watchdog' = TRUE
    BY <1>1, <1>5, <2>1
  <2> QED BY <1>1, <1>2, <1>3, <1>8, <2>1, <2>2, Issued
          DEF IInv, TypeOK, SlotMatchesJob, Ends, Slot, Idle
<1> QED BY <1>4, <1>5

LEMMA KWinEnds ==
    ASSUME IInv, OnKWin, NEW s \in Slot, KWinIssueNext(s)
    PROVE  IInv' /\ Ends(s)
<1> USE NoRectAssumption
<1>1. /\ slot' = EndRequest(s)
      /\ job' = IF s.pending = NoRect THEN NoJob ELSE KWinIssued(s.pending)
      /\ UNCHANGED <<worker, watchdog, backend>>
      /\ turn' = 1 - turn
  BY DEF KWinIssueNext, KWinIssue
<1>3. /\ OnKWin' /\ ~OnWlr' /\ ~OnWindows' /\ backend' \in ProtocolVersions \cup {KWin, Windows}
      /\ ~OnWlr /\ ~OnWindows
  BY <1>1, Backends DEF OnWlr, OnKWin, OnWindows
<1>2. turn' \in {0, 1} /\ watchdog = FALSE
  BY <1>1, <1>3 DEF IInv, TypeOK, SlotMatchesJob
<1>8. WinInv' /\ worker' \in Worker
  BY <1>1, <1>3, LinuxKeeps DEF IInv, TypeOK
<1>4. CASE s.pending = NoRect
  <2>1. slot' = [inFlight |-> FALSE, pending |-> NoRect] /\ job' = NoJob
    BY <1>1, <1>4 DEF EndRequest
  <2> QED BY <1>1, <1>2, <1>3, <1>8, <2>1 DEF IInv, TypeOK, SlotMatchesJob, Ends, Slot, Idle
<1>5. CASE s.pending # NoRect
  <2>1. /\ slot' = [inFlight |-> TRUE, pending |-> NoRect]
        /\ job' = KWinIssued(s.pending) /\ s.pending \in Rect
    BY <1>1, <1>5 DEF EndRequest, Slot
  <2> QED BY <1>1, <1>2, <1>3, <1>8, <2>1, Issued
          DEF IInv, TypeOK, SlotMatchesJob, Ends, Slot, Idle
<1> QED BY <1>4, <1>5

LEMMA WinEnds ==
    ASSUME IInv, OnWindows, ~Idle, job.answer # "none", NEW s \in Slot,
           WinIssue(EndRequest(s), s.pending), turn' = 1 - turn, UNCHANGED <<watchdog, backend>>
    PROVE  IInv' /\ Ends(s)
<1> USE NoRectAssumption
<1>1. OnWindows' /\ ~OnWlr' /\ ~OnKWin' /\ ~OnWlr
  BY Backends DEF OnWlr, OnKWin, OnWindows
<1>2. s.pending \in Rect \cup {NoRect}
  BY DEF Slot
<1>3. /\ WinInv' /\ slot' = EndRequest(s)
      /\ s.pending = NoRect => job' = NoJob
      /\ s.pending # NoRect => job' \in WinJob /\ job'.rect = s.pending /\ job' # NoJob
  BY <1>1, <1>2, WinIssueKeeps DEF IInv
<1>4. /\ slot' \in Slot /\ slot'.pending = NoRect
      /\ slot'.inFlight = (s.pending # NoRect)
  BY <1>3 DEF EndRequest, Slot
<1>5. worker' \in Worker /\ turn' \in {0, 1} /\ watchdog = FALSE
  BY <1>1, <1>3 DEF WinInv, WorkerOk, IInv, TypeOK, SlotMatchesJob
<1> QED BY <1>1, <1>2, <1>3, <1>4, <1>5 DEF IInv, TypeOK, SlotMatchesJob, Ends, Idle

-----------------------------------------------------------------------------
(* What each kind of step does to the abstract server.                       *)

(* A grab on the wire is being served, and no grab means none.               *)
LEMMA ServingJob ==
    ASSUME IInv
    PROVE  /\ Idle => Serving = NoRect
           /\ ~Idle => Serving = job.rect /\ job.rect \in Rect /\ slot.inFlight
           /\ Idle => slot.pending = NoRect /\ ~slot.inFlight
<1>1. ~Idle => job.rect \in Rect
  BY DEF IInv, TypeOK, Idle, WlrJob, KWinJob, WinJob
<1> QED BY <1>1 DEF IInv, SlotMatchesJob, Serving, TypeOK, Slot

(* A step of the grab on the wire that does not end it is a stutter.         *)
LEMMA JobStep ==
    ASSUME IInv, ~Idle, UNCHANGED <<slot, watchdog, backend, turn>>, WinInv',
           job' \in Jobs, job'.rect = job.rect
    PROVE  IInv' /\ UNCHANGED LW!vars
<1>1. job' # NoJob
  BY NoJobAssumption, NoWinJobAssumption DEF Jobs
<1>2. IInv'
  BY <1>1 DEF IInv, TypeOK, SlotMatchesJob, Idle, OnWlr, OnKWin, OnWindows, Jobs, WinInv, WorkerOk
<1>3. Serving' = Serving
  BY <1>1 DEF Serving, Idle
<1> QED BY <1>2, <1>3 DEF LW!vars

(* The end of a grab answers the request and serves the remembered one, the  *)
(* one its handler made, or, where it is refused, none.                      *)
LEMMA EndStep ==
    ASSUME IInv, IInv', ~Idle, NEW s \in AfterHandler(slot), Ends(s)
    PROVE  LW!Finish
<1> USE NoRectAssumption
<1>1. slot.inFlight /\ Serving = job.rect /\ Serving \in Rect
  BY ServingJob
<1>2. s.pending = slot.pending \/ s.pending \in Rect
  BY <1>1, AfterHandlerSlot DEF IInv, TypeOK
<1>3. slot'.pending = NoRect /\ turn' = 1 - turn
  BY DEF Ends
<1>4. CASE slot'.inFlight = FALSE /\ job' = NoJob
  <2>1. Serving' = NoRect
    BY <1>4 DEF Serving, Idle
  <2> QED BY <1>1, <1>3, <2>1 DEF LW!Finish, LW!AnswerAndRefuse
<1>5. CASE /\ slot'.inFlight = TRUE /\ s.pending \in Rect
           /\ job' # NoJob /\ job'.rect = s.pending
  <2>1. Serving' = s.pending
    BY <1>5 DEF Serving, Idle
  <2> QED BY <1>1, <1>2, <1>3, <1>5, <2>1 DEF LW!Finish, LW!AnswerAndSubmit
<1> QED BY <1>4, <1>5 DEF Ends

(* A grab while one is on the wire is remembered.                            *)
LEMMA RememberStep ==
    ASSUME IInv, NEW r \in Rect, slot.inFlight,
           slot' = BeginRequest(slot, r), UNCHANGED <<job, worker, watchdog, backend, turn>>
    PROVE  IInv' /\ LW!Submit(r)
<1> USE NoRectAssumption
<1>1. slot' \in Slot /\ slot'.inFlight = slot.inFlight /\ slot'.pending = r
  BY DEF IInv, TypeOK, Slot, BeginRequest
<1>2. IInv'
  <2>1. WinInv'
    BY DEF IInv, WinInv, Busy, FramesAreCurrent, Idle, OnWindows
  <2> QED BY <1>1, <2>1 DEF IInv, TypeOK, SlotMatchesJob, Idle, OnWlr, OnKWin, OnWindows
<1>3. Serving' = Serving /\ Serving # NoRect
  BY <1>1, ServingJob DEF Serving, Idle
<1> QED BY <1>1, <1>2, <1>3 DEF LW!Submit

(* A grab on a free source is served at once, or refused.                    *)
LEMMA IssueStep ==
    ASSUME IInv, NEW r \in Rect, ~slot.inFlight, UNCHANGED <<backend, turn>>, WinInv',
           \/ /\ slot' = [inFlight |-> TRUE, pending |-> NoRect]
              /\ job' \in Jobs /\ job'.rect = r
              /\ (OnWlr => watchdog' = TRUE) /\ (~OnWlr => watchdog' = FALSE)
           \/ slot' = EmptySlot /\ job' = NoJob /\ watchdog' = FALSE
    PROVE  IInv' /\ (LW!Submit(r) \/ UNCHANGED LW!vars)
<1> USE NoRectAssumption
<1>1. Serving = NoRect /\ slot.pending = NoRect /\ Idle
  BY ServingJob
<1>2. /\ OnWlr' = OnWlr /\ OnKWin' = OnKWin /\ OnWindows' = OnWindows
      /\ worker' \in Worker
  BY DEF OnWlr, OnKWin, OnWindows, WinInv, WorkerOk
<1>3. CASE /\ slot' = [inFlight |-> TRUE, pending |-> NoRect]
           /\ job' \in Jobs /\ job'.rect = r
           /\ (OnWlr => watchdog' = TRUE) /\ (~OnWlr => watchdog' = FALSE)
  <2>1. slot' \in Slot /\ slot'.inFlight /\ slot'.pending = NoRect
    BY <1>3 DEF Slot
  <2>2. job' # NoJob
    BY <1>3, NoJobAssumption, NoWinJobAssumption DEF Jobs
  <2>3. IInv'
    BY <1>2, <1>3, <2>1, <2>2 DEF IInv, TypeOK, SlotMatchesJob, Idle, Jobs
  <2>4. Serving' = r
    BY <1>3, <2>1, <2>2 DEF Serving, Idle
  <2> QED BY <1>1, <2>1, <2>3, <2>4 DEF LW!Submit
<1>4. CASE slot' = EmptySlot /\ job' = NoJob /\ watchdog' = FALSE
  <2>1. slot' \in Slot /\ ~slot'.inFlight /\ slot'.pending = NoRect
    BY <1>4 DEF Slot, EmptySlot
  <2>2. IInv'
    BY <1>2, <1>4, <2>1 DEF IInv, TypeOK, SlotMatchesJob, Idle
  <2>3. Serving' = NoRect
    BY <1>4 DEF Serving, Idle
  <2> QED BY <1>1, <2>1, <2>2, <2>3 DEF LW!vars
<1> QED BY <1>3, <1>4

-----------------------------------------------------------------------------
(* A step keeps the invariant and is one of the abstract server, or a        *)
(* stutter of it.                                                            *)
Good == IInv' /\ [LW!Next]_LW!vars

(* issueNext() after a handler of the slot.                                  *)
LEMMA WlrEndGood ==
    ASSUME IInv, OnWlr, ~Idle, NEW s \in AfterHandler(slot), WlrIssueNext(s)
    PROVE  Good
<1>1. s \in Slot
  BY ServingJob, AfterHandlerSlot DEF IInv, TypeOK
<1> QED BY <1>1, WlrEnds, EndStep DEF Good, LW!Next

LEMMA KWinEndGood ==
    ASSUME IInv, OnKWin, ~Idle, NEW s \in AfterHandler(slot), KWinIssueNext(s)
    PROVE  Good
<1>1. s \in Slot
  BY ServingJob, AfterHandlerSlot DEF IInv, TypeOK
<1> QED BY <1>1, KWinEnds, EndStep DEF Good, LW!Next

LEMMA WinEndGood ==
    ASSUME IInv, OnWindows, ~Idle, job.answer # "none", NEW s \in AfterHandler(slot),
           WinIssue(EndRequest(s), s.pending), turn' = 1 - turn, UNCHANGED <<watchdog, backend>>
    PROVE  Good
<1>1. s \in Slot
  BY ServingJob, AfterHandlerSlot DEF IInv, TypeOK
<1> QED BY <1>1, WinEnds, EndStep DEF Good, LW!Next

(* abortPending(), from wherever it is called.                               *)
LEMMA AbortGood ==
    ASSUME IInv, OnWlr, ~Idle, AbortPending
    PROVE  Good
<1>1. slot \in AfterHandler(slot)
  BY DEF AfterHandler
<1> QED BY <1>1, WlrEndGood DEF AbortPending

LEMMA SendCopyGood ==
    ASSUME IInv, OnWlr, ~Idle, NEW j \in WlrJob, j.rect = job.rect, SendCopy(j)
    PROVE  Good
<1>1. CASE AbortPending
  BY <1>1, AbortGood
<1>2. CASE job' = [j EXCEPT !.copied = TRUE] /\ UNCHANGED <<worker, slot, watchdog, backend, turn>>
  <2>1. job' \in WlrJob /\ job'.rect = job.rect
    BY <1>2 DEF WlrJob
  <2>2. ~OnKWin /\ ~OnWindows
    BY Backends
  <2>3. WinInv'
    BY <1>2, <2>2, LinuxKeeps DEF IInv
  <2> QED BY <1>2, <2>1, <2>2, <2>3, JobStep DEF Good, Jobs
<1> QED BY <1>1, <1>2 DEF SendCopy

LEMMA GrabGood ==
    ASSUME IInv, NEW r \in Rect, Grab(r)
    PROVE  Good
<1>1. CASE slot.inFlight
  BY <1>1, RememberStep DEF Grab, WlrGrab, KWinGrab, WindowsGrab, WinGrab, Good, LW!Next
<1>2. CASE ~slot.inFlight
  <2>1. BeginRequest(slot, r) = [inFlight |-> TRUE, pending |-> NoRect]
    BY <1>2 DEF BeginRequest
  <2>2. EndRequest([inFlight |-> TRUE, pending |-> NoRect]) = EmptySlot
    BY DEF EndRequest, EmptySlot
  <2>3. r # NoRect
    BY NoRectAssumption
  <2>4. CASE WlrGrab(r)
    <3>1. PICK out \in IssueOutcomes(BeginRequest(slot, r), r) : Wire(out) /\ UNCHANGED turn
      BY <1>2, <2>4 DEF WlrGrab
    <3>2. \/ out[1] = BeginRequest(slot, r) /\ out[2] = r
          \/ out[1] = EmptySlot /\ out[2] = NoRect
      <4>1. \/ out = <<BeginRequest(slot, r), r>>
            \/ out = <<EmptySlot, NoRect>>
        BY <2>1, <2>2, <2>3 DEF IssueOutcomes
      <4> HIDE DEF EmptySlot
      <4> QED BY <4>1
    <3>4. ~OnKWin /\ ~OnWindows /\ OnWlr
      BY <2>4, Backends DEF WlrGrab
    <3>3. /\ UNCHANGED <<worker, backend, turn>>
          /\ \/ slot' = BeginRequest(slot, r) /\ job' = WlrIssued(r) /\ watchdog' = TRUE
             \/ slot' = EmptySlot /\ job' = NoJob /\ watchdog' = FALSE
      BY <2>3, <3>1, <3>2 DEF Wire
    <3>5. WinInv'
      BY <3>3, <3>4, LinuxKeeps DEF IInv
    <3>6. WlrIssued(r) \in Jobs /\ WlrIssued(r).rect = r
      BY <3>4, Issued DEF Jobs
    <3>7. CASE slot' = BeginRequest(slot, r) /\ job' = WlrIssued(r) /\ watchdog' = TRUE
      <4>1. /\ slot' = [inFlight |-> TRUE, pending |-> NoRect]
            /\ job' \in Jobs /\ job'.rect = r
            /\ (OnWlr => watchdog' = TRUE) /\ (~OnWlr => watchdog' = FALSE)
        BY <2>1, <3>4, <3>6, <3>7
      <4>2. IInv' /\ (LW!Submit(r) \/ UNCHANGED LW!vars)
        BY <1>2, <3>3, <3>5, <4>1, IssueStep
      <4> QED BY <4>2 DEF Good, LW!Next
    <3>8. CASE slot' = EmptySlot /\ job' = NoJob /\ watchdog' = FALSE
      BY <1>2, <3>3, <3>4, <3>5, <3>8, IssueStep DEF Good, LW!Next
    <3> QED BY <3>3, <3>7, <3>8
  <2>5. CASE KWinGrab(r)
    <3>1. /\ OnKWin /\ UNCHANGED <<worker, backend, turn, watchdog>>
          /\ slot' = BeginRequest(slot, r) /\ job' = KWinIssued(r)
      BY <1>2, <2>3, <2>5 DEF KWinGrab, KWinIssue
    <3>2. ~OnWlr /\ ~OnWindows /\ watchdog = FALSE
      BY <3>1, Backends DEF IInv, TypeOK, SlotMatchesJob
    <3>3. WinInv'
      BY <3>1, <3>2, LinuxKeeps DEF IInv
    <3>4. ~OnWlr /\ watchdog' = FALSE
      BY <3>1, <3>2
    <3> QED BY <1>2, <2>1, <3>1, <3>2, <3>3, <3>4, Issued, IssueStep DEF Jobs, Good, LW!Next
  <2>6. CASE WindowsGrab(r)
    <3>1. /\ OnWindows /\ UNCHANGED <<backend, turn, watchdog>>
          /\ WinIssue(BeginRequest(slot, r), r)
      BY <1>2, <2>6 DEF WindowsGrab, WinGrab
    <3>2. ~OnWlr /\ ~OnKWin /\ OnWindows' /\ watchdog = FALSE /\ Idle
      BY <1>2, <3>1, Backends DEF IInv, TypeOK, SlotMatchesJob, OnWindows
    <3>3. WinInv' /\ slot' = BeginRequest(slot, r) /\ job' \in WinJob /\ job'.rect = r
      BY <2>3, <3>1, <3>2, WinIssueKeeps DEF IInv
    <3>4. ~OnWlr /\ watchdog' = FALSE
      BY <3>1, <3>2
    <3> QED BY <1>2, <2>1, <3>1, <3>2, <3>3, <3>4, IssueStep DEF Jobs, Good, LW!Next
  <2> QED BY <2>4, <2>5, <2>6 DEF Grab
<1> QED BY <1>1, <1>2

LEMMA BufferGood ==
    ASSUME IInv, NEW usable \in BOOLEAN, OnBuffer(usable)
    PROVE  Good
<1> DEFINE offered == [job EXCEPT !.haveBuffer = job.haveBuffer \/ usable,
                                  !.offering = backend >= 3]
<1>1. OnWlr /\ ~OnKWin /\ ~OnWindows /\ ~Idle /\ job \in WlrJob
  BY Backends DEF OnBuffer, IInv, TypeOK, Idle
<1>2. offered \in WlrJob /\ offered.rect = job.rect
  <2>1. (backend >= 3) \in BOOLEAN /\ (job.haveBuffer \/ usable) \in BOOLEAN
    BY <1>1 DEF WlrJob
  <2> QED BY <1>1, <2>1 DEF WlrJob
<1>3. CASE SendCopy(offered)
  BY <1>1, <1>2, <1>3, SendCopyGood
<1>4. CASE job' = offered /\ UNCHANGED <<worker, slot, watchdog, backend, turn>>
  <2>1. WinInv'
    BY <1>1, <1>4, LinuxKeeps DEF IInv
  <2> QED BY <1>1, <1>2, <1>4, <2>1, JobStep DEF Good, Jobs
<1> QED BY <1>3, <1>4 DEF OnBuffer

LEMMA MaybeFinishGood ==
    ASSUME IInv, OnKWin, ~Idle, NEW j \in KWinJob, j.rect = job.rect, MaybeFinish(j)
    PROVE  Good
<1>1. CASE j.reply /\ j.pixels
  BY <1>1, KWinEndGood DEF MaybeFinish
<1>2. CASE ~(j.reply /\ j.pixels)
  <2>1. job' = j /\ UNCHANGED <<worker, slot, watchdog, backend, turn>>
    BY <1>2 DEF MaybeFinish
  <2>2. WinInv'
    BY <2>1, Backends, LinuxKeeps DEF IInv
  <2> QED BY <2>1, <2>2, JobStep DEF Good, Jobs
<1> QED BY <1>1, <1>2

(* The worker and the delivery of its answers.                               *)
LEMMA WorkerGood ==
    ASSUME IInv, OnWorker \/ WindowsStep
    PROVE  Good
<1>1. /\ OnWindows /\ OnWindows' /\ ~OnWlr /\ ~OnKWin /\ WinInv /\ WorkerOk(worker)
      /\ UNCHANGED <<watchdog, backend, turn>>
  BY Backends DEF OnWorker, WindowsStep, OnWindows, IInv, WinInv
<1>2. ASSUME UNCHANGED <<slot, job>>, WorkerOk(worker'), Busy(worker') => Busy(worker)
      PROVE  Good
  <2>1. WinInv' /\ worker' \in Worker
    BY <1>1, <1>2, WorkerKeeps DEF WorkerOk
  <2>2. IInv'
    BY <1>1, <1>2, <2>1 DEF IInv, TypeOK, SlotMatchesJob, Idle, OnWlr, OnKWin, OnWindows
  <2>3. UNCHANGED LW!vars
    BY <1>1, <1>2 DEF LW!vars, Serving, Idle
  <2> QED BY <2>2, <2>3 DEF Good
<1>3. CASE TakeRelease \/ TakeCapture \/ Release \/ IdleEvent
  <2>1. UNCHANGED <<slot, job>>
    BY <1>3 DEF TakeRelease, TakeCapture, Release, IdleEvent, IdleRelease, RetryDelayPasses, Present
  <2> QED BY <1>1, <1>2, <1>3, <2>1, WorkerMoves
<1>4. ASSUME NEW ok \in BOOLEAN, MakeOutput(ok) PROVE Good
  <2>1. UNCHANGED <<slot, job>>
    BY <1>4 DEF MakeOutput
  <2> QED BY <1>1, <1>2, <1>4, <2>1, OutputMade
<1>5. CASE \/ \E ok \in BOOLEAN : BlitScreen(ok)
           \/ \E outcome \in {"copied", "unfit", "lost"} : CopyOutput(outcome)
  <2>1. Busy(worker) /\ UNCHANGED slot
    BY <1>5 DEF BlitScreen, CopyOutput, Busy
  <2>2. job \in WinJob /\ ~Idle
    BY <1>1, <2>1, NoWinJobAssumption DEF WinInv, Idle
  <2>3. CASE UNCHANGED job
    BY <1>1, <1>2, <1>5, <2>1, <2>2, <2>3, WorkerAnswers
  <2>4. CASE ~Busy(worker') /\ job' \in WinJob /\ job'.rect = job.rect /\ job'.answer \in {"frame", "error"}
    <3>1. WinInv'
      BY <1>1, <1>5, <2>2, <2>4, WorkerAnswers DEF WinInv, FramesAreCurrent
    <3> QED BY <1>1, <2>1, <2>2, <2>4, <3>1, JobStep DEF Good, Jobs
  <2> QED BY <1>1, <1>5, <2>2, <2>3, <2>4, WorkerAnswers
<1> QED BY <1>3, <1>4, <1>5 DEF OnWorker, WindowsStep, WorkerStep

LEMMA DeliveredGood ==
    ASSUME IInv, OnDelivered
    PROVE  Good
<1>1. slot \in AfterHandler(slot)
  BY DEF AfterHandler
<1>2. PICK s \in AfterHandler(slot) : WinIssue(EndRequest(s), s.pending)
  BY <1>1 DEF OnDelivered, Deliver
<1> QED BY <1>2, WinEndGood DEF OnDelivered, Deliver, Idle

(* Every step of every source.                                               *)
LEMMA NextGood == IInv /\ [Next]_vars => Good
<1> SUFFICES ASSUME IInv, [Next]_vars PROVE Good
  OBVIOUS
<1>1. ASSUME NEW r \in Rect, Grab(r) PROVE Good
  BY <1>1, GrabGood
<1>2. ASSUME NEW usable \in BOOLEAN, OnBuffer(usable) PROVE Good
  BY <1>2, BufferGood
<1>3. CASE OnBufferDone
  <2>1. OnWlr /\ ~Idle /\ job \in WlrJob
    BY <1>3, Backends DEF OnBufferDone, IInv, TypeOK, Idle
  <2>2. [job EXCEPT !.offering = FALSE] \in WlrJob /\ [job EXCEPT !.offering = FALSE].rect = job.rect
    BY <2>1 DEF WlrJob
  <2> QED BY <1>3, <2>1, <2>2, SendCopyGood DEF OnBufferDone
<1>4. CASE OnReady
  BY <1>4, WlrEndGood DEF OnReady
<1>5. CASE OnFailed \/ OnRequestTimeout
  BY <1>5, AbortGood DEF OnFailed, OnRequestTimeout
<1>6. CASE OnReply \/ OnPixels
  <2>1. OnKWin /\ ~Idle /\ job \in KWinJob
    BY <1>6 DEF OnReply, OnPixels, IInv, TypeOK, Idle
  <2>2. /\ [job EXCEPT !.reply = TRUE] \in KWinJob /\ [job EXCEPT !.reply = TRUE].rect = job.rect
        /\ [job EXCEPT !.pixels = TRUE] \in KWinJob /\ [job EXCEPT !.pixels = TRUE].rect = job.rect
    BY <2>1 DEF KWinJob
  <2> QED BY <1>6, <2>1, <2>2, MaybeFinishGood DEF OnReply, OnPixels
<1>7. CASE OnGrabFailed
  <2>1. slot \in AfterHandler(slot)
    BY DEF AfterHandler
  <2> QED BY <1>7, <2>1, KWinEndGood DEF OnGrabFailed
<1>8. CASE UNCHANGED vars
  <2>1. IInv'
    <3>1. WinInv'
      BY <1>8 DEF vars, IInv, WinInv, Busy, FramesAreCurrent, Idle, OnWindows
    <3> QED BY <1>8, <3>1 DEF vars, IInv, TypeOK, SlotMatchesJob, Idle, OnWlr, OnKWin, OnWindows
  <2>2. UNCHANGED LW!vars
    BY <1>8 DEF vars, LW!vars, Serving, Idle
  <2> QED BY <2>1, <2>2 DEF Good
<1>9. CASE OnWorker \/ WindowsStep \/ OnDelivered
  BY <1>9, WorkerGood, DeliveredGood
<1> QED BY <1>1, <1>2, <1>3, <1>4, <1>5, <1>6, <1>7, <1>8, <1>9 DEF Next

LEMMA InitGood == Init => IInv /\ LW!Init
<1> SUFFICES ASSUME Init PROVE IInv /\ LW!Init
  OBVIOUS
<1>1. EmptySlot \in Slot /\ ~EmptySlot.inFlight /\ EmptySlot.pending = NoRect
  BY DEF EmptySlot, Slot
<1>2. WinInv
  <2>1. FreeWorker.calls \in Seq(Call) /\ Captures(FreeWorker.calls) = {}
    BY EmptySeq, LenProperties DEF FreeWorker, Captures
  <2>2. NoOutput \in Output /\ NoOutput.made = {} /\ NoOutput.lacks = FALSE
    BY DEF NoOutput, Output
  <2>3. FreeWorker \in Worker
    BY <2>1, <2>2 DEF FreeWorker, Worker, Call
  <2> QED BY <2>1, <2>2, <2>3 DEF Init, WinInv, WorkerOk, Busy, FreeWorker, FramesAreCurrent, Idle
<1>4. IInv
  BY <1>1, <1>2 DEF Init, IInv, TypeOK, SlotMatchesJob, Idle, WinInv, WorkerOk
<1>3. Serving = NoRect
  BY DEF Init, Serving, Idle
<1> QED BY <1>1, <1>3, <1>4 DEF Init, LW!Init

(* The types, and the agreement of the slot with the grab on the wire and    *)
(* its watchdog (wlrframesource.cpp:198-243, framesource.cpp:66-91).         *)
THEOREM SourcesSafety == Safety => [](TypeOK /\ SlotMatchesJob)
<1>1. IInv /\ [Next]_vars => IInv'
  BY NextGood DEF Good
<1>2. IInv => TypeOK /\ SlotMatchesJob
  BY DEF IInv
<1> QED BY InitGood, <1>1, <1>2, PTL DEF Safety

(* The Windows source holds an output only while the timer that lets go of   *)
(* it runs (winframesource.cpp:463-464), whatever fails in between.          *)
THEOREM DuplicationIsTimed == Safety => []HeldIsTimed
<1>1. IInv /\ [Next]_vars => IInv'
  BY NextGood DEF Good
<1>2. IInv => HeldIsTimed
  BY DEF IInv, WinInv, WorkerOk, HeldIsTimed
<1> QED BY InitGood, <1>1, <1>2, PTL DEF Safety

(* The Windows source answers with frames that lack nothing presented before *)
(* their grab (winframesource.cpp:200-210, :433-434).                        *)
THEOREM WindowsSafety == Safety => []FramesAreCurrent
<1>1. IInv /\ [Next]_vars => IInv'
  BY NextGood DEF Good
<1>2. IInv => FramesAreCurrent
  BY DEF IInv, WinInv, WorkerOk, FramesAreCurrent
<1> QED BY InitGood, <1>1, <1>2, PTL DEF Safety

(* All sources are latest-wins servers (framesource.h:48-51): their initial *)
(* states and steps are those of LatestWins.                                 *)
THEOREM SourcesAreLatestWins == Safety => LW!Safety
<1>1. IInv /\ [Next]_vars => IInv' /\ [LW!Next]_LW!vars
  BY NextGood DEF Good
<1> QED BY InitGood, <1>1, PTL DEF Safety, LW!Safety

-----------------------------------------------------------------------------
(* The throttle and the source it drives.                                    *)

(* A grab is a step of the source, whoever asks for it.                      *)
LEMMA GrabIsStep == ASSUME NEW r \in Rect, Grab(r) PROVE Next
BY DEF Next

(* Together the throttle is the throttle and the sources are the sources.    *)
LEMMA GrabsAreBoth == GrabsSpec => ThrottleSpec /\ Safety
<1>1. GrabsInit => ThrottleInit /\ Init
  BY DEF GrabsInit
<1>2. [GrabsNext]_grabVars => [ThrottleNext]_throttleVars /\ [Next]_vars
  BY GrabIsStep DEF GrabsNext, Triggered, Quiet, SourceStep, grabVars
<1> QED BY <1>1, <1>2, PTL DEF GrabsSpec, ThrottleSpec, Safety

(* Whatever the source does with the grabs and whoever else asks for them,   *)
(* requests are carried to the end of the window (throttle.h:6, 20-22) and   *)
(* fires are an interval apart (throttle.h:20).                              *)
THEOREM PointerIsThrottled ==
    GrabsSpec => [](TrailingFireEndsWindow /\ RequestIsCarried) /\ AtMostOncePerInterval
BY GrabsAreBoth, ThrottleSafety, ThrottleRate, PTL

(* However the throttle and the other evaluations call it, even from within  *)
(* the answer to a grab, a slot is in flight while its grab is on the wire   *)
(* (framesource.cpp:66), a duplication is held while its timer runs, frames  *)
(* are current, and the newest request is served.                            *)
THEOREM GrabsAreServed ==
    GrabsSpec => [](SlotMatchesJob /\ HeldIsTimed /\ FramesAreCurrent) /\ LW!Safety
BY GrabsAreBoth, SourcesSafety, DuplicationIsTimed, WindowsSafety, SourcesAreLatestWins, PTL
=============================================================================
