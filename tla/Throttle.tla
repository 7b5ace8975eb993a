------------------------------ MODULE Throttle ------------------------------
(* scan::Throttle (src/src/scan/throttle.h, throttle.cpp): the trailing-edge *)
(* throttle that turns pointer motion into scans.  One tick of the model is  *)
(* one millisecond.  Absolute times are replaced by distances from the last  *)
(* fire, which is all the code ever compares, and distances saturate above   *)
(* every interval, where the code no longer tells them apart.                *)
EXTENDS Integers

CONSTANTS
    Settings,   \* the values setIntervalMs() is called with
    MaxLate     \* how late the event loop may deliver a timeout, in ticks

ASSUME SettingsAssumption == Settings \subseteq Nat
ASSUME LongestAssumption == \E n \in Settings : \A m \in Settings : m <= n
ASSUME MaxLateAssumption == MaxLate \in Nat

VARIABLES
    intervalMs,  \* m_intervalMs
    sinceFire,   \* m_clock() - m_lastFireMs
    hasFired,    \* m_hasFired
    timer,       \* m_timer: NoTimer, or the ticks left (negative: overdue)
    \* History, read by the properties and by no action's guard:
    gap,         \* true time since the last fire
    shortest,    \* smallest interval in force since the last fire
    waiting,     \* age of the oldest request neither answered nor cancelled
    parity       \* the number of fires modulo 2, so that a step shows one

clockVars == <<sinceFire, gap>>
history == <<gap, shortest, waiting, parity>>
throttleVars == <<intervalMs, sinceFire, hasFired, timer, history>>

NoTimer == -MaxLate - 1
NoRequest == -1

Smaller(a, b) == IF a < b THEN a ELSE b
Larger(a, b) == IF a < b THEN b ELSE a

Intervals == {Larger(n, 1) : n \in Settings}

(* Bounds.  Horizon is above every interval plus the latest delivery, so a   *)
(* saturated distance compares with every interval as the true one does.     *)
Longest == CHOOSE n \in Intervals : \A m \in Intervals : m <= n
Horizon == Longest + MaxLate + 1

ClampedIntervalMs(n) == Larger(n, 1)

ThrottleTypeOK ==
    /\ intervalMs \in Intervals
    /\ sinceFire \in Int
    /\ hasFired \in BOOLEAN
    /\ timer \in NoTimer .. Longest
    /\ gap \in 0 .. Horizon
    /\ shortest \in Intervals
    /\ waiting \in NoRequest .. Horizon
    /\ parity \in {0, 1}

(* The constructor: nothing has fired, so the first request fires at once.   *)
ThrottleInit ==
    /\ intervalMs \in Intervals
    /\ sinceFire = Horizon
    /\ hasFired = FALSE
    /\ timer = NoTimer
    /\ gap = Horizon
    /\ shortest = intervalMs
    /\ waiting = NoRequest
    /\ parity = 0

-----------------------------------------------------------------------------
(* fire(): stop the timer, remember when, emit triggered().                  *)
Fire ==
    /\ timer' = NoTimer
    /\ sinceFire' = 0
    /\ hasFired' = TRUE
    /\ gap' = 0
    /\ shortest' = intervalMs
    /\ waiting' = NoRequest
    /\ parity' = 1 - parity
    /\ UNCHANGED intervalMs

(* Mutant of MayFire: the comparison is off by one.                          *)
MayFireEarly == ~hasFired \/ sinceFire + 1 >= intervalMs

MayFire == ~hasFired \/ sinceFire >= intervalMs

(* Mutant of Schedule: the window starts at the request, not at the fire.    *)
ScheduleFromNow ==
    /\ timer' = intervalMs
    /\ waiting' = 0
    /\ UNCHANGED <<intervalMs, sinceFire, hasFired, gap, shortest, parity>>

(* The rest of request(): a trailing fire at the end of the current window.  *)
Schedule ==
    /\ timer' = intervalMs - sinceFire
    /\ waiting' = 0
    /\ UNCHANGED <<intervalMs, sinceFire, hasFired, gap, shortest, parity>>

(* Mutant: a debounce, every request pushing the scheduled fire back.        *)
RequestDebounced ==
    IF MayFire THEN timer = NoTimer /\ Fire
    ELSE /\ timer' = intervalMs
         /\ waiting' = IF waiting = NoRequest THEN 0 ELSE waiting
         /\ UNCHANGED <<intervalMs, sinceFire, hasFired, gap, shortest, parity>>

(* request() with a trailing fire scheduled returns at once: that fire will  *)
(* carry this request too.                                                   *)
Coalesce ==
    /\ timer # NoTimer
    /\ UNCHANGED throttleVars

Request ==
    \/ Coalesce
    \/ timer = NoTimer /\ MayFire /\ Fire
    \/ timer = NoTimer /\ ~MayFire /\ Schedule

(* cancel(): drop the scheduled trailing fire; the window stays open.        *)
Cancel ==
    /\ timer # NoTimer
    /\ timer' = NoTimer
    /\ waiting' = NoRequest
    /\ UNCHANGED <<intervalMs, sinceFire, hasFired, gap, shortest, parity>>

(* setIntervalMs(): a fire already scheduled keeps the moment it was given.  *)
SetIntervalMs(n) ==
    /\ intervalMs' = ClampedIntervalMs(n)
    /\ shortest' = Smaller(shortest, intervalMs')
    /\ UNCHANGED <<sinceFire, hasFired, timer, gap, waiting, parity>>

(* QTimer::timeout, delivered when due or up to MaxLate ticks later.         *)
Timeout ==
    /\ timer # NoTimer
    /\ timer <= 0
    /\ Fire

(* A millisecond passes, on the clock and in truth.                          *)
Tick ==
    /\ timer = NoTimer \/ timer > -MaxLate
    /\ sinceFire' = Smaller(sinceFire + 1, Horizon)
    /\ gap' = Smaller(gap + 1, Horizon)
    /\ timer' = IF timer = NoTimer THEN NoTimer ELSE timer - 1
    /\ waiting' = IF waiting = NoRequest THEN NoRequest ELSE waiting + 1
    /\ UNCHANGED <<intervalMs, hasFired, shortest, parity>>

ThrottleNext ==
    \/ Request
    \/ Cancel
    \/ \E n \in Settings : SetIntervalMs(n)
    \/ Timeout
    \/ Tick

ThrottleSpec == ThrottleInit /\ [][ThrottleNext]_throttleVars

-----------------------------------------------------------------------------
(* At most one fire per interval (throttle.h:20): two fires are never closer *)
(* than the smallest interval that was in force between them, whatever       *)
(* requests, cancellations and setting changes happened meanwhile, and never *)
(* within the same millisecond (throttle.h:34).                              *)
AtMostOncePerInterval ==
    [][parity' # parity => gap >= shortest /\ gap >= 1]_throttleVars

(* A scheduled trailing fire stands at the end of a window that began at the *)
(* last fire, for an interval that was in force (throttle.h:21): it is       *)
(* neither postponed by later requests nor moved by a changed setting.       *)
TrailingFireEndsWindow ==
    timer # NoTimer => gap + timer \in Intervals

(* The trailing edge (throttle.h:6): a request is never forgotten.  While it *)
(* is unanswered and not cancelled a fire is scheduled for it, within the    *)
(* longest interval of the moment it was made.                               *)
RequestIsCarried ==
    waiting # NoRequest => timer # NoTimer /\ waiting + timer <= Longest
=============================================================================
