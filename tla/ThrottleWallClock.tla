-------------------------- MODULE ThrottleWallClock --------------------------
(* The throttle as the application builds it.  The constructor of            *)
(* throttle.cpp gives m_clock the system's wall clock, which is set by hand  *)
(* and by NTP, so that m_clock() - m_lastFireMs can change without time      *)
(* passing.  The timer itself counts true time.                              *)
EXTENDS Throttle

CONSTANT WallSteps   \* the adjustments of the wall clock, in ticks

(* Bound: the clock is set back at most this far behind the last fire.       *)
MaxBehind == 2 * Horizon

WallStep(d) ==
    /\ sinceFire + d >= -MaxBehind
    /\ sinceFire' = Smaller(sinceFire + d, Horizon)
    /\ UNCHANGED <<intervalMs, hasFired, timer, history>>

NextWall == ThrottleNext \/ \E d \in WallSteps : WallStep(d)

SpecWall == ThrottleInit /\ [][NextWall]_throttleVars
=============================================================================
