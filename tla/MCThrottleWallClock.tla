------------------------- MODULE MCThrottleWallClock -------------------------
(* The throttle of MCThrottle on a wall clock that is once or more set back. *)
EXTENDS ThrottleWallClock

MCSettings == {2, 5}
MCMaxLate == 1
MCWallSteps == {-3}
=============================================================================
