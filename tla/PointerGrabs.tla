---------------------------- MODULE PointerGrabs ----------------------------
(* The throttle of the pointer and the pixel source it drives, as            *)
(* ScanController wires them: a fire of the throttle evaluates the point,    *)
(* which asks the source for a grab unless the cache has the answer or       *)
(* scanning stands still, and other evaluations (the poller, the answer to   *)
(* an earlier grab, a change of the settings) ask for grabs of their own.    *)
EXTENDS Throttle, CaptureSources

grabVars == <<vars, throttleVars>>

(* triggered(): whichever call of the throttle fires it.                     *)
Triggered ==
    /\ ThrottleNext
    /\ parity' # parity
    /\ (\E r \in Rect : Grab(r)) \/ UNCHANGED vars

(* Every other call of the throttle, and time.                               *)
Quiet ==
    /\ ThrottleNext
    /\ parity' = parity
    /\ UNCHANGED vars

SourceStep == Next /\ UNCHANGED throttleVars

GrabsInit == ThrottleInit /\ Init
GrabsNext == Triggered \/ Quiet \/ SourceStep

GrabsSpec == GrabsInit /\ [][GrabsNext]_grabVars /\ Fairness
=============================================================================
