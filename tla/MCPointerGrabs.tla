--------------------------- MODULE MCPointerGrabs ---------------------------
(* Three regions: one in flight, one remembered and one that replaces it.    *)
(* The throttle runs on intervals small enough to enumerate: 0 is clamped to *)
(* 1, and going from one to the other lets a window shrink and grow while a  *)
(* fire is scheduled in it.                                                  *)
EXTENDS PointerGrabs

CONSTANTS r1, r2, r3

MCSettings == {0, 3}
MCMaxLate == 1
MCRect == {r1, r2, r3}
MCProtocolVersions == {1, 3}
=============================================================================
