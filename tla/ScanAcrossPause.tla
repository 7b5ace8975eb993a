-------------------------- MODULE ScanAcrossPause ---------------------------
(* ScanController with a record of whether the pixels the source holds were  *)
(* taken before the greeter last came up.                                    *)
EXTENDS ScanController

VARIABLE before   \* the grab being served has pixels from before it came up

InitPause == Init /\ before = FALSE

NextPause ==
    /\ Next
    /\ before' = (source'.shot # NoKey /\ (before \/ (scanning /\ ~IsActive)))

SpecPause == InitPause /\ [][NextPause]_<<vars, before>>

(* "A session that comes back from the greeter re-grabs rather than          *)
(* answering from what was on screen before it locked"                       *)
(* (scancontroller.cpp:794-796): a frame from before is not handed on.       *)
ComesBackToNewPixels ==
    [][before => mailbox' \in {mailbox, NoKey, OldKey}]_<<vars, before>>
=============================================================================
