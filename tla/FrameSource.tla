---------------------------- MODULE FrameSource ----------------------------
(* capture::FrameSource (src/src/capture/framesource.cpp): the bookkeeping   *)
(* shared by every pixel source.  beginRequest() and endRequest() are        *)
(* functions of the slot, because the sources call them in the middle of     *)
(* their handlers, around the emission of frameReady().                      *)
CONSTANTS
    Rect,     \* the regions a caller may ask for
    NoRect,   \* an empty std::optional<QRect>
    NoJob     \* nothing issued

ASSUME NoRectAssumption == NoRect \notin Rect

VARIABLES
    slot,     \* m_inFlight and m_pending of FrameSource
    job       \* the one issued grab, as the backend at hand tracks it

Slot == [inFlight : BOOLEAN, pending : Rect \cup {NoRect}]

EmptySlot == [inFlight |-> FALSE, pending |-> NoRect]

(* Mutant: a request that arrives while one is remembered is dropped.        *)
OldestWins(s, r) ==
    IF s.inFlight
    THEN [s EXCEPT !.pending = IF s.pending = NoRect THEN r ELSE s.pending]
    ELSE [inFlight |-> TRUE, pending |-> NoRect]

(* The slot after beginRequest(r): latest wins.                              *)
BeginRequest(s, r) ==
    IF s.inFlight
    THEN [s EXCEPT !.pending = r]
    ELSE [inFlight |-> TRUE, pending |-> NoRect]

(* Mutant: the remembered rect is forgotten when the grab ends.              *)
EndForgetting(s) == EmptySlot

(* The slot after endRequest(), which answers s.pending for the caller to    *)
(* issue: in flight again exactly when there was a remembered rect.          *)
EndRequest(s) ==
    [inFlight |-> s.pending # NoRect, pending |-> NoRect]

(* The slot as endRequest() finds it, after the frameReady() handler ran:    *)
(* the handler either made a request of its own or it did not.               *)
AfterHandler(s) ==
    {s} \cup {BeginRequest(s, r) : r \in Rect}
=============================================================================
