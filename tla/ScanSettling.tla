---------------------------- MODULE ScanSettling ----------------------------
(* ScanController with a pointer that comes to rest: after one last sample   *)
(* nothing but the loop itself takes steps, grabs and recognitions work and  *)
(* the dictionaries stay as they are.                                        *)
EXTENDS ScanController

CONSTANT MaxDisturbances   \* bound: steps of the environment before the last

ASSUME MaxDisturbancesAssumption == MaxDisturbances \in Nat

VARIABLES
    disturbances,   \* how many there have been
    resting         \* the last sample has been taken

environment == <<disturbances, resting>>
settlingVars == <<vars, environment>>

InitSettling ==
    /\ Init
    /\ disturbances = 0
    /\ resting = FALSE

Disturb ==
    /\ ~resting /\ disturbances < MaxDisturbances
    /\ Environment
    /\ disturbances' = disturbances + 1
    /\ UNCHANGED resting

Rest(p) ==
    /\ ~resting
    /\ OnPositionChanged(p)
    /\ resting' = TRUE
    /\ UNCHANGED disturbances

(* Assumption: a scan takes less than two poll intervals (two seconds each   *)
(* by default), so that no tick overtakes a scan an earlier one deferred to. *)
(* Without it the poll may overtake every scan (scancontroller.cpp:279-284). *)
TimelyPollTick == ~(scan.inFlight /\ scan.pollDeferred) /\ OnPollTick

NextSettling ==
    \/ Disturb
    \/ \E p \in Point : Rest(p)
    \/ Pipeline /\ UNCHANGED environment
    \/ TimelyPollTick /\ UNCHANGED environment

(* The event loop delivers timers and queued calls, the source ends every    *)
(* grab (CaptureSources), the worker drains its mailbox (OcrService), the    *)
(* lookups return and the card is drawn.                                     *)
Fairness ==
    /\ WF_settlingVars(resting /\ OnThrottleFired /\ UNCHANGED environment)
    /\ WF_settlingVars(resting /\ TimelyPollTick /\ UNCHANGED environment)
    /\ WF_settlingVars(resting /\ Capture /\ UNCHANGED environment)
    /\ WF_settlingVars(resting /\ OnFrameReady /\ UNCHANGED environment)
    /\ WF_settlingVars(resting /\ Drain /\ UNCHANGED environment)
    /\ WF_settlingVars(resting /\ OnRecognized(TRUE) /\ UNCHANGED environment)
    /\ WF_settlingVars(resting /\ UNCHANGED environment /\ \E l \in answer.lookups :
            DeliverLookup(l, l.hit.char \in Known))
    /\ WF_settlingVars(resting /\ DrawCard /\ UNCHANGED environment)

SpecSettling == InitSettling /\ [][NextSettling]_settlingVars /\ Fairness

-----------------------------------------------------------------------------
(* The card names the character under the pointer, as read from a region     *)
(* around it, on the page on screen where a poll keeps that up to date.      *)
Names(hit) ==
    /\ cursor \in Covers[hit.key.rect]
    /\ hit.char = CharAt(hit.key, cursor)
    /\ settings.poll => hit.key.page = page

(* The result in hand covers the pointer and holds nothing to show there.    *)
ShowsNothing(k) ==
    /\ k # NoKey /\ cursor \in Covers[k.rect]
    /\ settings.poll => k.page = page
    /\ CharAt(k, cursor) \notin Known \ Foreign

(* Wherever the pointer comes to rest, the loop ends up with the card for    *)
(* the text under it, or none where there is none: no order of overtaken     *)
(* grabs, declined growths, deferred ticks and throttled samples leaves it   *)
(* waiting for a scan nobody starts.                                         *)
RestIsAnswered ==
    <>[](resting /\ IsActive /\ WillRescan /\ ~Occluded =>
            IF answer.shown # NoCard THEN Names(answer.shown.hit) ELSE ShowsNothing(current))

(* The card of a pointer at rest stops changing: it does not flicker over    *)
(* text that it covers itself (scancontroller.cpp:384-392).                  *)
CardSettles ==
    (<>resting) => <>[][UNCHANGED answer.shown]_settlingVars

(* The region of a pointer at rest stops changing: growth and descent do not *)
(* alternate between two rungs (scancontroller.h:223-227).                   *)
RungSettles ==
    (<>resting) => <>[][UNCHANGED current]_settlingVars
=============================================================================
