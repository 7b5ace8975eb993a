---------------------------- MODULE Application ----------------------------
(* Application (src/src/app/application.cpp): the signals of the scan loop   *)
(* wired to the card, to the lookup window and to the retained response, and *)
(* a change of the dictionaries to the lookup engine and to all of them.     *)
(*                                                                           *)
(* ScanController is reduced to the part these see: which character is under *)
(* the pointer, the record of the last hit and the three signals.  Its grabs *)
(* and recognitions are the action ScanReturns, at any time after the        *)
(* pointer moved; ScanController.tla models them.  The loop is triggered by  *)
(* pointer motion.                                                           *)
EXTENDS PopupWindow, LookupEngine

CONSTANTS
    Point, ScreenOf,    \* pointer positions and the screen each is on
    Position,           \* [Point -> [x, y]]
    CharAt, NoChar,     \* [Point -> Request \cup {NoChar}]: the text there
    Paragraph,          \* [Request -> QRect]: paragraphRectLogical
    Setups,             \* the sessions and settings to consider
    MaxCommands         \* bound: what the user does besides pointing

ASSUME ApplicationAssumption ==
    /\ ScreenOf \in [Point -> Screen]
    /\ NoChar \notin Request
    /\ Content = [char : Request, store : Store]
    /\ Position \in [Point -> [x : Int, y : Int]]
    /\ CharAt \in [Point -> Request \cup {NoChar}]
    /\ Paragraph \in [Request -> QRect]
    /\ Setups \subseteq [mode : Modes, layout : Layout, fades : BOOLEAN, hides : BOOLEAN,
                         raises : BOOLEAN, layerShell : BOOLEAN, avoidsText : BOOLEAN]
    /\ MaxCommands \in Nat

VARIABLES
    setup,      \* session and settings: mode, layout, fades, layerShell and
                \* avoidsText of PopupWindow; hides and raises of the lookup window
    cursor,     \* m_cursor
    loop,       \* see Loop
    card,       \* m_popup
    retained,   \* m_lastResponse with m_lastHit
    window,     \* m_lookupWindow, see Window
    commands,   \* how much the user has done, for the bound
    missed      \* history: see Missed

app == <<setup, cursor, loop, card, retained, window, commands, missed>>
vars == <<engine, app>>

(* The members of ScanController the signals depend on: scanning, whether    *)
(* the region in hand was scanned since, the last hit, the character asked   *)
(* for last, m_hitActive and m_nothingReported.  shown is the character      *)
(* lookupReady() named last, until nothingUnderCursor().                     *)
Loop == [scanning : BOOLEAN, scanned : BOOLEAN, last : Request \cup {NoChar},
         asked : Request \cup {NoChar}, hitActive : BOOLEAN, nothingReported : BOOLEAN,
         shown : Request \cup {NoChar}]

(* isVisible(), m_pointerInside and m_response.                              *)
Window == [open : BOOLEAN, inside : BOOLEAN, response : Content \cup {NoContent}]

Init ==
    /\ EngineInit
    /\ setup \in Setups
    /\ cursor \in Point
    /\ loop = [scanning |-> TRUE, scanned |-> FALSE, last |-> NoChar, asked |-> NoChar,
               hitActive |-> FALSE, nothingReported |-> FALSE, shown |-> NoChar]
    /\ card = NewCard(ScreenOf[cursor], setup)
    /\ retained = NoContent
    /\ window = [open |-> FALSE, inside |-> FALSE, response |-> NoContent]
    /\ commands = 0
    /\ missed = FALSE

-----------------------------------------------------------------------------
(* isCurrentStore() of the published dictionaries, and holdsReplacedStore(). *)
IsCurrent(s) == s = StoreOf[published]
HoldsReplaced(r) == r # NoContent /\ ~IsCurrent(r.store)

(* Mutant: the pointer leaving the text takes a pinned card away.            *)
NothingAlways(c) == Hidden(c, setup)

(* The nothingUnderCursor() slot.                                            *)
OnNothing(c) == IF c.pinned THEN c ELSE Hidden(c, setup)

(* The hitMoved() slot.                                                      *)
OnMoved(c, p) == ShownNear(c, Position[p], ScreenOf[p], setup)

(* The popup's half of the lookupReady() slot: model, paragraph, position.   *)
OnReady(c, r) ==
    LET told == WithModel(c, r, setup)
    IN  IF c.suppressed THEN c
        ELSE OnMoved([told EXCEPT !.avoid = Paragraph[r.char]], cursor)

(* LookupWindow::setLookup(), dropped while the pointer is inside.           *)
SetLookup(w, r) == IF w.inside THEN w ELSE [w EXCEPT !.response = r]

(* History: whether the card was kept from following the reports since it    *)
(* last took one, because it is pinned or suppressed, because it was pinned  *)
(* on its way out, or because the response held a replaced store.            *)
MissedReady(r) == Frozen(card) \/ card.suppressed \/ HoldsReplaced(r)
MissedNothing == card.pinned

-----------------------------------------------------------------------------
(* ScanController.                                                           *)

(* evaluate() for the character c, in the same region as the last hit or in  *)
(* another: the loop and the lookups after it, and whether it emits          *)
(* nothingUnderCursor().                                                     *)
EmitsNothing(l) == l.hitActive \/ ~l.nothingReported
NoHitReported(l) ==
    IF EmitsNothing(l)
    THEN [l EXCEPT !.last = NoChar, !.hitActive = FALSE, !.nothingReported = TRUE,
                   !.shown = NoChar]
    ELSE [l EXCEPT !.last = NoChar]

Evaluated(l, c) ==
    IF c = NoChar THEN NoHitReported(l) ELSE [l EXCEPT !.last = c, !.asked = c]
LookupsAfter(l, c, same) ==
    IF c = NoChar THEN Overtaken(pool)
    ELSE IF c = l.last /\ same THEN pool
    ELSE Dispatched(pool, c)
CardAfter(l, c) == IF c = NoChar /\ EmitsNothing(l) THEN OnNothing(card) ELSE card
MissedAfter(l, c) == IF c = NoChar /\ EmitsNothing(l) THEN MissedNothing ELSE missed

(* Bound: MaxLookups lookups at once, and one at a time after a command.      *)
Room == Len(pool) < (IF commands = 0 THEN MaxLookups ELSE 1)

(* onPositionChanged(): the result in hand may cover the new position, and   *)
(* an active hit follows the pointer there.                                  *)
OnPositionChanged(p, covered) ==
    LET after == IF covered THEN Evaluated(loop, CharAt[p]) ELSE loop
        told == IF covered THEN CardAfter(loop, CharAt[p]) ELSE card
    IN  /\ loop.scanning /\ p # cursor /\ Room
        /\ covered => loop.scanned
        /\ cursor' = p
        /\ loop' = after
        /\ pool' = IF covered THEN LookupsAfter(loop, CharAt[p], TRUE) ELSE pool
        /\ card' = IF after.hitActive THEN OnMoved(told, p) ELSE told
        /\ missed' = IF covered THEN MissedAfter(loop, CharAt[p]) ELSE missed
        /\ UNCHANGED <<published, cache, setup, retained, window, commands>>

(* A scan around the pointer returns, and its result is evaluated.           *)
ScanReturns(same) ==
    /\ loop.scanning /\ Room
    /\ loop' = [Evaluated(loop, CharAt[cursor]) EXCEPT !.scanned = TRUE]
    /\ pool' = LookupsAfter(loop, CharAt[cursor], same)
    /\ card' = CardAfter(loop, CharAt[cursor])
    /\ missed' = MissedAfter(loop, CharAt[cursor])
    /\ UNCHANGED <<published, cache, setup, cursor, retained, window, commands>>

(* Mutant of the lookupReady() slot: released stores are taken as well.      *)
TakesAny(r) == TRUE

(* Whether the lookupReady() slot takes the response.                        *)
Takes(r) == ~HoldsReplaced(r)

(* deliverLookup() and the lookupReady() slot.                               *)
DeliverLookup(i) ==
    LET done == pool[i]
        r == [char |-> done.request, store |-> done.results]
        ready == done.listened /\ done.results # NoStore
    IN  /\ done.phase = "answered"
        /\ pool' = IF done.listened /\ ~ready THEN Overtaken(Without(pool, i)) ELSE Without(pool, i)
        /\ loop' = IF ~done.listened THEN loop
                   ELSE IF ~ready THEN NoHitReported(loop)
                   ELSE [loop EXCEPT !.hitActive = TRUE, !.nothingReported = FALSE,
                                     !.shown = done.request]
        /\ card' = IF ready /\ Takes(r) THEN OnReady(card, r)
                   ELSE IF done.listened /\ ~ready THEN CardAfter(loop, NoChar)
                   ELSE card
        /\ retained' = IF ready /\ Takes(r) THEN r ELSE retained
        /\ window' = IF ready /\ Takes(r) /\ window.open THEN SetLookup(window, r) ELSE window
        /\ missed' = IF ready THEN MissedReady(r)
                     ELSE IF done.listened THEN MissedAfter(loop, NoChar)
                     ELSE missed
        /\ UNCHANGED <<published, cache, setup, cursor, commands>>

(* lookUpAgainIfRaised() where the count is raised.                          *)
LookUpAgain(raised) ==
    IF ~raised THEN UNCHANGED <<loop, pool>>
    ELSE IF loop.hitActive /\ loop.scanning
    THEN pool' = Dispatched(pool, loop.asked) /\ UNCHANGED loop
    ELSE loop' = [loop EXCEPT !.last = NoChar] /\ UNCHANGED pool

-----------------------------------------------------------------------------
Command == commands < MaxCommands /\ commands' = commands + 1

(* applyLookupWindowState(): the popup's half of it.                         *)
SuppressedFor(c, open, s) == Suppressed(c, open /\ s.hides, s)

(* showLookupWindow(): also raises a window that is open.                    *)
ShowLookupWindow ==
    /\ Command /\ Room
    /\ window' = [(IF retained # NoContent THEN SetLookup(window, retained) ELSE window)
                    EXCEPT !.open = TRUE]
    /\ LookUpAgain(~window.open /\ setup.raises)
    /\ card' = IF window.open THEN card ELSE SuppressedFor(card, TRUE, setup)
    /\ missed' = (missed \/ (~window.open /\ setup.hides))
    /\ UNCHANGED <<published, cache, setup, cursor, retained>>

(* Mutant: the window that is hidden stays frozen.                           *)
ClosedFrozen(w) == [w EXCEPT !.open = FALSE]

(* LookupWindow::hideEvent().                                                *)
Closed(w) == [w EXCEPT !.open = FALSE, !.inside = FALSE]

CloseLookupWindow ==
    /\ window.open
    /\ window' = Closed(window)
    /\ card' = SuppressedFor(card, FALSE, setup)
    /\ UNCHANGED <<engine, setup, cursor, loop, retained, commands, missed>>

(* enterEvent() and leaveEvent() of the lookup window.                       *)
PointerCrossesWindow ==
    /\ window.open
    /\ window' = [window EXCEPT !.inside = ~window.inside]
    /\ UNCHANGED <<engine, setup, cursor, loop, card, retained, commands, missed>>

(* togglePinned(), and Escape on a pinned card.                              *)
TogglePinned ==
    /\ Command
    /\ card' = Pinned(card, ~card.pinned, setup)
    /\ missed' = (missed \/ card.hiding)
    /\ UNCHANGED <<engine, setup, cursor, loop, retained, window>>

(* The end of the fade that hides the card.                                  *)
FadeEnds ==
    /\ card.hiding
    /\ card' = FadedOut(card)
    /\ UNCHANGED <<engine, setup, cursor, loop, retained, window, commands, missed>>

(* setScanning(): switched off, the loop withdraws what it reported and the  *)
(* scanningChanged() slot hides the card, pinned or not.                     *)
SetScanning ==
    LET off == loop.scanning IN
    /\ Command
    /\ loop' = IF ~off THEN [loop EXCEPT !.scanning = TRUE]
               ELSE [loop EXCEPT !.scanning = FALSE, !.scanned = FALSE, !.last = NoChar,
                                 !.nothingReported = loop.nothingReported \/ loop.hitActive,
                                 !.hitActive = FALSE, !.shown = NoChar]
    /\ pool' = IF off THEN Overtaken(pool) ELSE pool
    /\ card' = IF off THEN Hidden(card, setup) ELSE card
    /\ missed' = IF off THEN FALSE ELSE missed
    /\ UNCHANGED <<published, cache, setup, cursor, retained, window>>

(* applySettings(); the session stays the one it is.                         *)
ApplySettings(s) ==
    /\ s.layerShell = setup.layerShell /\ s.avoidsText = setup.avoidsText
    /\ s # setup
    /\ Command /\ Room
    /\ setup' = s
    /\ LookUpAgain(window.open /\ s.raises /\ ~setup.raises)
    /\ card' = SuppressedFor(Themed(card, s), window.open, s)
    /\ missed' = (missed \/ (window.open /\ s.hides))
    /\ InvalidateCache
    /\ UNCHANGED <<cursor, retained, window>>

(* Mutant: the lookup window keeps what it shows.                            *)
WindowKept(w, s) == w

(* What holds a store that the set s replaces lets go of it.                 *)
RetainedAfter(r, s) == IF r # NoContent /\ r.store # StoreOf[s] THEN NoContent ELSE r
WindowAfter(w, s) == [w EXCEPT !.response = RetainedAfter(w.response, s)]

(* DictionaryManager::changed: the engine is given the new set, replaced     *)
(* stores are let go, and forceRescan() looks the text up again.             *)
DictionariesChanged ==
    /\ published + 1 \in Set
    /\ SetDictionaries(published + 1)
    /\ retained' = RetainedAfter(retained, published + 1)
    /\ window' = WindowAfter(window, published + 1)
    /\ loop' = [loop EXCEPT !.last = NoChar, !.scanned = FALSE]
    /\ UNCHANGED <<pool, setup, cursor, card, commands, missed>>

Next ==
    \/ LookupStep /\ UNCHANGED app
    \/ \E p \in Point, covered \in BOOLEAN : OnPositionChanged(p, covered)
    \/ \E same \in BOOLEAN : ScanReturns(same)
    \/ \E i \in DOMAIN pool : DeliverLookup(i)
    \/ ShowLookupWindow
    \/ CloseLookupWindow
    \/ PointerCrossesWindow
    \/ TogglePinned
    \/ FadeEnds
    \/ SetScanning
    \/ \E s \in Setups : ApplySettings(s)
    \/ DictionariesChanged

Spec == Init /\ [][Next]_vars

-----------------------------------------------------------------------------
TypeOK ==
    /\ EngineTypeOK
    /\ setup \in Setups
    /\ cursor \in Point
    /\ loop \in Loop
    /\ card \in Card
    /\ retained \in Content \cup {NoContent}
    /\ window \in Window
    /\ commands \in 0 .. MaxCommands
    /\ missed \in BOOLEAN

(* A card that was free to follow the reports of the loop since the last of  *)
(* them shows exactly while the loop has an answer out, and that answer      *)
(* (application.cpp:240-280): no order of delivered lookups, fades that are  *)
(* reversed, changed screens and switched scanning leaves a card behind, or  *)
(* takes one away.                                                           *)
CardFollowsReports ==
    ~missed =>
        /\ Up(card) <=> loop.shown # NoChar
        /\ loop.shown # NoChar => card.model.char = loop.shown

(* A pinned card on screen is the user reading it (popupwindow.cpp:108-111,  *)
(* :290-291, application.cpp:275-276): it keeps what it says and where it    *)
(* is, and goes away only because scanning was switched off.                 *)
PinnedIsFrozen ==
    [][Frozen(card) =>
        /\ Frozen(card') => /\ card'.model = card.model
                            /\ card'.rect.x = card.rect.x /\ card'.rect.y = card.rect.y
        /\ Up(card) /\ ~Up(card') => ~loop'.scanning]_vars

(* Once the dictionaries were replaced, neither the retained response nor    *)
(* the lookup window, open or closed, holds a store the manager waits for,   *)
(* whatever lookups ran across the change (application.cpp:244-250,          *)
(* :318-326).                                                                *)
ReplacedStoresAreLetGo == ~HoldsReplaced(retained) /\ ~HoldsReplaced(window.response)

(* A lookup window that opens shows the last hit, also where the pointer was *)
(* inside it when it was closed (application.cpp:253, lookupwindow.cpp:267). *)
OpenedWindowIsCurrent ==
    [][~window.open /\ window'.open /\ retained # NoContent => window'.response = retained]_vars

(* The corner of a card on screen lies on its screen, and its surface is     *)
(* bound to that screen (popupwindow.cpp:383-394).  A card that is not       *)
(* pinned and was placed since the settings were applied lies on the screen  *)
(* where it fits, and where the session wants it off the text and there is   *)
(* room beside the paragraph it answers for, for the card as it is when      *)
(* pinned, it covers none of it (placement.h:64-81).  Until then it has the  *)
(* size of the new settings where the old ones placed it, across the edge of *)
(* its screen or over its paragraph (popupwindow.cpp:120-162); the next      *)
(* sample or response that places a card places it right again.              *)
CardIsWellPlaced ==
    card.visible =>
        LET screen == Geometry[card.screen] IN
        /\ setup.layerShell => card.surface = card.screen
        /\ Within([card.rect EXCEPT !.w = 1, !.h = 1], screen)
        /\ ~card.pinned /\ PlacedSince(card) =>
              /\ Fits(card.rect, screen) => Within(card.rect, screen)
              /\ ~missed /\ Up(card) /\ setup.avoidsText /\ Roomy(card, setup)
                    => ~Intersects(card.rect, card.avoid)

(* The sides a card that was placed before takes while a hand resting at the *)
(* pointer wavers to q and back.                                             *)
Wavers == Up(card) /\ ~card.pinned /\ card.sides.known
WaverPath(q) ==
    Wavering(Position[cursor], q, [w |-> card.rect.w, h |-> card.rect.h],
             Geometry[card.screen], setup.mode,
             IF setup.avoidsText THEN card.avoid ELSE EmptyRect, card.sides)

(* Within the hysteresis it sends the card across the pointer at most once   *)
(* on either axis (placement.h:41-47).                                       *)
SidesTurnOnce(path) ==
    /\ TurnsAtMostOnce([i \in DOMAIN path |-> path[i].left])
    /\ TurnsAtMostOnce([i \in DOMAIN path |-> path[i].above])

(* It sends the card from one side of the paragraph to another only for the  *)
(* first samples: twice at the side of the pointer it began with, and, where *)
(* the second sample turned that side, twice more at the other               *)
(* (placement.h:83-86).                                                      *)
BandRests(path) == Cardinality({path[i].band : i \in 5 .. Len(path)} \ {-1}) <= 1

(* However a resting hand wavers around the pointer, the card comes to rest. *)
WaverSettles ==
    Wavers => \A q \in Around(Position[cursor], Geometry[card.screen]) :
                 LET path == WaverPath(q) IN SidesTurnOnce(path) /\ BandRests(path)
=============================================================================
