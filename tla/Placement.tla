----------------------------- MODULE Placement -----------------------------
(* popup::placePopup() and placePopupAvoiding() (src/src/popup/placement.cpp *)
(* and .h): where the card goes beside the pointer, with the hysteresis that *)
(* keeps it on the side it took.  Rectangles and points are those of Qt, in  *)
(* logical pixels; the interpolation and the distances, which the code       *)
(* computes in qreal, are compared exactly.                                  *)
EXTENDS Rectangles, Sequences, FiniteSets

CONSTANTS
    Hysteresis,     \* kSideHysteresisPx
    Offset          \* Theme::cursorOffset

ASSUME PlacementAssumption == Hysteresis \in Nat /\ Offset \in Nat

Modes == {"VisualNovel", "FlipHorizontally", "FlipVertically", "FlipBoth"}

(* PopupSides, and one that is not known.                                    *)
Sides == [known : BOOLEAN, left : BOOLEAN, above : BOOLEAN, band : -1 .. 3]
NoSides == [known |-> FALSE, left |-> FALSE, above |-> FALSE, band |-> -1]

(* clampToRange().                                                           *)
ClampToRange(v, low, high, span) ==
    IF high - span <= low THEN low ELSE Greater(low, Lesser(v, high - span))

-----------------------------------------------------------------------------
(* Mutant: the half of the screen decides without the band around it.        *)
BelowAtHalf(cursorY, height, sides) ==
    IF cursorY > (2 * height) \div 3 THEN FALSE
    ELSE IF cursorY < height \div 3 THEN TRUE
    ELSE cursorY < height \div 2

(* VisualNovel: below the pointer in the upper third, above it in the lower  *)
(* one, and by the half in between, with a band for the side taken before.   *)
Below(cursorY, height, sides) ==
    IF cursorY > (2 * height) \div 3 THEN FALSE
    ELSE IF cursorY < height \div 3 THEN TRUE
    ELSE IF ~sides.known THEN cursorY < height \div 2
    ELSE IF sides.above THEN cursorY < height \div 2 - Hysteresis
    ELSE cursorY < height \div 2 + Hysteresis

(* The anchor of VisualNovel wanders from right of the pointer at the left   *)
(* edge of the screen over its centre to left of it at the right edge.       *)
Anchor(cursor, width, screen) ==
    LET cursorX == cursor.x - screen.x
        full == screen.w
        beyond == Greater(0, Lesser(full, 2 * cursorX - full))
    IN  IF full <= 0 THEN Rounded(2 * cursor.x - width, 2)
        ELSE IF 2 * cursorX < full
        THEN Rounded(cursor.x * full + Offset * (full - 2 * cursorX) - width * cursorX, full)
        ELSE Rounded(2 * cursor.x * full - width * (full - beyond)
                     - 2 * (width + Offset) * beyond, 2 * full)

(* Which side of the pointer the mode takes on either axis.                  *)
FlipsLeft(cursor, size, screen, mode, sides) ==
    /\ mode \in {"FlipHorizontally", "FlipBoth"}
    /\ cursor.x + Offset + size.w > XEdge(screen) - (IF sides.known /\ sides.left THEN Hysteresis ELSE 0)

FlipsAbove(cursor, size, screen, mode, sides) ==
    IF mode = "VisualNovel" THEN ~Below(cursor.y - screen.y, screen.h, sides)
    ELSE /\ mode \in {"FlipVertically", "FlipBoth"}
         /\ cursor.y + Offset + size.h > YEdge(screen) - (IF sides.known /\ sides.above THEN Hysteresis ELSE 0)

(* placePopup(): the rectangle and the sides it leaves behind.               *)
Placed(cursor, size, screen, mode, sides) ==
    LET left == FlipsLeft(cursor, size, screen, mode, sides)
        above == FlipsAbove(cursor, size, screen, mode, sides)
        x == IF mode = "VisualNovel" THEN Anchor(cursor, size.w, screen)
             ELSE IF left THEN cursor.x - size.w - Offset ELSE cursor.x + Offset
        y == IF above THEN cursor.y - size.h - Offset ELSE cursor.y + Offset
    IN  [rect |-> [x |-> ClampToRange(x, screen.x, XEdge(screen), size.w),
                   y |-> ClampToRange(y, screen.y, YEdge(screen), size.h),
                   w |-> size.w, h |-> size.h],
         sides |-> [known |-> TRUE, left |-> left, above |-> above, band |-> -1]]

-----------------------------------------------------------------------------
(* The bands of the screen that hold no part of blocked: above, below, left  *)
(* and right of it.                                                          *)
Band(screen, blocked) ==
    [b \in 0 .. 3 |->
        CASE b = 0 -> [screen EXCEPT !.h = blocked.y - screen.y]
          [] b = 1 -> [screen EXCEPT !.y = YEdge(blocked), !.h = YEdge(screen) - YEdge(blocked)]
          [] b = 2 -> [screen EXCEPT !.w = blocked.x - screen.x]
          [] b = 3 -> [screen EXCEPT !.x = XEdge(blocked), !.w = XEdge(screen) - XEdge(blocked)]]

Fits(size, band) == band.w >= size.w /\ band.h >= size.h

(* The placement pushed into a band.                                         *)
Pushed(rect, band) ==
    [rect EXCEPT !.x = ClampToRange(rect.x, band.x, XEdge(band), rect.w),
                 !.y = ClampToRange(rect.y, band.y, YEdge(band), rect.h)]

(* QRect::center() truncates towards zero.                                   *)
Half(n) == IF n >= 0 THEN n \div 2 ELSE -((-n) \div 2)
CentreX(r) == Half(2 * r.x + r.w - 1)
CentreY(r) == Half(2 * r.y + r.h - 1)
Squared(r, s) ==
    (CentreX(r) - CentreX(s)) * (CentreX(r) - CentreX(s))
    + (CentreY(r) - CentreY(s)) * (CentreY(r) - CentreY(s))

(* The distance whose square is d, less the hysteresis where it is granted,  *)
(* is below the distance whose square is e, less its own.                    *)
Nearer(d, dKept, e, eKept) ==
    LET k == Hysteresis * Hysteresis IN
    CASE dKept = eKept -> d < e
      [] dKept /\ ~eKept -> d - e - k < 0 \/ (d - e - k) * (d - e - k) < 4 * k * e
      [] ~dKept /\ eKept -> e - d - k > 0 /\ (e - d - k) * (e - d - k) > 4 * k * d

(* Mutant: the band held counts like any other.                              *)
BetterBandOf(best, b, free, distance, kept) ==
    IF b \in free /\ (best = -1 \/ distance[b] < distance[best]) THEN b ELSE best

(* The candidate of b takes the place of the best so far where it is nearer. *)
BetterBand(best, b, free, distance, kept) ==
    IF b \in free /\ (best = -1 \/ Nearer(distance[b], b = kept, distance[best], best = kept))
    THEN b
    ELSE best

(* The free band whose candidate is nearest, the first of equals.            *)
NearestBand(free, distance, kept) ==
    LET over(best, b) == BetterBand(best, b, free, distance, kept)
    IN  over(over(over(over(-1, 0), 1), 2), 3)

(* The placement pushed into the nearest of the free bands.                  *)
PlacedAside(placed, band, free, kept) ==
    LET rects == [b \in 0 .. 3 |-> Pushed(placed.rect, band[b])]
        distance == [b \in 0 .. 3 |-> Squared(rects[b], placed.rect)]
        best == NearestBand(free, distance, kept)
    IN  [rect |-> rects[best], sides |-> [placed.sides EXCEPT !.band = best]]

(* Mutant: the card stays where the mode wants it.                           *)
PlacedAnywhere(cursor, size, screen, mode, avoid, sides) ==
    Placed(cursor, size, screen, mode, sides)

(* placePopupAvoiding(): off the paragraph where a band has room for it.     *)
PlacedAvoiding(cursor, size, screen, mode, avoid, sides) ==
    LET placed == Placed(cursor, size, screen, mode, sides)
        blocked == Intersected(avoid, screen)
        band == Band(screen, blocked)
        free == {b \in 0 .. 3 : Fits(size, band[b])}
    IN  IF Empty(avoid) \/ ~Intersects(placed.rect, avoid) \/ Empty(blocked) \/ free = {}
        THEN placed
        ELSE PlacedAside(placed, band, free, IF sides.known THEN sides.band ELSE -1)

-----------------------------------------------------------------------------
(* The points a hand at rest may report around p.                            *)
Around(p, screen) ==
    {q \in [x : p.x + 1 - Hysteresis .. p.x + Hysteresis - 1, y : p.y + 1 - Hysteresis .. p.y + Hysteresis - 1] :
        Within([x |-> q.x, y |-> q.y, w |-> 1, h |-> 1], screen)}

(* The sides taken while a pointer at p goes to q and back, three times over. *)
Wavering(p, q, size, screen, mode, avoid, sides) ==
    LET at(point, last) == PlacedAvoiding(point, size, screen, mode, avoid, last).sides
        one == at(q, sides)
        two == at(p, one)
        three == at(q, two)
        four == at(p, three)
        five == at(q, four)
    IN  <<sides, one, two, three, four, five, at(p, five)>>

TurnsAtMostOnce(path) == Cardinality({i \in 1 .. Len(path) - 1 : path[i] # path[i + 1]}) <= 1
=============================================================================
