------------------------- MODULE PopupWindowProofs -------------------------
(* Where popup::placePopup() and placePopupAvoiding() put a card, for every  *)
(* pointer, size, screen, mode, paragraph and history of sides; and what     *)
(* each member of popup::PopupWindow keeps of a card: its size is that of    *)
(* its model, it lies on the screen it is on and its surface is bound to     *)
(* that screen, for every model, size, screen and pointer.                   *)
EXTENDS PopupWindow, FiniteSetTheorems, SequenceTheorems, TLAPS

(* Placement.                                                                *)

LEMMA ClampType ==
    ASSUME NEW v \in Int, NEW low \in Int, NEW high \in Int, NEW span \in Int
    PROVE  /\ ClampToRange(v, low, high, span) \in Int
           /\ ClampToRange(v, low, high, span) >= low
           /\ high - span >= low => ClampToRange(v, low, high, span) <= high - span
           /\ high - span <= low => ClampToRange(v, low, high, span) = low
BY DEF ClampToRange, Greater, Lesser

(* The anchor of VisualNovel is a whole number.                              *)
LEMMA AnchorType ==
    ASSUME NEW cursor \in [x : Int, y : Int], NEW width \in Int, NEW screen \in QRect
    PROVE  Anchor(cursor, width, screen) \in Int
<1>1. ASSUME NEW n \in Int, NEW d \in Nat \ {0}
      PROVE  Rounded(n, d) \in Int
  <2>1. 2 * n + d \in Int /\ d - 2 * n \in Int /\ 2 * d \in Nat \ {0}
    OBVIOUS
  <2>2. (2 * n + d) \div (2 * d) \in Int /\ (d - 2 * n) \div (2 * d) \in Int
    BY <2>1
  <2> QED BY <2>2 DEF Rounded
<1> DEFINE full == screen.w
           cursorX == cursor.x - screen.x
           beyond == Greater(0, Lesser(full, 2 * cursorX - full))
<1>2. full \in Int /\ cursorX \in Int /\ cursor.x \in Int /\ beyond \in Int /\ Offset \in Int
  BY PlacementAssumption DEF QRect, Greater, Lesser
<1>3. /\ 2 * cursor.x - width \in Int
      /\ cursor.x * full + Offset * (full - 2 * cursorX) - width * cursorX \in Int
      /\ 2 * cursor.x * full - width * (full - beyond) - 2 * (width + Offset) * beyond \in Int
  <2> HIDE DEF full, cursorX, beyond
  <2> QED BY <1>2
<1>4. full > 0 => full \in Nat \ {0} /\ 2 * full \in Nat \ {0}
  BY <1>2
<1>5. 2 \in Nat \ {0}
  OBVIOUS
<1>6. CASE full <= 0
  BY <1>1, <1>3, <1>5, <1>6 DEF Anchor
<1>7. CASE full > 0 /\ 2 * cursorX < full
  <2>1. Rounded(cursor.x * full + Offset * (full - 2 * cursorX) - width * cursorX, full) \in Int
    BY <1>1, <1>3, <1>4, <1>7
  <2> QED BY <2>1, <1>2, <1>7 DEF Anchor
<1>8. CASE full > 0 /\ ~(2 * cursorX < full)
  <2>1. Rounded(2 * cursor.x * full - width * (full - beyond) - 2 * (width + Offset) * beyond, 2 * full) \in Int
    BY <1>1, <1>3, <1>4, <1>8
  <2> QED BY <2>1, <1>2, <1>8 DEF Anchor
<1> QED BY <1>2, <1>6, <1>7, <1>8

(* placePopup() answers a card of the given size, whose corner lies on the   *)
(* screen and which lies on it entirely where it fits.                       *)
LEMMA PlacedOnScreen ==
    ASSUME NEW cursor \in [x : Int, y : Int], NEW size \in [w : Int, h : Int],
           NEW screen \in QRect, NEW mode \in Modes, NEW sides \in Sides
    PROVE  LET place == Placed(cursor, size, screen, mode, sides) IN
           /\ place.rect \in QRect /\ place.rect.w = size.w /\ place.rect.h = size.h
           /\ place.sides \in Sides
           /\ place.rect.x >= screen.x /\ place.rect.y >= screen.y
           /\ size.w <= screen.w => place.rect.x + size.w <= screen.x + screen.w
           /\ size.h <= screen.h => place.rect.y + size.h <= screen.y + screen.h
           /\ size.w >= screen.w => place.rect.x = screen.x
           /\ size.h >= screen.h => place.rect.y = screen.y
<1> DEFINE left == FlipsLeft(cursor, size, screen, mode, sides)
           above == FlipsAbove(cursor, size, screen, mode, sides)
           x == IF mode = "VisualNovel" THEN Anchor(cursor, size.w, screen)
                ELSE IF left THEN cursor.x - size.w - Offset ELSE cursor.x + Offset
           y == IF above THEN cursor.y - size.h - Offset ELSE cursor.y + Offset
           px == ClampToRange(x, screen.x, XEdge(screen), size.w)
           py == ClampToRange(y, screen.y, YEdge(screen), size.h)
<1>1. /\ size.w \in Int /\ size.h \in Int /\ cursor.x \in Int /\ cursor.y \in Int
      /\ screen.x \in Int /\ screen.y \in Int /\ screen.w \in Int /\ screen.h \in Int
      /\ Offset \in Int
  BY PlacementAssumption DEF QRect
<1>2. x \in Int /\ y \in Int
  BY <1>1, AnchorType
<1>3. /\ px \in Int /\ px >= screen.x
      /\ screen.x + screen.w - size.w >= screen.x => px <= screen.x + screen.w - size.w
      /\ screen.x + screen.w - size.w <= screen.x => px = screen.x
      /\ py \in Int /\ py >= screen.y
      /\ screen.y + screen.h - size.h >= screen.y => py <= screen.y + screen.h - size.h
      /\ screen.y + screen.h - size.h <= screen.y => py = screen.y
  <2> HIDE DEF x, y
  <2>1. XEdge(screen) \in Int /\ XEdge(screen) = screen.x + screen.w
        /\ YEdge(screen) \in Int /\ YEdge(screen) = screen.y + screen.h
    BY <1>1 DEF XEdge, YEdge
  <2>2. /\ px \in Int /\ px >= screen.x
        /\ XEdge(screen) - size.w >= screen.x => px <= XEdge(screen) - size.w
        /\ XEdge(screen) - size.w <= screen.x => px = screen.x
    BY <1>1, <1>2, <2>1 DEF ClampToRange, Greater, Lesser
  <2>3. /\ py \in Int /\ py >= screen.y
        /\ YEdge(screen) - size.h >= screen.y => py <= YEdge(screen) - size.h
        /\ YEdge(screen) - size.h <= screen.y => py = screen.y
    BY <1>1, <1>2, <2>1 DEF ClampToRange, Greater, Lesser
  <2> HIDE DEF px, py
  <2> QED BY <1>1, <2>1, <2>2, <2>3
<1>4. left \in BOOLEAN /\ above \in BOOLEAN
  BY DEF FlipsLeft, FlipsAbove
<1>5. Placed(cursor, size, screen, mode, sides)
        = [rect |-> [x |-> px, y |-> py, w |-> size.w, h |-> size.h],
           sides |-> [known |-> TRUE, left |-> left, above |-> above, band |-> -1]]
  BY DEF Placed
<1> HIDE DEF px, py, left, above, x, y
<1> QED BY <1>1, <1>3, <1>4, <1>5 DEF QRect, Sides

(* The nearest band is a free one wherever there is one.                     *)
LEMMA NearestIsFree ==
    ASSUME NEW free \in SUBSET (0 .. 3), NEW distance, NEW kept
    PROVE  /\ NearestBand(free, distance, kept) \in -1 .. 3
           /\ free # {} => NearestBand(free, distance, kept) \in free
<1> DEFINE over(best, b) == BetterBand(best, b, free, distance, kept)
           one == over(-1, 0)
           two == over(one, 1)
           three == over(two, 2)
           four == over(three, 3)
<1>1. ASSUME NEW best, NEW b
      PROVE  /\ over(best, b) \in {best, b}
             /\ over(best, b) = b => over(best, b) = best \/ b \in free
             /\ best = -1 /\ b \in free => over(best, b) = b
  BY DEF BetterBand
<1> HIDE DEF over
<1>2. one \in {-1} \cup free /\ (0 \in free => one # -1)
  BY <1>1
<1> HIDE DEF one
<1>3. two \in {-1} \cup free /\ (0 \in free \/ 1 \in free => two # -1)
  BY <1>1, <1>2
<1> HIDE DEF two
<1>4. three \in {-1} \cup free /\ (0 \in free \/ 1 \in free \/ 2 \in free => three # -1)
  BY <1>1, <1>3
<1> HIDE DEF three
<1>5. four \in {-1} \cup free
      /\ (0 \in free \/ 1 \in free \/ 2 \in free \/ 3 \in free => four # -1)
  BY <1>1, <1>4
<1>6. NearestBand(free, distance, kept) = four
  BY DEF NearestBand, four, three, two, one, over
<1>7. free # {} => 0 \in free \/ 1 \in free \/ 2 \in free \/ 3 \in free
  <2>1. \A b \in free : b = 0 \/ b = 1 \/ b = 2 \/ b = 3
    OBVIOUS
  <2> QED BY <2>1
<1> HIDE DEF four
<1> QED BY <1>5, <1>6, <1>7

(* A band beside the blocked part of a screen lies on the screen and on one  *)
(* side of it.                                                               *)
LEMMA BandIsBeside ==
    ASSUME NEW screen \in QRect, NEW blocked \in QRect,
           Within(blocked, screen), ~Empty(blocked), NEW b \in 0 .. 3
    PROVE  LET band == Band(screen, blocked)[b] IN
           /\ band \in QRect
           /\ band.w >= 0 => band.x >= screen.x /\ XEdge(band) <= XEdge(screen)
           /\ band.h >= 0 => band.y >= screen.y /\ YEdge(band) <= YEdge(screen)
           /\ \/ YEdge(band) <= blocked.y \/ band.y >= YEdge(blocked)
              \/ XEdge(band) <= blocked.x \/ band.x >= XEdge(blocked)
<1> DEFINE band == Band(screen, blocked)[b]
<1> SUFFICES /\ band \in QRect
             /\ band.w >= 0 => band.x >= screen.x /\ XEdge(band) <= XEdge(screen)
             /\ band.h >= 0 => band.y >= screen.y /\ YEdge(band) <= YEdge(screen)
             /\ \/ YEdge(band) <= blocked.y \/ band.y >= YEdge(blocked)
                \/ XEdge(band) <= blocked.x \/ band.x >= XEdge(blocked)
  OBVIOUS
<1>0. screen = [x |-> screen.x, y |-> screen.y, w |-> screen.w, h |-> screen.h]
  BY DEF QRect
<1>1. /\ screen.x \in Int /\ screen.y \in Int /\ screen.w \in Int /\ screen.h \in Int
      /\ blocked.x \in Int /\ blocked.y \in Int /\ blocked.w \in Int /\ blocked.h \in Int
  BY DEF QRect
<1>2. /\ blocked.x >= screen.x /\ blocked.x + blocked.w <= screen.x + screen.w
      /\ blocked.y >= screen.y /\ blocked.y + blocked.h <= screen.y + screen.h
      /\ blocked.w > 0 /\ blocked.h > 0
  BY <1>1 DEF Within, XEdge, YEdge, Empty
<1>3. CASE b = 0
  <2>1. band = [screen EXCEPT !.h = blocked.y - screen.y]
    BY <1>3 DEF Band
  <2> HIDE DEF band
  <2>2. band = [x |-> screen.x, y |-> screen.y, w |-> screen.w, h |-> blocked.y - screen.y]
    BY <1>0, <2>1
  <2>3. /\ band \in QRect
        /\ band.x = screen.x /\ band.y = screen.y
        /\ band.w = screen.w /\ band.h = blocked.y - screen.y
    BY <1>1, <2>2 DEF QRect, XEdge, YEdge
  <2>4. band.w >= 0 => band.x >= screen.x /\ XEdge(band) <= XEdge(screen)
    BY <1>1, <1>2, <2>3 DEF XEdge, YEdge
  <2>5. band.h >= 0 => band.y >= screen.y /\ YEdge(band) <= YEdge(screen)
    BY <1>1, <1>2, <2>3 DEF XEdge, YEdge
  <2>6. \/ YEdge(band) <= blocked.y \/ band.y >= YEdge(blocked)
        \/ XEdge(band) <= blocked.x \/ band.x >= XEdge(blocked)
    BY <1>1, <2>3 DEF XEdge, YEdge
  <2> QED BY <2>3, <2>4, <2>5, <2>6
<1>4. CASE b = 1
  <2>1. band = [screen EXCEPT !.y = YEdge(blocked), !.h = YEdge(screen) - YEdge(blocked)]
    BY <1>4 DEF Band
  <2> HIDE DEF band
  <2>2. band = [x |-> screen.x, y |-> YEdge(blocked), w |-> screen.w, h |-> YEdge(screen) - YEdge(blocked)]
    BY <1>0, <2>1
  <2>3. /\ band \in QRect
        /\ band.x = screen.x /\ band.y = YEdge(blocked)
        /\ band.w = screen.w /\ band.h = YEdge(screen) - YEdge(blocked)
    BY <1>1, <2>2 DEF QRect, XEdge, YEdge
  <2>4. band.w >= 0 => band.x >= screen.x /\ XEdge(band) <= XEdge(screen)
    BY <1>1, <1>2, <2>3 DEF XEdge, YEdge
  <2>5. band.h >= 0 => band.y >= screen.y /\ YEdge(band) <= YEdge(screen)
    BY <1>1, <1>2, <2>3 DEF XEdge, YEdge
  <2>6. \/ YEdge(band) <= blocked.y \/ band.y >= YEdge(blocked)
        \/ XEdge(band) <= blocked.x \/ band.x >= XEdge(blocked)
    BY <1>1, <2>3 DEF XEdge, YEdge
  <2> QED BY <2>3, <2>4, <2>5, <2>6
<1>5. CASE b = 2
  <2>1. band = [screen EXCEPT !.w = blocked.x - screen.x]
    BY <1>5 DEF Band
  <2> HIDE DEF band
  <2>2. band = [x |-> screen.x, y |-> screen.y, w |-> blocked.x - screen.x, h |-> screen.h]
    BY <1>0, <2>1
  <2>3. /\ band \in QRect
        /\ band.x = screen.x /\ band.y = screen.y
        /\ band.w = blocked.x - screen.x /\ band.h = screen.h
    BY <1>1, <2>2 DEF QRect, XEdge, YEdge
  <2>4. band.w >= 0 => band.x >= screen.x /\ XEdge(band) <= XEdge(screen)
    BY <1>1, <1>2, <2>3 DEF XEdge, YEdge
  <2>5. band.h >= 0 => band.y >= screen.y /\ YEdge(band) <= YEdge(screen)
    BY <1>1, <1>2, <2>3 DEF XEdge, YEdge
  <2>6. \/ YEdge(band) <= blocked.y \/ band.y >= YEdge(blocked)
        \/ XEdge(band) <= blocked.x \/ band.x >= XEdge(blocked)
    BY <1>1, <2>3 DEF XEdge, YEdge
  <2> QED BY <2>3, <2>4, <2>5, <2>6
<1>6. CASE b = 3
  <2>1. band = [screen EXCEPT !.x = XEdge(blocked), !.w = XEdge(screen) - XEdge(blocked)]
    BY <1>6 DEF Band
  <2> HIDE DEF band
  <2>2. band = [x |-> XEdge(blocked), y |-> screen.y, w |-> XEdge(screen) - XEdge(blocked), h |-> screen.h]
    BY <1>0, <2>1
  <2>3. /\ band \in QRect
        /\ band.x = XEdge(blocked) /\ band.y = screen.y
        /\ band.w = XEdge(screen) - XEdge(blocked) /\ band.h = screen.h
    BY <1>1, <2>2 DEF QRect, XEdge, YEdge
  <2>4. band.w >= 0 => band.x >= screen.x /\ XEdge(band) <= XEdge(screen)
    BY <1>1, <1>2, <2>3 DEF XEdge, YEdge
  <2>5. band.h >= 0 => band.y >= screen.y /\ YEdge(band) <= YEdge(screen)
    BY <1>1, <1>2, <2>3 DEF XEdge, YEdge
  <2>6. \/ YEdge(band) <= blocked.y \/ band.y >= YEdge(blocked)
        \/ XEdge(band) <= blocked.x \/ band.x >= XEdge(blocked)
    BY <1>1, <2>3 DEF XEdge, YEdge
  <2> QED BY <2>3, <2>4, <2>5, <2>6
<1> HIDE DEF band
<1> QED BY <1>3, <1>4, <1>5, <1>6

(* Every band is a rectangle.                                                *)
LEMMA BandType ==
    ASSUME NEW screen \in QRect, NEW blocked \in QRect, NEW b \in 0 .. 3
    PROVE  /\ Band(screen, blocked)[b].w \in Int
           /\ Band(screen, blocked)[b].h \in Int
<1>1. /\ screen.x \in Int /\ screen.y \in Int /\ screen.w \in Int /\ screen.h \in Int
      /\ blocked.x \in Int /\ blocked.y \in Int /\ blocked.w \in Int /\ blocked.h \in Int
  BY DEF QRect
<1>2. XEdge(blocked) \in Int /\ YEdge(blocked) \in Int /\ XEdge(screen) \in Int /\ YEdge(screen) \in Int
  BY <1>1 DEF XEdge, YEdge
<1> DEFINE band == Band(screen, blocked)[b]
<1>3. CASE b = 0
  <2>1. band = [screen EXCEPT !.h = blocked.y - screen.y]
    BY <1>3 DEF Band
  <2> QED BY <1>1, <2>1 DEF QRect
<1>4. CASE b = 1
  <2>1. band = [screen EXCEPT !.y = YEdge(blocked), !.h = YEdge(screen) - YEdge(blocked)]
    BY <1>4 DEF Band
  <2> QED BY <1>1, <1>2, <2>1 DEF QRect
<1>5. CASE b = 2
  <2>1. band = [screen EXCEPT !.w = blocked.x - screen.x]
    BY <1>5 DEF Band
  <2> QED BY <1>1, <2>1 DEF QRect
<1>6. CASE b = 3
  <2>1. band = [screen EXCEPT !.x = XEdge(blocked), !.w = XEdge(screen) - XEdge(blocked)]
    BY <1>6 DEF Band
  <2> QED BY <1>1, <1>2, <2>1 DEF QRect
<1> QED BY <1>3, <1>4, <1>5, <1>6

(* A card pushed into a band it fits in lies in the band.                    *)
LEMMA PushedIntoBand ==
    ASSUME NEW rect \in QRect, NEW band \in QRect, Fits(rect, band)
    PROVE  /\ Pushed(rect, band) \in QRect
           /\ Pushed(rect, band).w = rect.w /\ Pushed(rect, band).h = rect.h
           /\ Within(Pushed(rect, band), band)
<1> DEFINE px == ClampToRange(rect.x, band.x, XEdge(band), rect.w)
           py == ClampToRange(rect.y, band.y, YEdge(band), rect.h)
<1>1. /\ rect.x \in Int /\ rect.y \in Int /\ rect.w \in Int /\ rect.h \in Int
      /\ band.x \in Int /\ band.y \in Int /\ band.w \in Int /\ band.h \in Int
      /\ XEdge(band) = band.x + band.w /\ YEdge(band) = band.y + band.h
      /\ band.w >= rect.w /\ band.h >= rect.h
  BY DEF QRect, XEdge, YEdge, Fits
<1>2. px \in Int /\ px >= band.x /\ px <= XEdge(band) - rect.w
  <2>1. XEdge(band) \in Int /\ XEdge(band) - rect.w >= band.x
    BY <1>1
  <2> QED BY <1>1, <2>1, ClampType
<1>3. py \in Int /\ py >= band.y /\ py <= YEdge(band) - rect.h
  <2>1. YEdge(band) \in Int /\ YEdge(band) - rect.h >= band.y
    BY <1>1
  <2> QED BY <1>1, <2>1, ClampType
<1>4. Pushed(rect, band) = [x |-> px, y |-> py, w |-> rect.w, h |-> rect.h]
  <2>1. rect = [x |-> rect.x, y |-> rect.y, w |-> rect.w, h |-> rect.h]
    BY DEF QRect
  <2>2. Pushed(rect, band) = [rect EXCEPT !.x = px, !.y = py]
    BY DEF Pushed
  <2> HIDE DEF px, py
  <2> QED BY <2>1, <2>2
<1> HIDE DEF px, py
<1> QED BY <1>1, <1>2, <1>3, <1>4 DEF QRect, Within, XEdge, YEdge

(* The part of a rectangle on the screen.                                    *)
LEMMA IntersectedType ==
    ASSUME NEW r \in QRect, NEW s \in QRect
    PROVE  /\ Intersected(r, s) \in QRect
           /\ Within(Intersected(r, s), r) /\ Within(Intersected(r, s), s)
<1>1. /\ r.x \in Int /\ r.y \in Int /\ r.w \in Int /\ r.h \in Int
      /\ s.x \in Int /\ s.y \in Int /\ s.w \in Int /\ s.h \in Int
  BY DEF QRect
<1> DEFINE x == Greater(r.x, s.x)
           y == Greater(r.y, s.y)
           right == Lesser(r.x + r.w, s.x + s.w)
           bottom == Lesser(r.y + r.h, s.y + s.h)
<1>2. /\ x \in Int /\ x >= r.x /\ x >= s.x
      /\ y \in Int /\ y >= r.y /\ y >= s.y
      /\ right \in Int /\ right <= r.x + r.w /\ right <= s.x + s.w
      /\ bottom \in Int /\ bottom <= r.y + r.h /\ bottom <= s.y + s.h
  BY <1>1 DEF Greater, Lesser
<1>3. Intersected(r, s) = [x |-> x, y |-> y, w |-> right - x, h |-> bottom - y]
  BY DEF Intersected, XEdge, YEdge
<1> HIDE DEF x, y, right, bottom
<1> DEFINE met == Intersected(r, s)
<1>4. met.x = x /\ met.y = y /\ met.w = right - x /\ met.h = bottom - y
  BY <1>3
<1>5. met \in QRect
  BY <1>2, <1>3 DEF QRect
<1> HIDE DEF met
<1>6. Within(met, r) /\ Within(met, s)
  BY <1>1, <1>2, <1>4 DEF Within, XEdge, YEdge
<1> QED BY <1>5, <1>6 DEF met

(* Two rectangles one of which ends where the other begins do not meet.      *)
LEMMA ApartIsDisjoint ==
    ASSUME NEW r \in QRect, NEW s \in QRect,
           \/ YEdge(r) <= s.y \/ r.y >= YEdge(s)
           \/ XEdge(r) <= s.x \/ r.x >= XEdge(s)
    PROVE  ~Intersects(r, s)
<1>1. /\ r.x \in Int /\ r.y \in Int /\ r.w \in Int /\ r.h \in Int
      /\ s.x \in Int /\ s.y \in Int /\ s.w \in Int /\ s.h \in Int
  BY DEF QRect
<1>2. /\ Intersected(r, s).w = Lesser(XEdge(r), XEdge(s)) - Greater(r.x, s.x)
      /\ Intersected(r, s).h = Lesser(YEdge(r), YEdge(s)) - Greater(r.y, s.y)
  BY DEF Intersected
<1>3. Intersected(r, s).w <= 0 \/ Intersected(r, s).h <= 0
  BY <1>1, <1>2 DEF Lesser, Greater, XEdge, YEdge
<1> QED BY <1>3 DEF Intersects, Empty

(* An empty rectangle meets none.                                            *)
LEMMA EmptyMeetsNothing ==
    ASSUME NEW r \in QRect, NEW s \in QRect, Empty(s)
    PROVE  ~Intersects(r, s)
<1>1. /\ r.x \in Int /\ r.y \in Int /\ r.w \in Int /\ r.h \in Int
      /\ s.x \in Int /\ s.y \in Int /\ s.w \in Int /\ s.h \in Int
      /\ s.w <= 0 \/ s.h <= 0
  BY DEF QRect, Empty
<1>2. /\ Intersected(r, s).w = Lesser(XEdge(r), XEdge(s)) - Greater(r.x, s.x)
      /\ Intersected(r, s).h = Lesser(YEdge(r), YEdge(s)) - Greater(r.y, s.y)
  BY DEF Intersected
<1>3. Intersected(r, s).w <= 0 \/ Intersected(r, s).h <= 0
  BY <1>1, <1>2 DEF Lesser, Greater, XEdge, YEdge
<1> QED BY <1>3 DEF Intersects, Empty

(* What lies on a screen meets of a rectangle only its part on the screen.   *)
LEMMA InsideMeetsPart ==
    ASSUME NEW r \in QRect, NEW s \in QRect, NEW screen \in QRect,
           Within(r, screen), ~Intersects(r, Intersected(s, screen))
    PROVE  ~Intersects(r, s)
<1>1. /\ r.x \in Int /\ r.y \in Int /\ r.w \in Int /\ r.h \in Int
      /\ s.x \in Int /\ s.y \in Int /\ s.w \in Int /\ s.h \in Int
      /\ screen.x \in Int /\ screen.y \in Int /\ screen.w \in Int /\ screen.h \in Int
  BY DEF QRect
<1> DEFINE part == Intersected(s, screen)
<1>2. /\ part.x = Greater(s.x, screen.x) /\ part.y = Greater(s.y, screen.y)
      /\ part.w = Lesser(XEdge(s), XEdge(screen)) - Greater(s.x, screen.x)
      /\ part.h = Lesser(YEdge(s), YEdge(screen)) - Greater(s.y, screen.y)
  BY DEF Intersected
<1>3. part \in QRect
  BY IntersectedType
<1>4. /\ part.x \in Int /\ part.y \in Int
      /\ XEdge(part) = Lesser(XEdge(s), XEdge(screen))
      /\ YEdge(part) = Lesser(YEdge(s), YEdge(screen))
  <2>1. part.w \in Int /\ part.h \in Int /\ part.x \in Int /\ part.y \in Int
    BY <1>3 DEF QRect
  <2> HIDE DEF part
  <2> QED BY <1>1, <1>2, <2>1 DEF XEdge, YEdge, Lesser, Greater
<1>5. /\ Intersected(r, part).w = Lesser(XEdge(r), XEdge(part)) - Greater(r.x, part.x)
      /\ Intersected(r, part).h = Lesser(YEdge(r), YEdge(part)) - Greater(r.y, part.y)
      /\ Intersected(r, s).w = Lesser(XEdge(r), XEdge(s)) - Greater(r.x, s.x)
      /\ Intersected(r, s).h = Lesser(YEdge(r), YEdge(s)) - Greater(r.y, s.y)
  BY DEF Intersected
<1>6. /\ XEdge(r) \in Int /\ YEdge(r) \in Int /\ XEdge(s) \in Int /\ YEdge(s) \in Int
      /\ XEdge(screen) \in Int /\ YEdge(screen) \in Int
      /\ r.x >= screen.x /\ r.y >= screen.y
      /\ XEdge(r) <= XEdge(screen) /\ YEdge(r) <= YEdge(screen)
  BY <1>1 DEF XEdge, YEdge, Within
<1> HIDE DEF part
<1>7. /\ Intersected(r, part).w = Intersected(r, s).w
      /\ Intersected(r, part).h = Intersected(r, s).h
  BY <1>1, <1>2, <1>4, <1>5, <1>6 DEF Lesser, Greater
<1> QED BY <1>7 DEF Intersects, Empty, part

(* A smaller rectangle with the same corner meets no more.                   *)
LEMMA SmallerMeetsLess ==
    ASSUME NEW r \in QRect, NEW t \in QRect, NEW s \in QRect,
           t.x = r.x, t.y = r.y, t.w <= r.w, t.h <= r.h, ~Intersects(r, s)
    PROVE  ~Intersects(t, s)
<1>1. /\ r.x \in Int /\ r.y \in Int /\ r.w \in Int /\ r.h \in Int
      /\ t.x \in Int /\ t.y \in Int /\ t.w \in Int /\ t.h \in Int
      /\ s.x \in Int /\ s.y \in Int /\ s.w \in Int /\ s.h \in Int
  BY DEF QRect
<1>2. /\ Intersected(r, s).w = Lesser(XEdge(r), XEdge(s)) - Greater(r.x, s.x)
      /\ Intersected(r, s).h = Lesser(YEdge(r), YEdge(s)) - Greater(r.y, s.y)
      /\ Intersected(t, s).w = Lesser(XEdge(t), XEdge(s)) - Greater(t.x, s.x)
      /\ Intersected(t, s).h = Lesser(YEdge(t), YEdge(s)) - Greater(t.y, s.y)
  BY DEF Intersected
<1>3. Intersected(r, s).w <= 0 \/ Intersected(r, s).h <= 0
  BY DEF Intersects, Empty
<1>4. Intersected(t, s).w <= 0 \/ Intersected(t, s).h <= 0
  BY <1>1, <1>2, <1>3 DEF Lesser, Greater, XEdge, YEdge
<1> QED BY <1>4 DEF Intersects, Empty

(* What lies on a screen does not meet a rectangle beside the screen.        *)
LEMMA OutsideMeetsNothing ==
    ASSUME NEW r \in QRect, NEW s \in QRect, NEW screen \in QRect,
           Within(r, screen), Empty(Intersected(s, screen))
    PROVE  ~Intersects(r, s)
BY IntersectedType, EmptyMeetsNothing, InsideMeetsPart

(* placePopupAvoiding() answers a card of the given size, on the screen      *)
(* where it fits, and off the paragraph where a band beside it has room.     *)
LEMMA PlacedOffText ==
    ASSUME NEW cursor \in [x : Int, y : Int], NEW size \in [w : Nat, h : Nat],
           NEW screen \in QRect, NEW mode \in Modes, NEW avoid \in QRect, NEW sides \in Sides
    PROVE  LET place == PlacedAvoiding(cursor, size, screen, mode, avoid, sides) IN
           /\ place.rect \in QRect /\ place.rect.w = size.w /\ place.rect.h = size.h
           /\ place.sides \in Sides
           /\ place.rect.x >= screen.x /\ place.rect.y >= screen.y
           /\ size.w <= screen.w => place.rect.x + size.w <= screen.x + screen.w
           /\ size.h <= screen.h => place.rect.y + size.h <= screen.y + screen.h
           /\ size.w >= screen.w => place.rect.x = screen.x
           /\ size.h >= screen.h => place.rect.y = screen.y
           /\ Fits(size, screen)
              /\ (\E b \in 0 .. 3 : Fits(size, Band(screen, Intersected(avoid, screen))[b]))
              => ~Intersects(place.rect, avoid)
<1> DEFINE placed == Placed(cursor, size, screen, mode, sides)
           blocked == Intersected(avoid, screen)
           band == Band(screen, blocked)
           free == {b \in 0 .. 3 : Fits(size, band[b])}
           rects == [b \in 0 .. 3 |-> Pushed(placed.rect, band[b])]
           distance == [b \in 0 .. 3 |-> Squared(rects[b], placed.rect)]
           kept == IF sides.known THEN sides.band ELSE -1
           best == NearestBand(free, distance, kept)
           stays == Empty(avoid) \/ ~Intersects(placed.rect, avoid) \/ Empty(blocked) \/ free = {}
           place == PlacedAvoiding(cursor, size, screen, mode, avoid, sides)
<1> SUFFICES
      /\ place.rect \in QRect /\ place.rect.w = size.w /\ place.rect.h = size.h
      /\ place.sides \in Sides
      /\ place.rect.x >= screen.x /\ place.rect.y >= screen.y
      /\ size.w <= screen.w => place.rect.x + size.w <= screen.x + screen.w
      /\ size.h <= screen.h => place.rect.y + size.h <= screen.y + screen.h
      /\ size.w >= screen.w => place.rect.x = screen.x
      /\ size.h >= screen.h => place.rect.y = screen.y
      /\ Fits(size, screen) /\ (\E b \in 0 .. 3 : Fits(size, band[b]))
         => ~Intersects(place.rect, avoid)
  OBVIOUS
<1>1. /\ size \in [w : Int, h : Int] /\ size.w \in Nat /\ size.h \in Nat
      /\ screen.x \in Int /\ screen.y \in Int /\ screen.w \in Int /\ screen.h \in Int
  BY DEF QRect
<1>2. /\ placed.rect \in QRect /\ placed.rect.w = size.w /\ placed.rect.h = size.h
      /\ placed.sides \in Sides
      /\ placed.rect.x >= screen.x /\ placed.rect.y >= screen.y
      /\ size.w <= screen.w => placed.rect.x + size.w <= screen.x + screen.w
      /\ size.h <= screen.h => placed.rect.y + size.h <= screen.y + screen.h
      /\ size.w >= screen.w => placed.rect.x = screen.x
      /\ size.h >= screen.h => placed.rect.y = screen.y
  BY <1>1, PlacedOnScreen
<1>3. blocked \in QRect /\ Within(blocked, screen)
  BY IntersectedType
<1>4. free \in SUBSET (0 .. 3)
  OBVIOUS
<1>5. place = IF stays THEN placed
              ELSE [rect |-> rects[best], sides |-> [placed.sides EXCEPT !.band = best]]
  <2>1. place = IF stays THEN placed ELSE PlacedAside(placed, band, free, kept)
    BY DEF PlacedAvoiding
  <2> HIDE DEF placed, band, free, kept, stays, place
  <2> QED BY <2>1 DEF PlacedAside
<1>6. (\E b \in 0 .. 3 : Fits(size, band[b])) => free # {}
  OBVIOUS
<1>7. CASE stays
  <2>1. place = placed
    BY <1>5, <1>7
  <2>2. Empty(avoid) => ~Intersects(placed.rect, avoid)
    BY <1>2, EmptyMeetsNothing
  <2>3. Empty(blocked) /\ Fits(size, screen) => ~Intersects(placed.rect, avoid)
    <3>1. SUFFICES ASSUME Empty(blocked), Fits(size, screen)
                   PROVE  ~Intersects(placed.rect, avoid)
      OBVIOUS
    <3> HIDE DEF placed
    <3>2. Within(placed.rect, screen)
      BY <1>1, <1>2, <3>1 DEF Fits, Within, XEdge, YEdge
    <3> QED BY <1>2, <3>1, <3>2, OutsideMeetsNothing
  <2>4. Fits(size, screen) /\ (\E b \in 0 .. 3 : Fits(size, band[b]))
        => ~Intersects(placed.rect, avoid)
    <3> HIDE DEF placed, blocked, band, free
    <3> QED BY <1>6, <1>7, <2>2, <2>3
  <2> HIDE DEF placed, blocked, band, place, free
  <2> QED BY <1>2, <2>1, <2>4
<1>8. CASE ~stays
  <2>1. best \in free
    <3> HIDE DEF free, distance
    <3> QED BY <1>4, <1>8, NearestIsFree
  <2>2. best \in 0 .. 3 /\ Fits(size, band[best])
    BY <2>1
  <2> HIDE DEF best, free, distance
  <2>3. /\ band[best] \in QRect
        /\ band[best].w >= 0 => band[best].x >= screen.x /\ XEdge(band[best]) <= XEdge(screen)
        /\ band[best].h >= 0 => band[best].y >= screen.y /\ YEdge(band[best]) <= YEdge(screen)
        /\ \/ YEdge(band[best]) <= blocked.y \/ band[best].y >= YEdge(blocked)
           \/ XEdge(band[best]) <= blocked.x \/ band[best].x >= XEdge(blocked)
    BY <1>3, <1>8, <2>2, BandIsBeside
  <2>4. Fits(placed.rect, band[best])
    BY <1>2, <2>2 DEF Fits
  <2>5. /\ Pushed(placed.rect, band[best]) \in QRect
        /\ Pushed(placed.rect, band[best]).w = size.w
        /\ Pushed(placed.rect, band[best]).h = size.h
        /\ Within(Pushed(placed.rect, band[best]), band[best])
    BY <1>2, <2>3, <2>4, PushedIntoBand
  <2>6. place.rect = Pushed(placed.rect, band[best])
    BY <1>5, <1>8, <2>2
  <2>7. place.sides \in Sides
    <3>1. place.sides = [placed.sides EXCEPT !.band = best]
      BY <1>5, <1>8
    <3>2. best \in -1 .. 3
      BY <2>2
    <3> HIDE DEF place, placed
    <3> QED BY <1>2, <3>1, <3>2 DEF Sides
  <2> DEFINE b == band[best]
             r == place.rect
  <2>8. /\ r \in QRect /\ r.w = size.w /\ r.h = size.h /\ Within(r, b)
    BY <2>5, <2>6
  <2>9. b \in QRect /\ b.w >= size.w /\ b.h >= size.h
    BY <2>2, <2>3 DEF Fits
  <2>10. /\ b.x >= screen.x /\ b.x + b.w <= screen.x + screen.w
         /\ b.y >= screen.y /\ b.y + b.h <= screen.y + screen.h
    <3>1. b.w >= 0 /\ b.h >= 0
      BY <1>1, <2>9 DEF QRect
    <3> QED BY <2>3, <3>1 DEF XEdge, YEdge
  <2>11. ~Intersects(r, blocked)
    <3>1. \/ YEdge(r) <= blocked.y \/ r.y >= YEdge(blocked)
          \/ XEdge(r) <= blocked.x \/ r.x >= XEdge(blocked)
      <4>1. /\ XEdge(r) \in Int /\ YEdge(r) \in Int /\ r.x \in Int /\ r.y \in Int
            /\ XEdge(b) \in Int /\ YEdge(b) \in Int /\ b.x \in Int /\ b.y \in Int
            /\ XEdge(blocked) \in Int /\ YEdge(blocked) \in Int
            /\ blocked.x \in Int /\ blocked.y \in Int
        BY <1>3, <2>8, <2>9 DEF QRect, XEdge, YEdge
      <4>2. r.x >= b.x /\ r.y >= b.y /\ XEdge(r) <= XEdge(b) /\ YEdge(r) <= YEdge(b)
        BY <2>8 DEF Within
      <4>3. \/ YEdge(b) <= blocked.y \/ b.y >= YEdge(blocked)
            \/ XEdge(b) <= blocked.x \/ b.x >= XEdge(blocked)
        BY <2>3
      <4> HIDE DEF r, b, blocked
      <4> QED BY <4>1, <4>2, <4>3
    <3> HIDE DEF r, blocked
    <3> QED BY <1>3, <2>8, <3>1, ApartIsDisjoint
  <2>12. /\ r.x \in Int /\ r.y \in Int /\ r.w \in Int /\ r.h \in Int
         /\ b.x \in Int /\ b.y \in Int /\ b.w \in Int /\ b.h \in Int
         /\ r.x >= b.x /\ r.y >= b.y /\ r.x + r.w <= b.x + b.w /\ r.y + r.h <= b.y + b.h
    BY <2>8, <2>9 DEF QRect, Within, XEdge, YEdge
  <2>13. /\ r.x >= screen.x /\ r.y >= screen.y
         /\ r.x + r.w <= screen.x + screen.w /\ r.y + r.h <= screen.y + screen.h
    <3> HIDE DEF r, b
    <3> QED BY <1>1, <2>10, <2>12
  <2>14. /\ size.w >= screen.w => r.x = screen.x
         /\ size.h >= screen.h => r.y = screen.y
    <3>1. r.w = size.w /\ r.h = size.h
      BY <2>8
    <3> HIDE DEF r, b
    <3>2. size.w >= screen.w => r.x <= screen.x
      BY <1>1, <2>12, <2>13, <3>1
    <3>3. size.h >= screen.h => r.y <= screen.y
      BY <1>1, <2>12, <2>13, <3>1
    <3> QED BY <1>1, <2>12, <2>13, <3>2, <3>3
  <2>15. ~Intersects(r, avoid)
    <3>1. Within(r, screen)
      <4> HIDE DEF r
      <4> QED BY <2>13 DEF Within, XEdge, YEdge
    <3> HIDE DEF r
    <3> QED BY <2>8, <2>11, <3>1, InsideMeetsPart
  <2>16. /\ size.w <= screen.w => r.x + size.w <= screen.x + screen.w
         /\ size.h <= screen.h => r.y + size.h <= screen.y + screen.h
    BY <2>8, <2>13
  <2> HIDE DEF place, placed, band, blocked, b
  <2> QED BY <2>7, <2>8, <2>13, <2>14, <2>15, <2>16
<1> QED BY <1>7, <1>8

-----------------------------------------------------------------------------
(* The members of the card.                                                  *)

(* The part of a theme that is a value of its own type.                      *)
ThemeOk(theme) == theme.mode \in Modes /\ theme.layout \in Layout

(* The size of the card is that of its model, laid out by the settings.      *)
SizeOf(c, pinned, theme) == Size[<<c.model, pinned, theme.layout>>]
Sized(c, theme) ==
    /\ c.rect.w = SizeOf(c, c.pinned, theme).w
    /\ c.rect.h = SizeOf(c, c.pinned, theme).h

(* The corner of the card lies on the screen, and all of one that is not     *)
(* pinned once it was placed in the size it has.                             *)
OnItsScreen(c, theme) ==
    LET screen == Geometry[c.screen]
        size == SizeOf(c, FALSE, theme)
    IN  /\ c.rect.x >= screen.x /\ c.rect.y >= screen.y
        /\ c.rect.x + 1 <= screen.x + screen.w /\ c.rect.y + 1 <= screen.y + screen.h
        /\ PlacedSince(c) =>
              /\ size.w <= screen.w => c.rect.x + size.w <= screen.x + screen.w
              /\ size.h <= screen.h => c.rect.y + size.h <= screen.y + screen.h

(* It is off the paragraph where there is room.                              *)
Bare(c, theme) ==
    [x |-> c.rect.x, y |-> c.rect.y, w |-> SizeOf(c, FALSE, theme).w, h |-> SizeOf(c, FALSE, theme).h]
Clear(c, theme) == theme.avoidsText /\ Roomy(c, theme) => ~Intersects(Bare(c, theme), c.avoid)
OffText(c, theme) == Up(c) /\ PlacedSince(c) => Clear(c, theme)

CardOk(c, theme) ==
    /\ c \in Card
    /\ Sized(c, theme)
    /\ c.hiding => c.visible
    /\ c.visible => /\ c.model # NoContent
                    /\ OnItsScreen(c, theme)
                    /\ theme.layerShell => c.surface = c.screen

(* A card has a positive size in every layout, and pinned no smaller a one   *)
(* where it says something.                                                  *)
LEMMA SizeType ==
    ASSUME NEW m \in Content \cup {NoContent}, NEW pinned \in BOOLEAN, NEW l \in Layout
    PROVE  /\ Size[<<m, pinned, l>>].w \in Nat \ {0} /\ Size[<<m, pinned, l>>].h \in Nat \ {0}
           /\ m # NoContent => /\ Size[<<m, FALSE, l>>].w <= Size[<<m, TRUE, l>>].w
                               /\ Size[<<m, FALSE, l>>].h <= Size[<<m, TRUE, l>>].h
<1>1. <<m, pinned, l>> \in (Content \cup {NoContent}) \X BOOLEAN \X Layout
  OBVIOUS
<1>2. Size[<<m, pinned, l>>] \in [w : Nat \ {0}, h : Nat \ {0}]
  BY <1>1, PopupAssumption
<1>3. m # NoContent => Fits(Size[<<m, FALSE, l>>], Size[<<m, TRUE, l>>])
  BY PopupAssumption
<1> QED BY <1>2, <1>3 DEF Fits

(* updateSize() changes nothing but the size, and that to the model's.       *)
LEMMA ResizedCard ==
    ASSUME NEW c \in Card, NEW theme, ThemeOk(theme)
    PROVE  LET d == Resized(c, theme) IN
           /\ d \in Card /\ Sized(d, theme)
           /\ d.model = c.model /\ d.pinned = c.pinned
           /\ d.suppressed = c.suppressed /\ d.visible = c.visible
           /\ d.hiding = c.hiding /\ d.screen = c.screen
           /\ d.surface = c.surface /\ d.sides = c.sides /\ d.avoid = c.avoid
           /\ d.rect.x = c.rect.x /\ d.rect.y = c.rect.y
<1> DEFINE w == Size[<<c.model, c.pinned, theme.layout>>].w
           h == Size[<<c.model, c.pinned, theme.layout>>].h
           rect == [c.rect EXCEPT !.w = w, !.h = h]
           d == Resized(c, theme)
<1>1. w \in Int /\ h \in Int
  <2>1. /\ c.model \in Content \cup {NoContent} /\ c.pinned \in BOOLEAN
        /\ theme.layout \in Layout
    BY DEF Card, ThemeOk
  <2>2. w \in Nat \ {0} /\ h \in Nat \ {0}
    BY <2>1, SizeType
  <2> HIDE DEF w, h
  <2> QED BY <2>2
<1>2. rect \in QRect /\ rect.x = c.rect.x /\ rect.y = c.rect.y /\ rect.w = w /\ rect.h = h
  BY <1>1 DEF Card, QRect
<1>3. d = [c EXCEPT !.rect = rect]
  BY DEF Resized, Card
<1> HIDE DEF rect, d
<1>4. /\ d \in Card
      /\ d.model = c.model /\ d.pinned = c.pinned
      /\ d.suppressed = c.suppressed /\ d.visible = c.visible
      /\ d.hiding = c.hiding /\ d.screen = c.screen
      /\ d.surface = c.surface /\ d.sides = c.sides
      /\ d.avoid = c.avoid /\ d.rect = rect
  BY <1>2, <1>3 DEF Card
<1>5. Sized(d, theme)
  BY <1>2, <1>4 DEF Sized, SizeOf
<1> QED BY <1>2, <1>4, <1>5 DEF d

(* A card that is placed lies on the screen it is placed on, and off the     *)
(* paragraph.                                                                *)
LEMMA AnchoredCard ==
    ASSUME NEW theme, ThemeOk(theme), NEW c \in Card, Sized(c, theme), c.model # NoContent,
           NEW p \in [x : Int, y : Int], NEW s \in Screen
    PROVE  LET d == Anchored(c, p, s, theme) IN
           /\ d \in Card /\ Sized(d, theme) /\ OnItsScreen(d, theme) /\ Clear(d, theme)
           /\ d.model = c.model /\ d.pinned = c.pinned
           /\ d.suppressed = c.suppressed /\ d.visible = c.visible
           /\ d.hiding = c.hiding /\ d.screen = s
           /\ d.surface = c.surface /\ d.avoid = c.avoid
<1> DEFINE kept == IF c.visible /\ c.screen = s THEN c.sides ELSE NoSides
           avoid == IF theme.avoidsText THEN c.avoid ELSE EmptyRect
           size == [w |-> c.rect.w, h |-> c.rect.h]
           screen == Geometry[s]
           place == PlacedAvoiding(p, size, screen, theme.mode, avoid, kept)
           d == Anchored(c, p, s, theme)
           least == SizeOf(c, FALSE, theme)
           most == SizeOf(c, TRUE, theme)
<1> SUFFICES
      /\ d \in Card /\ Sized(d, theme) /\ OnItsScreen(d, theme) /\ Clear(d, theme)
      /\ d.model = c.model /\ d.pinned = c.pinned
      /\ d.suppressed = c.suppressed /\ d.visible = c.visible
      /\ d.hiding = c.hiding /\ d.screen = s
      /\ d.surface = c.surface /\ d.avoid = c.avoid
  OBVIOUS
<1>1. /\ c.model \in Content /\ c.pinned \in BOOLEAN /\ c.rect \in QRect
      /\ c.avoid \in QRect /\ c.sides \in Sides
  BY DEF Card
<1>2. /\ least.w \in Nat \ {0} /\ least.h \in Nat \ {0}
      /\ most.w \in Nat \ {0} /\ most.h \in Nat \ {0}
      /\ least.w <= most.w /\ least.h <= most.h
  BY <1>1, SizeType DEF SizeOf, ThemeOk
<1>3. /\ size.w = SizeOf(c, c.pinned, theme).w /\ size.h = SizeOf(c, c.pinned, theme).h
      /\ size.w \in Nat \ {0} /\ size.h \in Nat \ {0}
      /\ size \in [w : Nat, h : Nat]
  BY <1>1, SizeType DEF Sized, SizeOf, ThemeOk
<1>4. /\ screen \in QRect /\ screen.w > 0 /\ screen.h > 0
      /\ theme.mode \in Modes /\ avoid \in QRect /\ kept \in Sides
  BY <1>1, PopupAssumption DEF ThemeOk, EmptyRect, QRect, NoSides, Sides
<1>5. /\ place.rect \in QRect /\ place.rect.w = size.w /\ place.rect.h = size.h
      /\ place.sides \in Sides
      /\ place.rect.x >= screen.x /\ place.rect.y >= screen.y
      /\ size.w <= screen.w => place.rect.x + size.w <= screen.x + screen.w
      /\ size.h <= screen.h => place.rect.y + size.h <= screen.y + screen.h
      /\ size.w >= screen.w => place.rect.x = screen.x
      /\ size.h >= screen.h => place.rect.y = screen.y
      /\ Fits(size, screen)
         /\ (\E b \in 0 .. 3 : Fits(size, Band(screen, Intersected(avoid, screen))[b]))
         => ~Intersects(place.rect, avoid)
  <2> HIDE DEF size, screen, avoid, kept
  <2> QED BY <1>3, <1>4, PlacedOffText
<1>6. d = [c EXCEPT !.screen = s, !.rect = place.rect, !.sides = place.sides]
  BY DEF Anchored
<1> HIDE DEF place, d
<1>7. /\ d \in Card
      /\ d.model = c.model /\ d.pinned = c.pinned
      /\ d.suppressed = c.suppressed /\ d.visible = c.visible
      /\ d.hiding = c.hiding /\ d.screen = s /\ d.rect = place.rect
      /\ d.surface = c.surface /\ d.avoid = c.avoid
  BY <1>5, <1>6 DEF Card
<1>8. Sized(d, theme)
  BY <1>3, <1>5, <1>7 DEF Sized, SizeOf
<1>9. least.w <= size.w /\ least.h <= size.h /\ size.w <= most.w /\ size.h <= most.h
  <2>1. CASE c.pinned = TRUE
    <3>1. size.w = most.w /\ size.h = most.h
      BY <1>3, <2>1
    <3> HIDE DEF size, least, most
    <3> QED BY <1>2, <3>1
  <2>2. CASE c.pinned = FALSE
    <3>1. size.w = least.w /\ size.h = least.h
      BY <1>3, <2>2
    <3> HIDE DEF size, least, most
    <3> QED BY <1>2, <3>1
  <2> QED BY <1>1, <2>1, <2>2
<1>10. /\ screen.x \in Int /\ screen.y \in Int /\ screen.w \in Int /\ screen.h \in Int
       /\ place.rect.x \in Int /\ place.rect.y \in Int
  BY <1>4, <1>5 DEF QRect
<1>s. SizeOf(d, FALSE, theme) = least /\ SizeOf(d, TRUE, theme) = most /\ Geometry[d.screen] = screen
  BY <1>7 DEF SizeOf
<1>11. OnItsScreen(d, theme)
  <2> HIDE DEF size, screen, least
  <2>1. /\ place.rect.x >= screen.x /\ place.rect.y >= screen.y
        /\ least.w <= screen.w => place.rect.x + least.w <= screen.x + screen.w
        /\ least.h <= screen.h => place.rect.y + least.h <= screen.y + screen.h
    BY <1>2, <1>3, <1>5, <1>9, <1>10
  <2>2. /\ place.rect.x + 1 <= screen.x + screen.w
        /\ place.rect.y + 1 <= screen.y + screen.h
    BY <1>3, <1>4, <1>5, <1>10
  <2> QED BY <1>7, <1>s, <2>1, <2>2 DEF OnItsScreen
<1>12. Clear(d, theme)
  <2>1. SUFFICES ASSUME theme.avoidsText, Roomy(d, theme)
                 PROVE  ~Intersects(Bare(d, theme), d.avoid)
    BY DEF Clear
  <2>2. avoid = c.avoid
    BY <2>1
  <2>3. /\ Fits(most, screen)
        /\ \E b \in 0 .. 3 : Fits(most, Band(screen, Intersected(avoid, screen))[b])
    BY <1>7, <2>1, <2>2 DEF Roomy, SizeOf
  <2> HIDE DEF avoid, size, screen, least, most
  <2>4. ASSUME NEW r, r.w \in Int, r.h \in Int, Fits(most, r)
        PROVE  Fits(size, r)
    BY <1>2, <1>3, <1>9, <2>4 DEF Fits
  <2>5. Fits(size, screen)
    BY <1>10, <2>3, <2>4
  <2>6. \E b \in 0 .. 3 : Fits(size, Band(screen, Intersected(avoid, screen))[b])
    <3>1. PICK b \in 0 .. 3 :
            Fits(most, Band(screen, Intersected(avoid, screen))[b])
      BY <2>3
    <3>2. /\ Band(screen, Intersected(avoid, screen))[b].w \in Int
          /\ Band(screen, Intersected(avoid, screen))[b].h \in Int
      BY <1>4, IntersectedType, BandType
    <3> QED BY <2>4, <3>1, <3>2
  <2>7. ~Intersects(place.rect, avoid)
    BY <1>5, <2>5, <2>6
  <2>8. /\ Bare(d, theme) \in QRect
        /\ Bare(d, theme).x = place.rect.x /\ Bare(d, theme).y = place.rect.y
        /\ Bare(d, theme).w = least.w /\ Bare(d, theme).h = least.h
    <3> HIDE DEF least, most, size, screen
    <3>1. Bare(d, theme) = [x |-> place.rect.x, y |-> place.rect.y, w |-> least.w, h |-> least.h]
      BY <1>7, <1>s DEF Bare
    <3> QED BY <1>2, <1>10, <3>1 DEF QRect
  <2>9. Bare(d, theme).w <= place.rect.w /\ Bare(d, theme).h <= place.rect.h
    BY <1>5, <1>9, <2>8
  <2>10. ~Intersects(Bare(d, theme), avoid)
    BY <1>4, <1>5, <2>7, <2>8, <2>9, SmallerMeetsLess
  <2> QED BY <1>7, <2>2, <2>10
<1> QED BY <1>7, <1>8, <1>11, <1>12

(* Nothing but the fields named changes.                                     *)
Alike(c, d) ==
    /\ d.model = c.model /\ d.pinned = c.pinned /\ d.screen = c.screen
    /\ d.rect = c.rect /\ d.avoid = c.avoid /\ d.sides = c.sides

(* hidePopup() and the end of a fade leave the card where it is, and not up. *)
LEMMA HiddenCard ==
    ASSUME NEW c, NEW theme, CardOk(c, theme)
    PROVE  /\ CardOk(Hidden(c, theme), theme) /\ ~Up(Hidden(c, theme))
           /\ Alike(c, Hidden(c, theme)) /\ Hidden(c, theme).suppressed = c.suppressed
<1>1. c \in Card /\ c.visible \in BOOLEAN /\ c.hiding \in BOOLEAN
  BY DEF CardOk, Card
<1>2. CASE ~c.visible
  <2>1. Hidden(c, theme) = c
    BY <1>2 DEF Hidden
  <2> QED BY <1>1, <1>2, <2>1 DEF Alike, Up
<1>3. CASE c.visible /\ theme.fades
  <2> DEFINE d == [c EXCEPT !.hiding = TRUE]
  <2>1. Hidden(c, theme) = d
    BY <1>3 DEF Hidden, FadeStarted
  <2>2. /\ d \in Card /\ Alike(c, d) /\ d.suppressed = c.suppressed
        /\ d.hiding /\ d.visible = c.visible /\ d.surface = c.surface
    BY <1>1 DEF Card, Alike
  <2> HIDE DEF d
  <2>3. Sized(d, theme) /\ OnItsScreen(d, theme)
    BY <1>3, <2>2 DEF CardOk, Sized, SizeOf, OnItsScreen, PlacedSince, Alike
  <2> QED BY <1>3, <2>1, <2>2, <2>3 DEF CardOk, Up, Alike
<1>4. CASE c.visible /\ ~theme.fades
  <2> DEFINE d == [c EXCEPT !.hiding = FALSE, !.visible = FALSE]
  <2>1. Hidden(c, theme) = d
    BY <1>3, <1>4 DEF Hidden, FadeStarted
  <2>2. /\ d \in Card /\ Alike(c, d) /\ d.suppressed = c.suppressed
        /\ ~d.hiding /\ ~d.visible
    BY <1>1 DEF Card, Alike
  <2> HIDE DEF d
  <2>3. Sized(d, theme)
    BY <2>2 DEF CardOk, Sized, SizeOf, Alike
  <2> QED BY <2>1, <2>2, <2>3 DEF CardOk, Up
<1> QED BY <1>1, <1>2, <1>3, <1>4

LEMMA FadedOutCard ==
    ASSUME NEW c, NEW theme, CardOk(c, theme)
    PROVE  /\ CardOk(FadedOut(c), theme) /\ ~Up(FadedOut(c))
           /\ Alike(c, FadedOut(c)) /\ FadedOut(c).suppressed = c.suppressed
<1>1. c \in Card
  BY DEF CardOk
<1> DEFINE d == FadedOut(c)
<1>2. /\ d \in Card /\ Alike(c, d) /\ d.suppressed = c.suppressed
      /\ ~d.hiding /\ ~d.visible
  BY <1>1 DEF Card, Alike, FadedOut
<1> HIDE DEF d
<1>3. Sized(d, theme)
  BY <1>2 DEF CardOk, Sized, SizeOf, Alike
<1>4. CardOk(d, theme) /\ ~Up(d)
  BY <1>2, <1>3 DEF CardOk, Up
<1> QED BY <1>2, <1>4 DEF d

(* setSuppressed() keeps a card that is not told to go as it is.             *)
LEMMA SuppressedCard ==
    ASSUME NEW c, NEW theme, CardOk(c, theme), NEW on \in BOOLEAN
    PROVE  LET d == Suppressed(c, on, theme) IN
           /\ CardOk(d, theme) /\ Alike(c, d) /\ d.suppressed = on
           /\ ~on \/ c.pinned => d.visible = c.visible /\ d.hiding = c.hiding
           /\ on /\ ~c.pinned => ~Up(d)
<1> DEFINE set == [c EXCEPT !.suppressed = on]
           d == Suppressed(c, on, theme)
<1> SUFFICES
      /\ CardOk(d, theme) /\ Alike(c, d) /\ d.suppressed = on
      /\ ~on \/ c.pinned => d.visible = c.visible /\ d.hiding = c.hiding
      /\ on /\ ~c.pinned => ~Up(d)
  OBVIOUS
<1>1. c \in Card
  BY DEF CardOk
<1>2. /\ set \in Card /\ Alike(c, set) /\ set.suppressed = on
      /\ set.visible = c.visible /\ set.hiding = c.hiding /\ set.surface = c.surface
  BY <1>1 DEF Card, Alike
<1>3. d = IF on /\ ~c.pinned THEN Hidden(set, theme) ELSE set
  BY DEF Suppressed
<1> HIDE DEF set, d
<1>4. Sized(set, theme) /\ (OnItsScreen(c, theme) => OnItsScreen(set, theme))
  BY <1>2 DEF CardOk, Sized, SizeOf, OnItsScreen, PlacedSince, Alike
<1>5. CardOk(set, theme)
  BY <1>2, <1>4 DEF CardOk, Alike
<1>6. /\ CardOk(Hidden(set, theme), theme) /\ ~Up(Hidden(set, theme))
      /\ Alike(set, Hidden(set, theme)) /\ Hidden(set, theme).suppressed = on
  BY <1>2, <1>5, HiddenCard
<1> QED BY <1>2, <1>3, <1>5, <1>6 DEF Alike

(* setPinned() keeps a card on its screen, in the size of its new state, and *)
(* ends a fade.                                                              *)
LEMMA PinnedCard ==
    ASSUME NEW c, NEW theme, CardOk(c, theme), ThemeOk(theme), NEW on \in BOOLEAN
    PROVE  LET d == Pinned(c, on, theme) IN
           /\ CardOk(d, theme)
           /\ d.model = c.model /\ d.screen = c.screen /\ d.avoid = c.avoid
           /\ d.rect.x = c.rect.x /\ d.rect.y = c.rect.y
           /\ d.visible = c.visible /\ d.suppressed = c.suppressed /\ d.sides = c.sides
           /\ d.hiding = c.hiding \/ ~d.hiding
<1> DEFINE f0 == [c EXCEPT !.pinned = on, !.hiding = FALSE]
           f == Resized(f0, theme)
           g == Mapped(f)
           d == Pinned(c, on, theme)
<1> SUFFICES
      /\ CardOk(d, theme)
      /\ d.model = c.model /\ d.screen = c.screen /\ d.avoid = c.avoid
      /\ d.rect.x = c.rect.x /\ d.rect.y = c.rect.y
      /\ d.visible = c.visible /\ d.suppressed = c.suppressed /\ d.sides = c.sides
      /\ d.hiding = c.hiding \/ ~d.hiding
  OBVIOUS
<1>1. c \in Card
  BY DEF CardOk
<1>2. /\ f0 \in Card /\ f0.model = c.model /\ f0.pinned = on /\ f0.screen = c.screen
      /\ f0.rect = c.rect /\ f0.avoid = c.avoid /\ f0.visible = c.visible
      /\ f0.suppressed = c.suppressed /\ f0.hiding = FALSE /\ f0.sides = c.sides
  BY <1>1 DEF Card
<1>3. d = IF c.pinned = on THEN c ELSE IF c.visible THEN g ELSE f
  BY DEF Pinned
<1> HIDE DEF f0, d
<1>4. /\ f \in Card /\ Sized(f, theme) /\ f.model = c.model /\ f.screen = c.screen
      /\ f.rect.x = c.rect.x /\ f.rect.y = c.rect.y /\ f.avoid = c.avoid
      /\ f.visible = c.visible /\ f.suppressed = c.suppressed /\ f.hiding = FALSE
      /\ f.sides = c.sides
  BY <1>2, ResizedCard
<1> HIDE DEF f
<1>5. /\ g \in Card /\ g.model = f.model /\ g.screen = f.screen /\ g.pinned = f.pinned
      /\ g.rect = f.rect /\ g.avoid = f.avoid /\ g.surface = f.screen
      /\ g.visible = TRUE /\ g.suppressed = f.suppressed /\ g.hiding = f.hiding
      /\ g.sides = f.sides
  BY <1>4 DEF Mapped, Card
<1> HIDE DEF g
<1>6. Sized(g, theme)
  BY <1>4, <1>5 DEF Sized, SizeOf
<1>7. OnItsScreen(c, theme) => OnItsScreen(g, theme)
  BY <1>4, <1>5 DEF OnItsScreen, SizeOf, PlacedSince
<1>8. CASE c.pinned = on
  BY <1>3, <1>8
<1>9. CASE c.pinned # on /\ c.visible
  BY <1>3, <1>4, <1>5, <1>6, <1>7, <1>9 DEF CardOk
<1>10. CASE c.pinned # on /\ ~c.visible
  BY <1>3, <1>4, <1>10 DEF CardOk
<1> QED BY <1>8, <1>9, <1>10

(* applyTheme() and applyRenderOptions() take no card away and move none,    *)
(* and leave it to be placed in its new size.                                *)
LEMMA ThemedCard ==
    ASSUME NEW c, NEW old, CardOk(c, old),
           NEW theme, ThemeOk(theme), theme.layerShell = old.layerShell
    PROVE  LET d == Themed(c, theme) IN
           /\ CardOk(d, theme) /\ ~PlacedSince(d)
           /\ d.model = c.model /\ d.pinned = c.pinned /\ d.suppressed = c.suppressed
           /\ d.visible = c.visible /\ d.hiding = c.hiding
           /\ d.rect.x = c.rect.x /\ d.rect.y = c.rect.y
<1> DEFINE d0 == [c EXCEPT !.sides = NoSides]
           d == Themed(c, theme)
<1>1. c \in Card
  BY DEF CardOk
<1>2. /\ d0 \in Card /\ d0.model = c.model /\ d0.pinned = c.pinned /\ d0.screen = c.screen
      /\ d0.rect = c.rect /\ d0.avoid = c.avoid /\ d0.visible = c.visible
      /\ d0.suppressed = c.suppressed /\ d0.hiding = c.hiding /\ d0.surface = c.surface
      /\ d0.sides = NoSides
  <2>1. NoSides \in Sides
    BY DEF NoSides, Sides
  <2> QED BY <1>1, <2>1 DEF Card
<1>3. d = Resized(d0, theme)
  BY DEF Themed
<1> HIDE DEF d0, d
<1>4. /\ d \in Card /\ Sized(d, theme) /\ d.model = c.model /\ d.pinned = c.pinned
      /\ d.screen = c.screen /\ d.rect.x = c.rect.x /\ d.rect.y = c.rect.y
      /\ d.visible = c.visible /\ d.hiding = c.hiding /\ d.sides = NoSides
      /\ d.suppressed = c.suppressed /\ d.surface = c.surface
  BY <1>2, <1>3, ResizedCard
<1>5. ~PlacedSince(d)
  BY <1>4 DEF PlacedSince, NoSides
<1>6. OnItsScreen(c, old) => OnItsScreen(d, theme)
  BY <1>4, <1>5 DEF OnItsScreen
<1>7. CardOk(d, theme)
  BY <1>4, <1>6 DEF CardOk
<1> QED BY <1>4, <1>5, <1>7 DEF d

(* showNear() puts a card that says something, and is neither held back nor  *)
(* frozen, up, on the screen and off the paragraph, whatever size it has     *)
(* been given since it was placed last.                                      *)
LEMMA ShownAfresh ==
    ASSUME NEW theme, ThemeOk(theme), theme.layerShell \in BOOLEAN,
           NEW c \in Card, Sized(c, theme), ~c.suppressed, c.model # NoContent, ~Frozen(c),
           NEW p \in [x : Int, y : Int], NEW s \in Screen
    PROVE  LET d == ShownNear(c, p, s, theme) IN
           /\ CardOk(d, theme) /\ d.model = c.model /\ d.pinned = c.pinned
           /\ d.avoid = c.avoid /\ d.suppressed = c.suppressed
           /\ Up(d) /\ OffText(d, theme)
<1> DEFINE r == Revived(c)
           shown == Anchored(r, p, s, theme)
           m == Mapped(shown)
           d == ShownNear(c, p, s, theme)
           maps == ~c.visible \/ (theme.layerShell /\ s # c.surface)
<1> SUFFICES
      /\ CardOk(d, theme) /\ d.model = c.model /\ d.pinned = c.pinned
      /\ d.avoid = c.avoid /\ d.suppressed = c.suppressed
      /\ Up(d) /\ OffText(d, theme)
  OBVIOUS
<1>a. c \in Card /\ Sized(c, theme)
  OBVIOUS
<1>b. d = IF maps THEN m ELSE shown
  BY DEF ShownNear
<1>1. /\ r \in Card /\ r.model = c.model /\ r.pinned = c.pinned /\ r.rect = c.rect
      /\ r.avoid = c.avoid /\ r.visible = c.visible /\ r.surface = c.surface
      /\ r.suppressed = c.suppressed /\ r.hiding = FALSE
  BY <1>a DEF Revived, Card
<1>2. Sized(r, theme)
  BY <1>a, <1>1 DEF Sized, SizeOf
<1> HIDE DEF r
<1>3. /\ shown \in Card /\ Sized(shown, theme) /\ OnItsScreen(shown, theme) /\ Clear(shown, theme)
      /\ shown.model = c.model /\ shown.pinned = c.pinned
      /\ shown.suppressed = c.suppressed /\ shown.visible = c.visible
      /\ shown.hiding = FALSE /\ shown.screen = s
      /\ shown.surface = c.surface /\ shown.avoid = c.avoid
  BY <1>1, <1>2, AnchoredCard
<1> HIDE DEF shown
<1>4. CASE maps
  <2>1. /\ m \in Card /\ m.model = c.model /\ m.pinned = c.pinned /\ m.rect = shown.rect
        /\ m.avoid = c.avoid /\ m.visible = TRUE /\ m.surface = s /\ m.screen = s
        /\ m.suppressed = c.suppressed /\ m.hiding = FALSE /\ m.sides = shown.sides
    BY <1>3 DEF Mapped, Card
  <2>2. d = m
    BY <1>b, <1>4
  <2> HIDE DEF m, d
  <2>3. Sized(m, theme) /\ OnItsScreen(m, theme)
    BY <1>3, <2>1 DEF Sized, SizeOf, OnItsScreen, PlacedSince
  <2>4. CardOk(m, theme) /\ Up(m)
    BY <2>1, <2>3 DEF CardOk, Up
  <2>5. Clear(m, theme)
    BY <1>3, <2>1 DEF Clear, Roomy, Bare, SizeOf
  <2> QED BY <2>1, <2>2, <2>4, <2>5 DEF OffText
<1>5. CASE ~maps
  <2>1. d = shown
    BY <1>b, <1>5
  <2>2. c.visible /\ (theme.layerShell => shown.surface = shown.screen)
    BY <1>3, <1>5
  <2> HIDE DEF d
  <2>3. CardOk(shown, theme) /\ Up(shown)
    BY <1>3, <2>2 DEF CardOk, Up
  <2> QED BY <1>3, <2>1, <2>3 DEF OffText
<1> QED BY <1>4, <1>5

(* showNear() leaves a card that is held back or frozen as it is; it puts    *)
(* any other that says something up, on the screen and off the paragraph.    *)
LEMMA ShownCard ==
    ASSUME NEW c, NEW theme, CardOk(c, theme), ThemeOk(theme), theme.layerShell \in BOOLEAN,
           NEW p \in [x : Int, y : Int], NEW s \in Screen
    PROVE  LET d == ShownNear(c, p, s, theme) IN
           /\ CardOk(d, theme) /\ d.model = c.model /\ d.pinned = c.pinned
           /\ d.avoid = c.avoid /\ d.suppressed = c.suppressed
           /\ c.suppressed \/ Frozen(c) => d = c
           /\ ~c.suppressed /\ ~Frozen(c) /\ c.model # NoContent => Up(d) /\ OffText(d, theme)
<1> DEFINE d == ShownNear(c, p, s, theme)
<1> SUFFICES
      /\ CardOk(d, theme) /\ d.model = c.model /\ d.pinned = c.pinned
      /\ d.avoid = c.avoid /\ d.suppressed = c.suppressed
      /\ c.suppressed \/ Frozen(c) => d = c
      /\ ~c.suppressed /\ ~Frozen(c) /\ c.model # NoContent => Up(d) /\ OffText(d, theme)
  OBVIOUS
<1>1. c \in Card /\ Sized(c, theme)
  BY DEF CardOk
<1>3. CASE c.suppressed
  BY <1>3 DEF ShownNear
<1>4. CASE ~c.suppressed /\ c.model = NoContent
  <2>1. d = Hidden(c, theme)
    BY <1>4 DEF ShownNear
  <2>2. ~Frozen(c)
    BY <1>4 DEF CardOk, Frozen
  <2> HIDE DEF d
  <2> QED BY <1>4, <2>1, <2>2, HiddenCard DEF Alike
<1>5. CASE ~c.suppressed /\ c.model # NoContent /\ Frozen(c)
  BY <1>5 DEF ShownNear
<1>6. CASE ~c.suppressed /\ c.model # NoContent /\ ~Frozen(c)
  <2>1. /\ CardOk(d, theme) /\ d.model = c.model /\ d.pinned = c.pinned
        /\ d.avoid = c.avoid /\ d.suppressed = c.suppressed
        /\ Up(d) /\ OffText(d, theme)
    BY <1>1, <1>6, ShownAfresh
  <2> QED BY <1>6, <2>1
<1> QED BY <1>3, <1>4, <1>5, <1>6

-----------------------------------------------------------------------------
(* A hand that wavers between two points.                                    *)

(* What F changes is kept by F and by G; F and G take turns along a path.    *)
KeepsChanged(S, F, G) == \A v \in S : F[v] # v => F[F[v]] = F[v] /\ G[F[v]] = F[v]
Alternates(path, F, G) ==
    /\ path[2] = F[path[1]] /\ path[3] = G[path[2]] /\ path[4] = F[path[3]]
    /\ path[5] = G[path[4]] /\ path[6] = F[path[5]] /\ path[7] = G[path[6]]

LEMMA ChoicesLength ==
    ASSUME NEW S, NEW n \in Nat, NEW path \in [1 .. n -> S]
    PROVE  path \in Seq(S) /\ Len(path) = n
OBVIOUS

(* Two choices between which a hand goes back and forth, where a choice that *)
(* was changed is kept at both points, change at most once, and at the third *)
(* sample have changed if they ever do.                                      *)
Rested(path) == \A i \in {4, 5, 6, 7} : path[i] = path[3]

LEMMA KeptChoiceTurnsOnce ==
    ASSUME NEW S, NEW F \in [S -> S], NEW G \in [S -> S],
           KeepsChanged(S, F, G), KeepsChanged(S, G, F),
           NEW path \in [1 .. 7 -> S], Alternates(path, F, G)
    PROVE  TurnsAtMostOnce(path) /\ Rested(path)
<1> DEFINE turns == {i \in 1 .. Len(path) - 1 : path[i] # path[i + 1]}
<1>0. /\ path[1] \in S /\ path[2] \in S
      /\ \A i \in turns :
            \/ i = 1 /\ path[1] # path[2]
            \/ i = 2 /\ path[2] # path[3]
            \/ i = 3 /\ path[3] # path[4]
            \/ i = 4 /\ path[4] # path[5]
            \/ i = 5 /\ path[5] # path[6]
            \/ i = 6 /\ path[6] # path[7]
  <2>1. path[1] \in S /\ path[2] \in S
    OBVIOUS
  <2>2. Len(path) = 7
    BY ChoicesLength
  <2>3. turns = {i \in 1 .. 6 : path[i] # path[i + 1]}
    BY <2>2
  <2>4. \A i \in 1 .. 6 : i = 1 \/ i = 2 \/ i = 3 \/ i = 4 \/ i = 5 \/ i = 6
    OBVIOUS
  <2> HIDE DEF turns
  <2> QED BY <2>1, <2>3, <2>4
<1> HIDE DEF turns
<1>1. path[2] = F[path[1]]
  BY Zenon DEF Alternates
<1>2. path[3] = G[path[2]]
  BY Zenon DEF Alternates
<1>3. path[4] = F[path[3]]
  BY Zenon DEF Alternates
<1>4. path[5] = G[path[4]]
  BY Zenon DEF Alternates
<1>5. path[6] = F[path[5]]
  BY Zenon DEF Alternates
<1>6. path[7] = G[path[6]]
  BY Zenon DEF Alternates
(* What is kept from the third choice on is kept to the end.                 *)
<1>7. ASSUME F[path[3]] = path[3], G[path[3]] = path[3]
      PROVE  path[3] = path[4] /\ path[4] = path[5] /\ path[5] = path[6] /\ path[6] = path[7]
  <2>1. path[4] = path[3]
    BY <1>3, <1>7
  <2>2. path[5] = path[3]
    BY <1>4, <1>7, <2>1
  <2>3. path[6] = path[3]
    BY <1>5, <1>7, <2>2
  <2>4. path[7] = path[3]
    BY <1>6, <1>7, <2>3
  <2> QED BY <2>1, <2>2, <2>3, <2>4
<1>8. (\E k \in {1, 2} : turns \subseteq {k}) /\ Rested(path)
  <2>1. CASE path[2] # path[1]
    <3>1. F[path[2]] = path[2] /\ G[path[2]] = path[2]
      BY <1>0, <1>1, <2>1 DEF KeepsChanged
    <3>2. path[3] = path[2]
      BY <1>2, <3>1
    <3>3. turns \subseteq {1}
      BY <1>0, <1>7, <3>1, <3>2
    <3>4. Rested(path)
      BY <1>7, <3>1, <3>2 DEF Rested
    <3> QED BY <3>3, <3>4
  <2>2. CASE path[2] = path[1] /\ path[3] # path[2]
    <3>1. F[path[3]] = path[3] /\ G[path[3]] = path[3]
      BY <1>0, <1>2, <2>2 DEF KeepsChanged
    <3>2. turns \subseteq {2}
      BY <1>0, <1>7, <2>2, <3>1
    <3>3. Rested(path)
      BY <1>7, <3>1 DEF Rested
    <3> QED BY <3>2, <3>3
  <2>3. CASE path[2] = path[1] /\ path[3] = path[2]
    <3>1. F[path[3]] = path[3] /\ G[path[3]] = path[3]
      BY <1>1, <1>2, <2>3
    <3>2. turns \subseteq {1}
      BY <1>0, <1>7, <2>3, <3>1
    <3>3. Rested(path)
      BY <1>7, <3>1 DEF Rested
    <3> QED BY <3>2, <3>3
  <2> QED BY <2>1, <2>2, <2>3
<1>9. PICK k \in {1, 2} : turns \subseteq {k}
  BY <1>8
<1>10. IsFiniteSet({k}) /\ Cardinality({k}) = 1
  BY FS_Singleton
<1>11. IsFiniteSet(turns) /\ Cardinality(turns) <= Cardinality({k})
  BY <1>9, <1>10, FS_Subset
<1> QED BY <1>8, <1>10, <1>11 DEF TurnsAtMostOnce, turns

(* A side of the pointer that was changed at one point is kept at every      *)
(* point within the hysteresis of it.                                        *)
LEMMA LeftIsKept ==
    ASSUME NEW p \in [x : Int, y : Int], NEW q \in [x : Int, y : Int],
           p.x - q.x < Hysteresis, q.x - p.x < Hysteresis,
           NEW size, size.w \in Int, NEW screen \in QRect, NEW mode \in Modes,
           NEW last, last.known, NEW next, next.known
    PROVE  /\ ~last.left /\ FlipsLeft(p, size, screen, mode, last) /\ next.left
              => FlipsLeft(q, size, screen, mode, next)
           /\ last.left /\ ~FlipsLeft(p, size, screen, mode, last) /\ ~next.left
              => ~FlipsLeft(q, size, screen, mode, next)
<1>1. /\ p.x \in Int /\ q.x \in Int /\ Hysteresis \in Nat /\ Offset \in Nat
      /\ XEdge(screen) \in Int
  BY PlacementAssumption DEF QRect, XEdge
<1> QED BY <1>1 DEF FlipsLeft

(* Of the vertical axis in VisualNovel where a third of the screen is no     *)
(* less than the hysteresis.                                                 *)
LEMMA BelowIsKept ==
    ASSUME NEW y \in Int, NEW z \in Int, y - z < Hysteresis, z - y < Hysteresis,
           NEW height \in Int, 3 * Hysteresis <= height,
           NEW last, last.known, NEW next, next.known
    PROVE  /\ last.above /\ Below(y, height, last) /\ ~next.above => Below(z, height, next)
           /\ ~last.above /\ ~Below(y, height, last) /\ next.above => ~Below(z, height, next)
<1>1. Hysteresis \in Nat
  BY PlacementAssumption
<1>2. PICK third \in Int : third = height \div 3 /\ 3 * third <= height /\ height < 3 * third + 3
  BY <1>1
<1>3. PICK half \in Int : half = height \div 2 /\ 2 * half <= height /\ height < 2 * half + 2
  BY <1>1
<1>4. PICK thirds \in Int : thirds = (2 * height) \div 3 /\ 3 * thirds <= 2 * height
                            /\ 2 * height < 3 * thirds + 3
  BY <1>1
<1>5. /\ Below(y, height, last) <=>
            y <= thirds /\ (y < third \/ (IF last.above THEN y < half - Hysteresis ELSE y < half + Hysteresis))
      /\ Below(z, height, next) <=>
            z <= thirds /\ (z < third \/ (IF next.above THEN z < half - Hysteresis ELSE z < half + Hysteresis))
  BY <1>2, <1>3, <1>4 DEF Below
<1>6. third >= Hysteresis /\ thirds >= 2 * third /\ half >= third /\ half <= thirds
  BY <1>1, <1>2, <1>3, <1>4
<1> QED BY <1>1, <1>5, <1>6

LEMMA AboveIsKept ==
    ASSUME NEW p \in [x : Int, y : Int], NEW q \in [x : Int, y : Int],
           p.y - q.y < Hysteresis, q.y - p.y < Hysteresis,
           NEW size, size.h \in Int, NEW screen \in QRect, 3 * Hysteresis <= screen.h,
           NEW mode \in Modes, NEW last, last.known, NEW next, next.known
    PROVE  /\ ~last.above /\ FlipsAbove(p, size, screen, mode, last) /\ next.above
              => FlipsAbove(q, size, screen, mode, next)
           /\ last.above /\ ~FlipsAbove(p, size, screen, mode, last) /\ ~next.above
              => ~FlipsAbove(q, size, screen, mode, next)
<1>1. /\ p.y \in Int /\ q.y \in Int /\ Hysteresis \in Nat /\ Offset \in Nat
      /\ YEdge(screen) \in Int /\ screen.y \in Int /\ screen.h \in Int
  BY PlacementAssumption DEF QRect, YEdge
<1>2. CASE mode = "VisualNovel"
  <2> DEFINE y == p.y - screen.y
             z == q.y - screen.y
  <2>1. y \in Int /\ z \in Int /\ y - z < Hysteresis /\ z - y < Hysteresis
    BY <1>1
  <2>2. /\ FlipsAbove(p, size, screen, mode, last) <=> ~Below(y, screen.h, last)
        /\ FlipsAbove(q, size, screen, mode, next) <=> ~Below(z, screen.h, next)
    BY <1>2 DEF FlipsAbove
  <2> HIDE DEF y, z
  <2> QED BY <1>1, <2>1, <2>2, BelowIsKept
<1>3. CASE mode # "VisualNovel"
  BY <1>1, <1>3 DEF FlipsAbove
<1> QED BY <1>2, <1>3

(* The sides of the pointer a placement takes are those of the mode.         *)
LEMMA SidesOfMode ==
    ASSUME NEW cursor \in [x : Int, y : Int], NEW size \in [w : Nat, h : Nat],
           NEW screen \in QRect, NEW mode \in Modes, NEW avoid \in QRect, NEW sides \in Sides
    PROVE  LET taken == PlacedAvoiding(cursor, size, screen, mode, avoid, sides).sides IN
           /\ taken.known
           /\ taken.left = FlipsLeft(cursor, size, screen, mode, sides)
           /\ taken.above = FlipsAbove(cursor, size, screen, mode, sides)
<1> DEFINE placed == Placed(cursor, size, screen, mode, sides)
           blocked == Intersected(avoid, screen)
           band == Band(screen, blocked)
           free == {b \in 0 .. 3 : Fits(size, band[b])}
           rects == [b \in 0 .. 3 |-> Pushed(placed.rect, band[b])]
           distance == [b \in 0 .. 3 |-> Squared(rects[b], placed.rect)]
           kept == IF sides.known THEN sides.band ELSE -1
           best == NearestBand(free, distance, kept)
           stays == Empty(avoid) \/ ~Intersects(placed.rect, avoid) \/ Empty(blocked) \/ free = {}
           place == PlacedAvoiding(cursor, size, screen, mode, avoid, sides)
           left == FlipsLeft(cursor, size, screen, mode, sides)
           above == FlipsAbove(cursor, size, screen, mode, sides)
<1>0. left \in BOOLEAN /\ above \in BOOLEAN
  BY DEF FlipsLeft, FlipsAbove
<1>1. placed.sides = [known |-> TRUE, left |-> left, above |-> above, band |-> -1]
  BY DEF Placed
<1>2. place = IF stays THEN placed
              ELSE [rect |-> rects[best], sides |-> [placed.sides EXCEPT !.band = best]]
  <2>1. place = IF stays THEN placed ELSE PlacedAside(placed, band, free, kept)
    BY DEF PlacedAvoiding
  <2> HIDE DEF placed, band, free, kept, stays, place
  <2> QED BY <2>1 DEF PlacedAside
<1>3. /\ placed.sides \in Sides /\ placed.sides.known
      /\ placed.sides.left = left /\ placed.sides.above = above
  <2> HIDE DEF placed, left, above
  <2> QED BY <1>0, <1>1 DEF Sides
<1> HIDE DEF placed, rects, best, stays, place, left, above
<1>4. place.sides = placed.sides \/ place.sides = [placed.sides EXCEPT !.band = best]
  BY <1>2
<1>5. place.sides.known /\ place.sides.left = left /\ place.sides.above = above
  <2>1. CASE place.sides = placed.sides
    BY <1>3, <2>1
  <2>2. CASE place.sides = [placed.sides EXCEPT !.band = best]
    BY <1>3, <2>2 DEF Sides
  <2> QED BY <1>4, <2>1, <2>2
<1> QED BY <1>5 DEF left, above, place

(* The centre of a card moves with it, and never by more.                    *)
LEMMA HalfSteps ==
    ASSUME NEW u \in Int, NEW v \in Int, NEW s \in Int, u <= v
    PROVE  /\ Half(2 * u + s) \in Int /\ Half(2 * v + s) \in Int
           /\ Half(2 * u + s) <= Half(2 * v + s)
           /\ Half(2 * v + s) - Half(2 * u + s) <= v - u
<1>1. ASSUME NEW n \in Int
      PROVE  /\ Half(n) \in Int
             /\ n >= 0 => 2 * Half(n) <= n /\ n <= 2 * Half(n) + 1
             /\ n < 0 => 2 * Half(n) - 1 <= n /\ n <= 2 * Half(n)
  BY DEF Half
<1> DEFINE m == 2 * u + s
           n == 2 * v + s
           half == Half(m)
           other == Half(n)
<1>2. m \in Int /\ n \in Int /\ n - m = 2 * (v - u)
  OBVIOUS
<1>3. /\ half \in Int /\ other \in Int
      /\ m >= 0 => 2 * half <= m /\ m <= 2 * half + 1
      /\ m < 0 => 2 * half - 1 <= m /\ m <= 2 * half
      /\ n >= 0 => 2 * other <= n /\ n <= 2 * other + 1
      /\ n < 0 => 2 * other - 1 <= n /\ n <= 2 * other
  BY <1>1, <1>2
<1> HIDE DEF half, other
<1>4. half <= other /\ other - half <= v - u
  BY <1>2, <1>3
<1> QED BY <1>3, <1>4 DEF half, other

LEMMA RoundedBounds ==
    ASSUME NEW n \in Int, NEW d \in Int, d > 0
    PROVE  /\ Rounded(n, d) \in Int
           /\ 2 * (d * Rounded(n, d)) <= 2 * n + d
           /\ 2 * n - d <= 2 * (d * Rounded(n, d))
<1>1. CASE n >= 0
  <2> DEFINE r == (2 * n + d) \div (2 * d)
  <2>1. r \in Int /\ (2 * d) * r <= 2 * n + d /\ 2 * n + d < (2 * d) * r + 2 * d
    OBVIOUS
  <2>2. Rounded(n, d) = r
    BY <1>1 DEF Rounded
  <2> HIDE DEF r
  <2>3. (2 * d) * r = 2 * (d * r) /\ d * r \in Int
    BY <2>1
  <2> QED BY <2>1, <2>2, <2>3
<1>2. CASE n < 0
  <2> DEFINE r == (d - 2 * n) \div (2 * d)
  <2>1. r \in Int /\ (2 * d) * r <= d - 2 * n /\ d - 2 * n < (2 * d) * r + 2 * d
    BY <1>2
  <2>2. Rounded(n, d) = -r
    BY <1>2 DEF Rounded
  <2> HIDE DEF r
  <2>3. (2 * d) * r = 2 * (d * r) /\ d * r \in Int /\ d * (-r) = -(d * r)
    BY <2>1
  <2> QED BY <2>1, <2>2, <2>3
<1> QED BY <1>1, <1>2

(* The anchor of VisualNovel as a fraction over the width of the screen.     *)
AnchorValue(x, width, screen) ==
    2 * (x * screen.w) + 2 * (Offset * screen.w)
    - 2 * ((width + 2 * Offset) * Lesser(x - screen.x, screen.w))

LEMMA AnchorBounds ==
    ASSUME NEW cursor \in [x : Int, y : Int], NEW width \in Int, NEW screen \in QRect, screen.w > 0
    PROVE  /\ Anchor(cursor, width, screen) \in Int /\ AnchorValue(cursor.x, width, screen) \in Int
           /\ 2 * (screen.w * Anchor(cursor, width, screen)) <= AnchorValue(cursor.x, width, screen) + screen.w
           /\ AnchorValue(cursor.x, width, screen) - screen.w <= 2 * (screen.w * Anchor(cursor, width, screen))
<1> DEFINE x == cursor.x
           full == screen.w
           c == x - screen.x
           beyond == Greater(0, Lesser(full, 2 * c - full))
           value == AnchorValue(x, width, screen)
           anchor == Anchor(cursor, width, screen)
<1> SUFFICES /\ anchor \in Int /\ value \in Int
             /\ 2 * (full * anchor) <= value + full /\ value - full <= 2 * (full * anchor)
  OBVIOUS
<1>1. /\ x \in Int /\ full \in Int /\ full > 0 /\ c \in Int /\ Offset \in Int
      /\ value \in Int
  BY PlacementAssumption DEF QRect, AnchorValue, Lesser
<1>2. CASE 2 * c < full
  <2> DEFINE n == x * full + Offset * (full - 2 * c) - width * c
  <2>1. anchor = Rounded(n, full)
    BY <1>1, <1>2 DEF Anchor
  <2>2. 2 * n = value
    <3>1. Lesser(c, full) = c
      BY <1>1, <1>2 DEF Lesser
    <3>2. /\ Offset * (full - 2 * c) = Offset * full - 2 * (Offset * c)
          /\ (width + 2 * Offset) * c = width * c + 2 * (Offset * c)
      BY <1>1
    <3>3. value = 2 * (x * full) + 2 * (Offset * full) - 2 * ((width + 2 * Offset) * c)
      BY <3>1 DEF AnchorValue
    <3>4. x * full \in Int /\ Offset * full \in Int /\ Offset * c \in Int /\ width * c \in Int
      BY <1>1
    <3> QED BY <3>2, <3>3, <3>4
  <2>3. n \in Int
    BY <1>1
  <2> HIDE DEF n, anchor, value, full
  <2>4. /\ anchor \in Int /\ 2 * (full * anchor) <= 2 * n + full /\ 2 * n - full <= 2 * (full * anchor)
    BY <1>1, <2>1, <2>3, RoundedBounds
  <2> QED BY <2>2, <2>4, <1>1
<1>3. CASE 2 * c >= full
  <2> DEFINE n == 2 * x * full - width * (full - beyond) - 2 * (width + Offset) * beyond
  <2>1. anchor = Rounded(n, 2 * full)
    BY <1>1, <1>3 DEF Anchor
  <2>2. n = value /\ n \in Int
    <3>1. beyond \in Int /\ beyond = 2 * Lesser(c, full) - full /\ Lesser(c, full) \in Int
      BY <1>1, <1>3 DEF Lesser, Greater
    <3> DEFINE l == Lesser(c, full)
    <3>2. value = 2 * (x * full) + 2 * (Offset * full) - 2 * ((width + 2 * Offset) * l)
      BY DEF AnchorValue
    <3>3. n = 2 * x * full - width * (full - (2 * l - full)) - 2 * (width + Offset) * (2 * l - full)
      BY <3>1
    <3> HIDE DEF l, n, value, full, beyond
    <3>4. /\ width * (full - (2 * l - full)) = 2 * (width * full) - 2 * (width * l)
          /\ 2 * (width + Offset) * (2 * l - full)
               = 4 * (width * l) + 4 * (Offset * l) - 2 * (width * full) - 2 * (Offset * full)
          /\ (width + 2 * Offset) * l = width * l + 2 * (Offset * l)
          /\ 2 * x * full = 2 * (x * full)
      BY <1>1, <3>1 DEF l
    <3>5. /\ x * full \in Int /\ Offset * full \in Int /\ Offset * l \in Int /\ width * l \in Int
          /\ width * full \in Int
      BY <1>1, <3>1 DEF l
    <3> QED BY <3>2, <3>3, <3>4, <3>5
  <2> HIDE DEF n, anchor, value, full
  <2>3. /\ anchor \in Int
        /\ 2 * ((2 * full) * anchor) <= 2 * value + 2 * full
        /\ 2 * value - 2 * full <= 2 * ((2 * full) * anchor)
    BY <1>1, <2>1, <2>2, RoundedBounds
  <2>4. (2 * full) * anchor = 2 * (full * anchor) /\ full * anchor \in Int
    BY <1>1, <2>3
  <2> QED BY <1>1, <2>3, <2>4
<1> QED BY <1>1, <1>2, <1>3

(* The anchor moves with the pointer, and by one more at most where halves   *)
(* are rounded away from zero.                                               *)
LEMMA AnchorSteps ==
    ASSUME NEW p \in [x : Int, y : Int], NEW q \in [x : Int, y : Int], NEW k \in Nat,
           p.x - q.x <= k, q.x - p.x <= k,
           NEW width \in Nat, NEW screen \in QRect, width <= screen.w, 2 * Offset <= screen.w
    PROVE  /\ Anchor(p, width, screen) \in Int /\ Anchor(q, width, screen) \in Int
           /\ Anchor(p, width, screen) - Anchor(q, width, screen) <= k + 1
<1> DEFINE full == screen.w
           r == Anchor(p, width, screen)
           s == Anchor(q, width, screen)
           m == AnchorValue(p.x, width, screen)
           n == AnchorValue(q.x, width, screen)
<1>1. /\ p.x \in Int /\ q.x \in Int /\ full \in Int /\ screen.x \in Int /\ Offset \in Nat
  BY PlacementAssumption DEF QRect
<1>2. CASE full > 0
  <2>1. m - n <= 2 * (full * k)
    <3> DEFINE c == Lesser(p.x - screen.x, full)
               e == Lesser(q.x - screen.x, full)
               g == width + 2 * Offset
               dx == p.x - q.x
               dc == c - e
    <3>1. /\ g \in Int /\ g >= 0 /\ g <= 2 * full /\ c \in Int /\ e \in Int
          /\ dx \in Int /\ dc \in Int /\ dx <= k /\ -dx <= k
          /\ \/ dc >= 0 /\ dc <= dx
             \/ dc <= 0 /\ dc >= dx
      BY <1>1 DEF Lesser
    <3>2. m - n = 2 * (full * dx) - 2 * (g * dc)
      <4>1. /\ m = 2 * (p.x * full) + 2 * (Offset * full) - 2 * (g * c)
            /\ n = 2 * (q.x * full) + 2 * (Offset * full) - 2 * (g * e)
        BY DEF AnchorValue
      <4> HIDE DEF m, n, g, c, e
      <4>2. full * dx = p.x * full - q.x * full /\ g * dc = g * c - g * e
        BY <1>1, <3>1
      <4>3. /\ p.x * full \in Int /\ q.x * full \in Int /\ Offset * full \in Int
            /\ g * c \in Int /\ g * e \in Int
        BY <1>1, <3>1
      <4> QED BY <4>1, <4>2, <4>3
    <3> HIDE DEF m, n, g, c, e, dx, dc, full
    <3>3. /\ full * dx \in Int /\ g * dc \in Int /\ full * k \in Int
          /\ full * dx <= full * k /\ full * (-dx) <= full * k /\ full * (-dx) = -(full * dx)
      BY <1>1, <1>2, <3>1
    <3>4. CASE dc >= 0 /\ dc <= dx
      <4>1. g * dc >= 0
        BY <3>1, <3>4
      <4> QED BY <3>2, <3>3, <4>1
    <3>5. CASE dc <= 0 /\ dc >= dx
      <4>1. g * (-dc) <= (2 * full) * (-dc)
        BY <1>1, <3>1, <3>5
      <4>2. (2 * full) * (-dc) <= (2 * full) * (-dx)
        BY <1>1, <1>2, <3>1, <3>5
      <4>3. (2 * full) * (-dx) = -(2 * (full * dx)) /\ g * (-dc) = -(g * dc)
            /\ (2 * full) * (-dc) \in Int
        BY <1>1, <3>1
      <4> QED BY <3>2, <3>3, <4>1, <4>2, <4>3
    <3> QED BY <3>1, <3>4, <3>5
  <2>2. /\ r \in Int /\ s \in Int /\ m \in Int /\ n \in Int
        /\ 2 * (full * r) <= m + full /\ n - full <= 2 * (full * s)
    BY <1>2, AnchorBounds
  <2> HIDE DEF m, n, r, s, full
  <2>3. full * r - full * s <= full * k + full
    <3>1. full * r \in Int /\ full * s \in Int /\ full * k \in Int
      BY <1>1, <2>2
    <3> QED BY <1>1, <2>1, <2>2, <3>1
  <2>4. r - s <= k + 1
    <3>1. SUFFICES ASSUME r - s >= k + 2 PROVE FALSE
      BY <2>2
    <3>2. full * (r - s) >= full * (k + 2)
      BY <1>1, <1>2, <2>2, <3>1
    <3>3. full * (r - s) = full * r - full * s /\ full * (k + 2) = full * k + 2 * full
          /\ full * r \in Int /\ full * s \in Int /\ full * k \in Int
      BY <1>1, <2>2
    <3> QED BY <1>1, <1>2, <2>3, <3>2, <3>3
  <2> QED BY <2>2, <2>4 DEF r, s
<1>3. CASE full <= 0
  <2>1. r = Rounded(2 * p.x - width, 2) /\ s = Rounded(2 * q.x - width, 2)
    BY <1>3 DEF Anchor
  <2> QED BY <1>1, <2>1 DEF Rounded
<1> QED BY <1>1, <1>2, <1>3

(* The rectangle of a placement that takes the sides left and above.         *)
SidedRect(cursor, size, screen, mode, left, above) ==
    LET x == IF mode = "VisualNovel" THEN Anchor(cursor, size.w, screen)
             ELSE IF left THEN cursor.x - size.w - Offset ELSE cursor.x + Offset
        y == IF above THEN cursor.y - size.h - Offset ELSE cursor.y + Offset
    IN  [x |-> ClampToRange(x, screen.x, XEdge(screen), size.w),
         y |-> ClampToRange(y, screen.y, YEdge(screen), size.h),
         w |-> size.w, h |-> size.h]

LEMMA PlacedIsSided ==
    ASSUME NEW cursor, NEW size, NEW screen, NEW mode, NEW sides
    PROVE  Placed(cursor, size, screen, mode, sides).rect
             = SidedRect(cursor, size, screen, mode, FlipsLeft(cursor, size, screen, mode, sides),
                         FlipsAbove(cursor, size, screen, mode, sides))
BY DEF Placed, SidedRect

LEMMA SidedOnScreen ==
    ASSUME NEW cursor \in [x : Int, y : Int], NEW size \in [w : Nat, h : Nat],
           NEW screen \in QRect, size.w <= screen.w, size.h <= screen.h,
           NEW mode, NEW left, NEW above
    PROVE  LET r == SidedRect(cursor, size, screen, mode, left, above) IN
           /\ r.x >= screen.x /\ r.x + r.w <= screen.x + screen.w
           /\ r.y >= screen.y /\ r.y + r.h <= screen.y + screen.h
<1> DEFINE r == SidedRect(cursor, size, screen, mode, left, above)
           x == IF mode = "VisualNovel" THEN Anchor(cursor, size.w, screen)
                ELSE IF left THEN cursor.x - size.w - Offset ELSE cursor.x + Offset
           y == IF above THEN cursor.y - size.h - Offset ELSE cursor.y + Offset
<1>1. /\ screen.x \in Int /\ screen.y \in Int /\ screen.w \in Int /\ screen.h \in Int
      /\ size.w \in Nat /\ size.h \in Nat /\ cursor.x \in Int /\ cursor.y \in Int /\ Offset \in Nat
  BY PlacementAssumption DEF QRect
<1>2. x \in Int /\ y \in Int
  BY <1>1, AnchorType
<1>3. r = [x |-> ClampToRange(x, screen.x, XEdge(screen), size.w),
           y |-> ClampToRange(y, screen.y, YEdge(screen), size.h),
           w |-> size.w, h |-> size.h]
  BY DEF SidedRect
<1> HIDE DEF r, x, y
<1>4. /\ r.x >= screen.x /\ r.x + r.w <= screen.x + screen.w
      /\ r.y >= screen.y /\ r.y + r.h <= screen.y + screen.h
  BY <1>1, <1>2, <1>3 DEF XEdge, YEdge, ClampToRange, Greater, Lesser
<1> QED BY <1>4 DEF r

(* With the sides kept the card moves with the pointer.                      *)
LEMMA SidedSteps ==
    ASSUME NEW p \in [x : Int, y : Int], NEW q \in [x : Int, y : Int],
           p.x - q.x < Hysteresis, q.x - p.x < Hysteresis,
           p.y - q.y < Hysteresis, q.y - p.y < Hysteresis,
           NEW size \in [w : Nat, h : Nat], NEW screen \in QRect,
           size.w <= screen.w, 2 * Offset <= screen.w,
           NEW mode, NEW left, NEW above
    PROVE  LET r == SidedRect(p, size, screen, mode, left, above)
               s == SidedRect(q, size, screen, mode, left, above)
           IN  /\ r \in QRect /\ s \in QRect /\ r.w = size.w /\ s.w = size.w
               /\ r.h = size.h /\ s.h = size.h
               /\ r.x - s.x <= Hysteresis /\ r.y - s.y <= Hysteresis
<1> DEFINE r == SidedRect(p, size, screen, mode, left, above)
           s == SidedRect(q, size, screen, mode, left, above)
           X(c) == IF mode = "VisualNovel" THEN Anchor(c, size.w, screen)
                   ELSE IF left THEN c.x - size.w - Offset ELSE c.x + Offset
           Y(c) == IF above THEN c.y - size.h - Offset ELSE c.y + Offset
<1>1. /\ p.x \in Int /\ p.y \in Int /\ q.x \in Int /\ q.y \in Int
      /\ size.w \in Nat /\ size.h \in Nat /\ Hysteresis \in Nat /\ Offset \in Nat
      /\ screen.x \in Int /\ screen.y \in Int /\ XEdge(screen) \in Int /\ YEdge(screen) \in Int
  BY PlacementAssumption DEF QRect, XEdge, YEdge
<1>2. X(p) \in Int /\ X(q) \in Int /\ X(p) - X(q) <= Hysteresis
  <2>1. CASE mode = "VisualNovel"
    <3>1. Hysteresis - 1 \in Nat /\ p.x - q.x <= Hysteresis - 1 /\ q.x - p.x <= Hysteresis - 1
      BY <1>1
    <3>2. /\ Anchor(p, size.w, screen) \in Int /\ Anchor(q, size.w, screen) \in Int
          /\ Anchor(p, size.w, screen) - Anchor(q, size.w, screen) <= (Hysteresis - 1) + 1
      BY <1>1, <3>1, AnchorSteps
    <3> QED BY <1>1, <2>1, <3>2
  <2>2. CASE mode # "VisualNovel"
    BY <1>1, <2>2
  <2> QED BY <2>1, <2>2
<1>3. Y(p) \in Int /\ Y(q) \in Int /\ Y(p) - Y(q) <= Hysteresis
  BY <1>1
<1>4. /\ r = [x |-> ClampToRange(X(p), screen.x, XEdge(screen), size.w),
               y |-> ClampToRange(Y(p), screen.y, YEdge(screen), size.h),
               w |-> size.w, h |-> size.h]
      /\ s = [x |-> ClampToRange(X(q), screen.x, XEdge(screen), size.w),
               y |-> ClampToRange(Y(q), screen.y, YEdge(screen), size.h),
               w |-> size.w, h |-> size.h]
  BY DEF SidedRect
<1> HIDE DEF r, s, X, Y
<1>5. /\ ClampToRange(X(p), screen.x, XEdge(screen), size.w) \in Int
      /\ ClampToRange(Y(p), screen.y, YEdge(screen), size.h) \in Int
      /\ ClampToRange(X(q), screen.x, XEdge(screen), size.w) \in Int
      /\ ClampToRange(Y(q), screen.y, YEdge(screen), size.h) \in Int
  BY <1>1, <1>2, <1>3 DEF ClampToRange, Greater, Lesser
<1>6. r.x - s.x <= Hysteresis
  <2>1. ClampToRange(X(p), screen.x, XEdge(screen), size.w)
        - ClampToRange(X(q), screen.x, XEdge(screen), size.w) <= Hysteresis
    BY <1>1, <1>2 DEF ClampToRange, Greater, Lesser
  <2> QED BY <1>4, <2>1
<1>7. r.y - s.y <= Hysteresis
  <2>1. ClampToRange(Y(p), screen.y, YEdge(screen), size.h)
        - ClampToRange(Y(q), screen.y, YEdge(screen), size.h) <= Hysteresis
    BY <1>1, <1>3 DEF ClampToRange, Greater, Lesser
  <2> QED BY <1>4, <2>1
<1>8. r \in QRect /\ s \in QRect /\ r.w = size.w /\ s.w = size.w /\ r.h = size.h /\ s.h = size.h
  BY <1>1, <1>4, <1>5 DEF QRect
<1> QED BY <1>6, <1>7, <1>8 DEF r, s

(* How far the centre of a card goes when it is pushed into a range.         *)
Apart(v, low, high, span) ==
    LET d == Half(2 * ClampToRange(v, low, high, span) + (span - 1)) - Half(2 * v + (span - 1))
    IN  IF d >= 0 THEN d ELSE -d

LEMMA ApartSteps ==
    ASSUME NEW v \in Int, NEW w \in Int, NEW low \in Int, NEW high \in Int, NEW span \in Int,
           NEW k \in Nat, v - w <= k, w - v <= k
    PROVE  /\ Apart(v, low, high, span) \in Nat /\ Apart(w, low, high, span) \in Nat
           /\ Apart(v, low, high, span) - Apart(w, low, high, span) <= k
<1> DEFINE centre(x) == Half(2 * x + (span - 1))
           clamp(x) == ClampToRange(x, low, high, span)
           far == high - span
<1>1. ASSUME NEW x \in Int, NEW y \in Int, x <= y
      PROVE  /\ centre(x) \in Int /\ centre(y) \in Int
             /\ centre(x) <= centre(y) /\ centre(y) - centre(x) <= y - x
  <2> DEFINE s == span - 1
  <2>1. s \in Int
    OBVIOUS
  <2> HIDE DEF s
  <2>2. /\ Half(2 * x + s) \in Int /\ Half(2 * y + s) \in Int
        /\ Half(2 * x + s) <= Half(2 * y + s) /\ Half(2 * y + s) - Half(2 * x + s) <= y - x
    BY <1>1, <2>1, HalfSteps
  <2> QED BY <2>2 DEF s
<1>2. /\ far \in Int /\ clamp(v) \in Int /\ clamp(w) \in Int
      /\ Apart(v, low, high, span) = LET d == centre(clamp(v)) - centre(v) IN IF d >= 0 THEN d ELSE -d
      /\ Apart(w, low, high, span) = LET d == centre(clamp(w)) - centre(w) IN IF d >= 0 THEN d ELSE -d
  BY DEF Apart, ClampToRange, Greater, Lesser
<1>3. /\ far <= low => clamp(v) = low /\ clamp(w) = low
      /\ far > low => /\ clamp(v) = IF v < low THEN low ELSE IF far < v THEN far ELSE v
                      /\ clamp(w) = IF w < low THEN low ELSE IF far < w THEN far ELSE w
  BY DEF ClampToRange, Greater, Lesser
<1> DEFINE a == Apart(v, low, high, span)
           b == Apart(w, low, high, span)
           cv == centre(v)
           cw == centre(w)
           cl == centre(low)
           cf == centre(far)
<1>4. /\ cv \in Int /\ cw \in Int /\ cl \in Int /\ cf \in Int
  <2>1. \A x \in Int : centre(x) \in Int
    <3> TAKE x \in Int
    <3>1. x <= x
      OBVIOUS
    <3> HIDE DEF centre
    <3> QED BY <1>1, <3>1
  <2> HIDE DEF centre, far
  <2> QED BY <1>2, <2>1
<1>5. /\ v <= w => cv <= cw /\ cw - cv <= w - v
      /\ w <= v => cw <= cv /\ cv - cw <= v - w
  BY <1>1
<1>6. /\ v <= low => cv <= cl
      /\ low <= v => cl <= cv
      /\ w <= low => cw <= cl
      /\ low <= w => cl <= cw
  BY <1>1
<1>7. /\ v <= far => cv <= cf
      /\ far <= v => cf <= cv
      /\ w <= far => cw <= cf
      /\ far <= w => cf <= cw
      /\ low <= far => cl <= cf
  BY <1>1, <1>2
<1>8. /\ far <= low => /\ a = (IF cl - cv >= 0 THEN cl - cv ELSE -(cl - cv))
                       /\ b = (IF cl - cw >= 0 THEN cl - cw ELSE -(cl - cw))
      /\ far > low => /\ a = IF v < low THEN cl - cv ELSE IF far < v THEN cv - cf ELSE 0
                      /\ b = IF w < low THEN cl - cw ELSE IF far < w THEN cw - cf ELSE 0
  <2> HIDE DEF centre, clamp
  <2>1. CASE far <= low
    BY <1>2, <1>3, <2>1
  <2>2. CASE far > low
    <3>1. a = IF v < low THEN cl - cv ELSE IF far < v THEN cv - cf ELSE 0
      BY <1>2, <1>3, <1>4, <1>6, <1>7, <2>2
    <3>2. b = IF w < low THEN cl - cw ELSE IF far < w THEN cw - cf ELSE 0
      BY <1>2, <1>3, <1>4, <1>6, <1>7, <2>2
    <3> QED BY <2>2, <3>1, <3>2
  <2> QED BY <1>2, <2>1, <2>2
<1>9. far \in Int
  BY <1>2
<1> HIDE DEF a, b, cv, cw, cl, cf, far
<1>10. CASE far <= low
  BY <1>4, <1>5, <1>8, <1>9, <1>10 DEF a, b
<1>11. CASE far > low
  <2>1. a \in Nat /\ b \in Nat
    BY <1>4, <1>6, <1>7, <1>8, <1>9, <1>11
  <2>2. a - b <= k
    BY <1>4, <1>5, <1>6, <1>7, <1>8, <1>9, <1>11
  <2> QED BY <2>1, <2>2 DEF a, b
<1> QED BY <1>9, <1>10, <1>11

(* How far the card goes to reach the band b: up or down to the first two,   *)
(* sideways to the others.                                                   *)
Away(r, band, b) ==
    IF b < 2 THEN Apart(r.y, band.y, YEdge(band), r.h) ELSE Apart(r.x, band.x, XEdge(band), r.w)

(* A card on its screen reaches a band on one axis, so the distance between  *)
(* the centres, which the code computes as a root, is a whole number.        *)
LEMMA DistanceIsAway ==
    ASSUME NEW r \in QRect, NEW screen \in QRect, NEW blocked \in QRect, NEW b \in 0 .. 3,
           b < 2 => r.x >= screen.x /\ r.x + r.w <= screen.x + screen.w,
           b >= 2 => r.y >= screen.y /\ r.y + r.h <= screen.y + screen.h
    PROVE  LET band == Band(screen, blocked)[b] IN
           /\ Away(r, band, b) \in Nat
           /\ Squared(Pushed(r, band), r) = Away(r, band, b) * Away(r, band, b)
<1> DEFINE band == Band(screen, blocked)[b]
           pushed == Pushed(r, band)
           dx == CentreX(pushed) - CentreX(r)
           dy == CentreY(pushed) - CentreY(r)
           away == Away(r, band, b)
<1>1. /\ r.x \in Int /\ r.y \in Int /\ r.w \in Int /\ r.h \in Int
      /\ screen.x \in Int /\ screen.y \in Int /\ screen.w \in Int /\ screen.h \in Int
  BY DEF QRect
<1>2. /\ band \in QRect
      /\ b < 2 => band.x = screen.x /\ band.w = screen.w
      /\ b >= 2 => band.y = screen.y /\ band.h = screen.h
  <2>1. b = 0 \/ b = 1 \/ b = 2 \/ b = 3
    OBVIOUS
  <2>2. /\ XEdge(blocked) \in Int /\ YEdge(blocked) \in Int
        /\ XEdge(screen) \in Int /\ YEdge(screen) \in Int
        /\ blocked.x \in Int /\ blocked.y \in Int
    BY DEF QRect, XEdge, YEdge
  <2>3. CASE b = 0
    <3>1. band = [screen EXCEPT !.h = blocked.y - screen.y]
      BY <2>3 DEF Band
    <3> HIDE DEF band
    <3> QED BY <1>1, <2>2, <2>3, <3>1 DEF QRect
  <2>4. CASE b = 1
    <3>1. band = [screen EXCEPT !.y = YEdge(blocked), !.h = YEdge(screen) - YEdge(blocked)]
      BY <2>4 DEF Band
    <3>2. band = [x |-> screen.x, y |-> YEdge(blocked), w |-> screen.w,
                  h |-> YEdge(screen) - YEdge(blocked)]
      BY <3>1 DEF QRect
    <3> HIDE DEF band
    <3> QED BY <1>1, <2>2, <2>4, <3>2 DEF QRect
  <2>5. CASE b = 2
    <3>1. band = [screen EXCEPT !.w = blocked.x - screen.x]
      BY <2>5 DEF Band
    <3> HIDE DEF band
    <3> QED BY <1>1, <2>2, <2>5, <3>1 DEF QRect
  <2>6. CASE b = 3
    <3>1. band = [screen EXCEPT !.x = XEdge(blocked), !.w = XEdge(screen) - XEdge(blocked)]
      BY <2>6 DEF Band
    <3>2. band = [x |-> XEdge(blocked), y |-> screen.y, w |-> XEdge(screen) - XEdge(blocked),
                  h |-> screen.h]
      BY <3>1 DEF QRect
    <3> HIDE DEF band
    <3> QED BY <1>1, <2>2, <2>6, <3>2 DEF QRect
  <2> QED BY <2>1, <2>3, <2>4, <2>5, <2>6
<1> HIDE DEF band
<1>3. /\ band.x \in Int /\ band.y \in Int /\ band.w \in Int /\ band.h \in Int
      /\ XEdge(band) = band.x + band.w /\ YEdge(band) = band.y + band.h
  BY <1>2 DEF QRect, XEdge, YEdge
<1>4. /\ pushed.x = ClampToRange(r.x, band.x, XEdge(band), r.w)
      /\ pushed.y = ClampToRange(r.y, band.y, YEdge(band), r.h)
      /\ pushed.w = r.w /\ pushed.h = r.h
  BY DEF Pushed, QRect
<1>5. /\ b < 2 => pushed.x = r.x
      /\ b >= 2 => pushed.y = r.y
  BY <1>1, <1>2, <1>3, <1>4 DEF ClampToRange, Greater, Lesser
<1>6. Squared(pushed, r) = dx * dx + dy * dy
  BY DEF Squared
<1> DEFINE hx == Half(2 * pushed.x + (r.w - 1)) - Half(2 * r.x + (r.w - 1))
           hy == Half(2 * pushed.y + (r.h - 1)) - Half(2 * r.y + (r.h - 1))
<1>7. pushed.x \in Int /\ pushed.y \in Int
  BY <1>1, <1>3, <1>4 DEF ClampToRange, Greater, Lesser
<1> HIDE DEF pushed
<1>8. dx = hx /\ dy = hy
  <2>1. /\ 2 * pushed.x + r.w - 1 = 2 * pushed.x + (r.w - 1) /\ 2 * r.x + r.w - 1 = 2 * r.x + (r.w - 1)
        /\ 2 * pushed.y + r.h - 1 = 2 * pushed.y + (r.h - 1) /\ 2 * r.y + r.h - 1 = 2 * r.y + (r.h - 1)
    BY <1>1, <1>7
  <2> QED BY <1>4, <2>1 DEF CentreX, CentreY
<1>9. hx \in Int /\ hy \in Int
  <2>1. r.w - 1 \in Int /\ r.h - 1 \in Int /\ pushed.x <= pushed.x /\ pushed.y <= pushed.y
        /\ r.x <= r.x /\ r.y <= r.y
    BY <1>1, <1>7
  <2>2. /\ Half(2 * pushed.x + (r.w - 1)) \in Int /\ Half(2 * r.x + (r.w - 1)) \in Int
        /\ Half(2 * pushed.y + (r.h - 1)) \in Int /\ Half(2 * r.y + (r.h - 1)) \in Int
    BY <1>1, <1>7, <2>1, HalfSteps
  <2> QED BY <2>2
<1> HIDE DEF dx, dy
<1>10. CASE b < 2
  <2>1. away = IF hy >= 0 THEN hy ELSE -hy
    BY <1>4, <1>10 DEF Away, Apart
  <2>2. hx = 0
    <3>1. 2 * pushed.x + (r.w - 1) = 2 * r.x + (r.w - 1)
      BY <1>5, <1>10
    <3>2. Half(2 * r.x + (r.w - 1)) \in Int
      BY <1>1 DEF Half
    <3> QED BY <3>1, <3>2
  <2> HIDE DEF away, hx, hy
  <2>3. Squared(pushed, r) = hy * hy
    BY <1>6, <1>8, <1>9, <2>2
  <2> QED BY <1>9, <2>1, <2>3 DEF away, pushed, band
<1>11. CASE b >= 2
  <2>1. away = IF hx >= 0 THEN hx ELSE -hx
    BY <1>4, <1>11 DEF Away, Apart
  <2>2. hy = 0
    <3>1. 2 * pushed.y + (r.h - 1) = 2 * r.y + (r.h - 1)
      BY <1>5, <1>11
    <3>2. Half(2 * r.y + (r.h - 1)) \in Int
      BY <1>1 DEF Half
    <3> QED BY <3>1, <3>2
  <2> HIDE DEF away, hx, hy
  <2>3. Squared(pushed, r) = hx * hx
    BY <1>6, <1>8, <1>9, <2>2
  <2> QED BY <1>9, <2>1, <2>3 DEF away, pushed, band
<1> QED BY <1>10, <1>11

(* The comparison of squares is that of the distances.                       *)
Reduced(d, held) == IF held THEN d - Hysteresis ELSE d

LEMMA NearerIsLess ==
    ASSUME NEW d \in Nat, NEW e \in Nat, NEW held \in BOOLEAN, NEW other \in BOOLEAN,
           ~(held /\ other)
    PROVE  Nearer(d * d, held, e * e, other) <=> Reduced(d, held) < Reduced(e, other)
<1>1. Hysteresis \in Nat
  BY PlacementAssumption
<1>2. ASSUME NEW m \in Nat, NEW n \in Nat
      PROVE  m * m < n * n <=> m < n
  <2>1. CASE m < n
    <3>1. m * m <= m * n /\ m * n < n * n
      BY <2>1
    <3>2. m * m \in Int /\ m * n \in Int /\ n * n \in Int
      OBVIOUS
    <3> QED BY <2>1, <3>1, <3>2
  <2>2. CASE n <= m
    <3>1. n * n <= n * m /\ n * m <= m * m
      BY <2>2
    <3>2. m * m \in Int /\ n * m \in Int /\ n * n \in Int
      OBVIOUS
    <3> QED BY <2>2, <3>1, <3>2
  <2> QED BY <2>1, <2>2
(* m - k < n as the code's exact form has it.                                *)
<1>3. ASSUME NEW m \in Nat, NEW n \in Nat, NEW k \in Nat
      PROVE  m < n + k <=>
               \/ m * m - n * n - k * k < 0
               \/ (m * m - n * n - k * k) * (m * m - n * n - k * k) < 4 * (k * k) * (n * n)
  <2> DEFINE excess == m * m - n * n - k * k
             twice == 2 * (n * k)
  <2>1. excess \in Int /\ twice \in Nat
    OBVIOUS
  <2>2. twice * twice = 4 * (k * k) * (n * n)
    OBVIOUS
  <2>3. m < n + k <=> excess < twice
    <3>1. (n + k) * (n + k) = n * n + twice + k * k
      OBVIOUS
    <3>2. m < n + k <=> m * m < (n + k) * (n + k)
      BY <1>2
    <3>3. m * m \in Int /\ n * n \in Int /\ k * k \in Int
      OBVIOUS
    <3> QED BY <3>1, <3>2, <3>3, <2>1
  <2> HIDE DEF excess, twice
  <2>4. excess < twice <=> excess < 0 \/ excess * excess < twice * twice
    <3>1. CASE excess < 0
      BY <2>1, <3>1
    <3>2. CASE excess >= 0
      <4>1. excess \in Nat
        BY <2>1, <3>2
      <4> QED BY <1>2, <2>1, <3>2, <4>1
    <3> QED BY <2>1, <3>1, <3>2
  <2> QED BY <2>2, <2>3, <2>4 DEF excess
<1> DEFINE k == Hysteresis * Hysteresis
<1>4. CASE held = other
  BY <1>1, <1>2, <1>4 DEF Nearer, Reduced
<1>5. CASE held /\ ~other
  <2>1. Nearer(d * d, held, e * e, other) <=>
          d * d - e * e - k < 0 \/ (d * d - e * e - k) * (d * d - e * e - k) < 4 * k * (e * e)
    BY <1>5 DEF Nearer
  <2>2. Nearer(d * d, held, e * e, other) <=> d < e + Hysteresis
    BY <1>1, <1>3, <2>1
  <2>3. Reduced(d, held) = d - Hysteresis /\ Reduced(e, other) = e
    BY <1>5 DEF Reduced
  <2> HIDE DEF k
  <2> QED BY <1>1, <2>2, <2>3
<1>6. CASE ~held /\ other
  <2>1. Nearer(d * d, held, e * e, other) <=>
          e * e - d * d - k > 0 /\ (e * e - d * d - k) * (e * e - d * d - k) > 4 * k * (d * d)
    BY <1>6 DEF Nearer
  <2>2. Nearer(d * d, held, e * e, other) <=> d + Hysteresis < e
    <3> DEFINE excess == e * e - d * d - k
               twice == 2 * (d * Hysteresis)
    <3>1. excess \in Int /\ twice \in Nat /\ twice * twice = 4 * k * (d * d)
      BY <1>1
    <3>2. d + Hysteresis < e <=> excess > twice
      <4>1. (d + Hysteresis) * (d + Hysteresis) = d * d + twice + k
        BY <1>1
      <4>2. d + Hysteresis < e <=> (d + Hysteresis) * (d + Hysteresis) < e * e
        BY <1>1, <1>2
      <4>3. d * d \in Int /\ e * e \in Int /\ k \in Int
        BY <1>1
      <4> HIDE DEF k
      <4> QED BY <3>1, <4>1, <4>2, <4>3
    <3>3. Nearer(d * d, held, e * e, other) <=> excess > 0 /\ excess * excess > twice * twice
      BY <2>1, <3>1
    <3> HIDE DEF excess, twice
    <3>4. excess > twice <=> excess > 0 /\ excess * excess > twice * twice
      <4>1. CASE excess <= 0
        BY <3>1, <4>1
      <4>2. CASE excess > 0
        <5>1. excess \in Nat
          BY <3>1, <4>2
        <5>2. twice * twice < excess * excess <=> twice < excess
          BY <1>2, <3>1, <5>1
        <5> QED BY <3>1, <4>2, <5>1, <5>2
      <4> QED BY <3>1, <4>1, <4>2
    <3> QED BY <3>2, <3>3, <3>4
  <2>3. Reduced(d, held) = d /\ Reduced(e, other) = e - Hysteresis
    BY <1>6 DEF Reduced
  <2> HIDE DEF k
  <2> QED BY <1>1, <2>2, <2>3
<1> QED BY <1>4, <1>5, <1>6

(* The band best comes first of the free ones where the distances are d and  *)
(* the band kept is granted the hysteresis.                                  *)
Leads(best, free, d, kept) ==
    /\ best \in free
    /\ \A b \in free \ {best} :
          \/ Reduced(d[best], best = kept) < Reduced(d[b], b = kept)
          \/ Reduced(d[best], best = kept) = Reduced(d[b], b = kept) /\ best < b

LeadsBelow(n, best, free, d, kept) ==
    IF free \cap 0 .. n - 1 = {} THEN best = -1 ELSE Leads(best, free \cap 0 .. n - 1, d, kept)

LEMMA BetterLeads ==
    ASSUME NEW free \in SUBSET (0 .. 3), NEW d \in [0 .. 3 -> Nat], NEW distance, NEW kept,
           \A b \in free : distance[b] = d[b] * d[b],
           NEW n \in 0 .. 3, NEW best, LeadsBelow(n, best, free, d, kept)
    PROVE  LeadsBelow(n + 1, BetterBand(best, n, free, distance, kept), free, d, kept)
<1> DEFINE better == BetterBand(best, n, free, distance, kept)
           below == free \cap 0 .. n - 1
           through == free \cap 0 .. n
           R(b) == Reduced(d[b], b = kept)
<1>1. /\ n + 1 - 1 = n /\ through = IF n \in free THEN below \cup {n} ELSE below
      /\ \A b \in below : b \in 0 .. 3 /\ b < n
  OBVIOUS
<1>2. \A b \in 0 .. 3 : R(b) \in Int
  BY PlacementAssumption DEF Reduced
<1>3. /\ below = {} => best = -1
      /\ below # {} => /\ best \in below
                       /\ \A b \in below \ {best} : R(best) < R(b) \/ (R(best) = R(b) /\ best < b)
  BY DEF LeadsBelow, Leads
<1>4. SUFFICES /\ through = {} => better = -1
               /\ through # {} => /\ better \in through
                                  /\ \A b \in through \ {better} :
                                        R(better) < R(b) \/ (R(better) = R(b) /\ better < b)
  BY <1>1 DEF LeadsBelow, Leads
<1>5. CASE n \notin free
  <2>1. better = best
    BY <1>5 DEF BetterBand
  <2> HIDE DEF R, better
  <2> QED BY <1>1, <1>3, <1>5, <2>1
<1>6. CASE n \in free /\ below = {}
  <2>1. better = n
    BY <1>3, <1>6 DEF BetterBand
  <2> HIDE DEF R, better
  <2> QED BY <1>1, <1>6, <2>1
<1>7. CASE n \in free /\ below # {}
  <2>1. best \in free /\ best \in 0 .. 3 /\ best < n /\ best # -1
    BY <1>1, <1>3, <1>7
  <2>2. Nearer(distance[n], n = kept, distance[best], best = kept) <=> R(n) < R(best)
    <3>1. distance[n] = d[n] * d[n] /\ distance[best] = d[best] * d[best]
      BY <1>7, <2>1
    <3>2. d[n] \in Nat /\ d[best] \in Nat /\ ~(n = kept /\ best = kept)
      BY <2>1
    <3> QED BY <3>1, <3>2, NearerIsLess
  <2>3. better = IF R(n) < R(best) THEN n ELSE best
    BY <1>7, <2>1, <2>2 DEF BetterBand
  <2> HIDE DEF R, better, below, through
  <2>4. through = below \cup {n} /\ through # {}
    BY <1>1, <1>7
  <2>5. CASE R(n) < R(best)
    <3>1. better = n
      BY <2>3, <2>5
    <3>2. ASSUME NEW b \in below PROVE R(n) < R(b)
      BY <1>1, <1>2, <1>3, <1>7, <2>1, <2>5
    <3> QED BY <2>4, <3>1, <3>2
  <2>6. CASE ~(R(n) < R(best))
    <3>1. better = best
      BY <2>3, <2>6
    <3>2. R(best) < R(n) \/ (R(best) = R(n) /\ best < n)
      <4>1. R(n) \in Int /\ R(best) \in Int /\ best < n
        BY <1>2, <2>1
      <4> QED BY <2>6, <4>1
    <3> QED BY <1>3, <1>7, <2>4, <3>1, <3>2
  <2> QED BY <2>5, <2>6
<1> QED BY <1>5, <1>6, <1>7

LEMMA NearestLeads ==
    ASSUME NEW free \in SUBSET (0 .. 3), free # {}, NEW d \in [0 .. 3 -> Nat], NEW distance, NEW kept,
           \A b \in free : distance[b] = d[b] * d[b]
    PROVE  Leads(NearestBand(free, distance, kept), free, d, kept)
<1> DEFINE over(best, b) == BetterBand(best, b, free, distance, kept)
           one == over(-1, 0)
           two == over(one, 1)
           three == over(two, 2)
           four == over(three, 3)
<1>1. LeadsBelow(0, -1, free, d, kept)
  BY DEF LeadsBelow
<1>2. ASSUME NEW n \in 0 .. 3, NEW best, LeadsBelow(n, best, free, d, kept)
      PROVE  LeadsBelow(n + 1, over(best, n), free, d, kept)
  BY <1>2, BetterLeads
<1>3. NearestBand(free, distance, kept) = four
  BY DEF NearestBand
<1> HIDE DEF over
<1>4. LeadsBelow(0 + 1, one, free, d, kept)
  BY <1>1, <1>2
<1> HIDE DEF one
<1>5. LeadsBelow(1 + 1, two, free, d, kept)
  BY <1>2, <1>4
<1> HIDE DEF two
<1>6. LeadsBelow(2 + 1, three, free, d, kept)
  BY <1>2, <1>5
<1> HIDE DEF three
<1>7. LeadsBelow(3 + 1, four, free, d, kept)
  BY <1>2, <1>6
<1>8. free \cap 0 .. (3 + 1) - 1 = free
  <2>1. \A b \in free : b \in 0 .. (3 + 1) - 1
    OBVIOUS
  <2> QED BY <2>1
<1> HIDE DEF four
<1> QED BY <1>3, <1>7, <1>8 DEF LeadsBelow

LEMMA LeadsOnce ==
    ASSUME NEW free \in SUBSET (0 .. 3), NEW d \in [0 .. 3 -> Nat], NEW kept,
           NEW a, Leads(a, free, d, kept), NEW b, Leads(b, free, d, kept)
    PROVE  a = b
<1> DEFINE R(c) == Reduced(d[c], c = kept)
<1>1. /\ a \in 0 .. 3 /\ b \in 0 .. 3
      /\ a # b => R(a) < R(b) \/ (R(a) = R(b) /\ a < b)
      /\ a # b => R(b) < R(a) \/ (R(a) = R(b) /\ b < a)
  BY DEF Leads
<1>2. R(a) \in Int /\ R(b) \in Int
  BY <1>1, PlacementAssumption DEF Reduced
<1> HIDE DEF R
<1> QED BY <1>1, <1>2

(* A band that was taken is taken again.                                     *)
LEMMA LeadsAgain ==
    ASSUME NEW free \in SUBSET (0 .. 3), NEW d \in [0 .. 3 -> Nat], NEW kept,
           NEW a, Leads(a, free, d, kept)
    PROVE  Leads(a, free, d, a)
<1>1. a \in free /\ a \in 0 .. 3 /\ Hysteresis \in Nat
  BY PlacementAssumption DEF Leads
<1>2. ASSUME NEW b \in free \ {a}
      PROVE  \/ Reduced(d[a], a = a) < Reduced(d[b], b = a)
             \/ Reduced(d[a], a = a) = Reduced(d[b], b = a) /\ a < b
  <2>1. d[a] \in Nat /\ d[b] \in Nat /\ b # a
    BY <1>1
  <2>2. /\ Reduced(d[a], a = a) = d[a] - Hysteresis /\ Reduced(d[b], b = a) = d[b]
        /\ Reduced(d[a], a = kept) = IF a = kept THEN d[a] - Hysteresis ELSE d[a]
        /\ Reduced(d[b], b = kept) = IF b = kept THEN d[b] - Hysteresis ELSE d[b]
    BY <2>1 DEF Reduced
  <2>3. \/ Reduced(d[a], a = kept) < Reduced(d[b], b = kept)
        \/ Reduced(d[a], a = kept) = Reduced(d[b], b = kept) /\ a < b
    BY DEF Leads
  <2> QED BY <1>1, <2>1, <2>2, <2>3
<1> QED BY <1>1, <1>2 DEF Leads

(* A band that takes the place of the one kept is ahead of it by the         *)
(* hysteresis, and of every other.                                           *)
LEMMA LeadsOver ==
    ASSUME NEW free \in SUBSET (0 .. 3), NEW d \in [0 .. 3 -> Nat], NEW kept \in free,
           NEW a, Leads(a, free, d, kept), a # kept
    PROVE  /\ a \in free
           /\ d[a] < d[kept] - Hysteresis \/ (d[a] = d[kept] - Hysteresis /\ a < kept)
           /\ Leads(a, free, d, -1)
<1>1. a \in free /\ Hysteresis \in Nat /\ \A b \in free : b \in 0 .. 3 /\ d[b] \in Nat
  BY PlacementAssumption DEF Leads
<1>2. \A b \in free : /\ Reduced(d[b], b = kept) = IF b = kept THEN d[b] - Hysteresis ELSE d[b]
                      /\ Reduced(d[b], b = -1) = d[b]
  BY <1>1 DEF Reduced
<1>3. \A b \in free \ {a} : \/ Reduced(d[a], a = kept) < Reduced(d[b], b = kept)
                            \/ Reduced(d[a], a = kept) = Reduced(d[b], b = kept) /\ a < b
  BY DEF Leads
<1>4. d[a] < d[kept] - Hysteresis \/ (d[a] = d[kept] - Hysteresis /\ a < kept)
  BY <1>1, <1>2, <1>3
<1>5. ASSUME NEW b \in free \ {a}
      PROVE  d[a] < d[b] \/ (d[a] = d[b] /\ a < b)
  <2>1. CASE b = kept
    BY <1>1, <1>4, <2>1
  <2>2. CASE b # kept
    BY <1>1, <1>2, <1>3, <2>2
  <2> QED BY <2>1, <2>2
<1>6. Leads(a, free, d, -1)
  BY <1>1, <1>2, <1>5 DEF Leads
<1> QED BY <1>1, <1>4, <1>6

(* A hand that goes back and forth between two points, at which no distance  *)
(* differs by more than the hysteresis, takes the card to another band once  *)
(* or twice and leaves it there.                                             *)
LEMMA TakenBandsRest ==
    ASSUME NEW free \in SUBSET (0 .. 3), NEW d \in [0 .. 3 -> Nat], NEW e \in [0 .. 3 -> Nat],
           \A b \in free : d[b] - e[b] <= Hysteresis /\ e[b] - d[b] <= Hysteresis,
           NEW two, NEW three, NEW four, NEW five, NEW six, NEW seven,
           Leads(three, free, d, two), Leads(four, free, e, three), Leads(five, free, d, four),
           Leads(six, free, e, five), Leads(seven, free, d, six)
    PROVE  six = five /\ seven = five
<1>1. /\ three \in free /\ four \in free /\ five \in free /\ six \in free /\ seven \in free
  BY DEF Leads
<1>2. /\ Leads(three, free, d, three) /\ Leads(four, free, e, four) /\ Leads(five, free, d, five)
      /\ Leads(six, free, e, six)
  BY LeadsAgain
<1>3. six = five => seven = five
  BY <1>2, LeadsOnce
<1>4. CASE four = three
  <2>1. five = three
    BY <1>2, <1>4, LeadsOnce
  <2>2. six = three
    BY <1>2, <1>4, <2>1, LeadsOnce
  <2> QED BY <1>3, <2>1, <2>2
<1>5. CASE four # three /\ five = four
  <2>1. six = four
    BY <1>2, <1>5, LeadsOnce
  <2> QED BY <1>3, <1>5, <2>1
<1>6. CASE four # three /\ five # four
  <2>1. Leads(four, free, e, -1)
    BY <1>1, <1>6, LeadsOver
  <2>2. d[five] < d[four] - Hysteresis \/ (d[five] = d[four] - Hysteresis /\ five < four)
    BY <1>1, <1>6, LeadsOver
  <2>3. SUFFICES ASSUME six # five PROVE FALSE
    BY <1>3
  <2>4. /\ e[six] < e[five] - Hysteresis \/ (e[six] = e[five] - Hysteresis /\ six < five)
        /\ Leads(six, free, e, -1)
    BY <1>1, <2>3, LeadsOver
  <2>5. six = four
    BY <2>1, <2>4, LeadsOnce
  <2>6. /\ four \in 0 .. 3 /\ five \in 0 .. 3 /\ Hysteresis \in Nat
        /\ d[four] \in Nat /\ d[five] \in Nat /\ e[four] \in Nat /\ e[five] \in Nat
        /\ d[four] - e[four] <= Hysteresis /\ e[five] - d[five] <= Hysteresis
    BY <1>1, PlacementAssumption
  <2> QED BY <2>2, <2>4, <2>5, <2>6
<1> QED BY <1>4, <1>5, <1>6

(* The band a card takes which the mode would place at r.                    *)
FreeBands(size, screen, avoid) ==
    {b \in 0 .. 3 : Fits(size, Band(screen, Intersected(avoid, screen))[b])}
Stays(r, size, screen, avoid) ==
    \/ Empty(avoid) \/ ~Intersects(r, avoid) \/ Empty(Intersected(avoid, screen))
    \/ FreeBands(size, screen, avoid) = {}
Distances(r, screen, avoid) ==
    [b \in 0 .. 3 |-> Squared(Pushed(r, Band(screen, Intersected(avoid, screen))[b]), r)]
TakenBand(r, size, screen, avoid, kept) ==
    IF Stays(r, size, screen, avoid) THEN -1
    ELSE NearestBand(FreeBands(size, screen, avoid), Distances(r, screen, avoid), kept)

LEMMA BandOfPlacement ==
    ASSUME NEW cursor \in [x : Int, y : Int], NEW size \in [w : Nat, h : Nat],
           NEW screen \in QRect, NEW mode \in Modes, NEW avoid \in QRect, NEW sides \in Sides
    PROVE  LET taken == PlacedAvoiding(cursor, size, screen, mode, avoid, sides).sides IN
           taken.band = TakenBand(SidedRect(cursor, size, screen, mode, taken.left, taken.above),
                                  size, screen, avoid, IF sides.known THEN sides.band ELSE -1)
<1> DEFINE placed == Placed(cursor, size, screen, mode, sides)
           blocked == Intersected(avoid, screen)
           band == Band(screen, blocked)
           free == {b \in 0 .. 3 : Fits(size, band[b])}
           kept == IF sides.known THEN sides.band ELSE -1
           stays == Empty(avoid) \/ ~Intersects(placed.rect, avoid) \/ Empty(blocked) \/ free = {}
           place == PlacedAvoiding(cursor, size, screen, mode, avoid, sides)
           rects == [b \in 0 .. 3 |-> Pushed(placed.rect, band[b])]
           distance == [b \in 0 .. 3 |-> Squared(rects[b], placed.rect)]
           nearest == NearestBand(free, Distances(placed.rect, screen, avoid), kept)
<1>1. place = IF stays THEN placed ELSE PlacedAside(placed, band, free, kept)
  BY DEF PlacedAvoiding
<1>2. /\ place.sides.left = FlipsLeft(cursor, size, screen, mode, sides)
      /\ place.sides.above = FlipsAbove(cursor, size, screen, mode, sides)
  BY SidesOfMode
<1>3. placed.rect = SidedRect(cursor, size, screen, mode, place.sides.left, place.sides.above)
  BY <1>2, PlacedIsSided
<1>4. placed.sides = [known |-> TRUE, left |-> FlipsLeft(cursor, size, screen, mode, sides),
                      above |-> FlipsAbove(cursor, size, screen, mode, sides), band |-> -1]
  BY DEF Placed
<1>5. placed.sides.band = -1
  BY <1>4
<1>6. TakenBand(placed.rect, size, screen, avoid, kept) = IF stays THEN -1 ELSE nearest
  BY DEF TakenBand, Stays, FreeBands
<1>7. distance = Distances(placed.rect, screen, avoid)
  <2> HIDE DEF placed
  <2> QED BY DEF Distances
<1>8. PlacedAside(placed, band, free, kept).sides.band = nearest
  <2> HIDE DEF placed, band, free, kept
  <2>1. PlacedAside(placed, band, free, kept).sides
          = [placed.sides EXCEPT !.band = NearestBand(free, distance, kept)]
    BY DEF PlacedAside
  <2>2. DOMAIN placed.sides = {"known", "left", "above", "band"}
    BY <1>4
  <2> HIDE DEF distance
  <2> QED BY <1>7, <2>1, <2>2
<1> HIDE DEF placed, band, free, kept, stays, place, nearest
<1>9. place.sides.band = IF stays THEN -1 ELSE nearest
  BY <1>1, <1>5, <1>8
<1>10. place.sides.band = TakenBand(SidedRect(cursor, size, screen, mode, place.sides.left, place.sides.above),
                                    size, screen, avoid, kept)
  BY <1>3, <1>6, <1>9
<1> QED BY <1>10 DEF place, kept

(* With its sides settled the band of a card rests.                          *)
LEMMA TakenBandsSettle ==
    ASSUME NEW p \in [x : Int, y : Int], NEW q \in [x : Int, y : Int],
           p.x - q.x < Hysteresis, q.x - p.x < Hysteresis,
           p.y - q.y < Hysteresis, q.y - p.y < Hysteresis,
           NEW size \in [w : Nat, h : Nat], NEW screen \in QRect, 2 * Offset <= screen.w,
           NEW mode \in Modes, NEW avoid \in QRect, NEW left, NEW above,
           NEW two, NEW three, NEW four, NEW five, NEW six, NEW seven,
           LET there == SidedRect(q, size, screen, mode, left, above)
               here == SidedRect(p, size, screen, mode, left, above)
           IN  /\ three = TakenBand(here, size, screen, avoid, two)
               /\ four = TakenBand(there, size, screen, avoid, three)
               /\ five = TakenBand(here, size, screen, avoid, four)
               /\ six = TakenBand(there, size, screen, avoid, five)
               /\ seven = TakenBand(here, size, screen, avoid, six)
    PROVE  \E b : {five, six, seven} \subseteq {-1, b}
<1> DEFINE here == SidedRect(p, size, screen, mode, left, above)
           there == SidedRect(q, size, screen, mode, left, above)
           blocked == Intersected(avoid, screen)
           band == Band(screen, blocked)
           free == FreeBands(size, screen, avoid)
           d == [b \in 0 .. 3 |-> IF b \in free THEN Away(here, band[b], b) ELSE 0]
           e == [b \in 0 .. 3 |-> IF b \in free THEN Away(there, band[b], b) ELSE 0]
<1>1. /\ three = TakenBand(here, size, screen, avoid, two)
      /\ four = TakenBand(there, size, screen, avoid, three)
      /\ five = TakenBand(here, size, screen, avoid, four)
      /\ six = TakenBand(there, size, screen, avoid, five)
      /\ seven = TakenBand(here, size, screen, avoid, six)
  OBVIOUS
<1>2. CASE Stays(here, size, screen, avoid)
  <2>1. five = -1 /\ seven = -1
    BY <1>1, <1>2 DEF TakenBand
  <2> QED BY <2>1
<1>3. CASE Stays(there, size, screen, avoid)
  <2>1. four = -1 /\ six = -1
    BY <1>1, <1>3 DEF TakenBand
  <2>2. seven = five
    BY <1>1, <2>1
  <2> QED BY <2>1, <2>2
<1>4. CASE ~Stays(here, size, screen, avoid) /\ ~Stays(there, size, screen, avoid)
  <2>1. free # {} /\ ~Empty(blocked) /\ free \in SUBSET (0 .. 3)
    BY <1>4 DEF Stays, FreeBands
  <2>2. /\ blocked \in QRect /\ Within(blocked, screen)
    BY IntersectedType
  <2>3. ASSUME NEW b \in free
        PROVE  /\ b \in 0 .. 3 /\ band[b] \in QRect /\ size.w <= screen.w /\ size.h <= screen.h
    <3>1. b \in 0 .. 3 /\ band[b].w >= size.w /\ band[b].h >= size.h
      BY DEF FreeBands, Fits
    <3> HIDE DEF blocked, free
    <3>2. /\ band[b] \in QRect
          /\ band[b].w >= 0 => band[b].x >= screen.x /\ XEdge(band[b]) <= XEdge(screen)
          /\ band[b].h >= 0 => band[b].y >= screen.y /\ YEdge(band[b]) <= YEdge(screen)
      BY <2>1, <2>2, <3>1, BandIsBeside
    <3> HIDE DEF band
    <3> QED BY <3>1, <3>2 DEF QRect, XEdge, YEdge
  <2>4. size.w <= screen.w /\ size.h <= screen.h
    BY <2>1, <2>3
  <2>5. /\ here \in QRect /\ there \in QRect
        /\ here.w = size.w /\ there.w = size.w /\ here.h = size.h /\ there.h = size.h
        /\ here.x - there.x <= Hysteresis /\ here.y - there.y <= Hysteresis
        /\ there.x - here.x <= Hysteresis /\ there.y - here.y <= Hysteresis
    BY <2>4, SidedSteps
  <2>6. ASSUME NEW c \in {p, q}
        PROVE  LET r == SidedRect(c, size, screen, mode, left, above) IN
               /\ r.x >= screen.x /\ r.x + r.w <= screen.x + screen.w
               /\ r.y >= screen.y /\ r.y + r.h <= screen.y + screen.h
    BY <2>4, SidedOnScreen
  <2>7. ASSUME NEW b \in free
        PROVE  /\ Away(here, band[b], b) \in Nat /\ Away(there, band[b], b) \in Nat
               /\ Squared(Pushed(here, band[b]), here) = Away(here, band[b], b) * Away(here, band[b], b)
               /\ Squared(Pushed(there, band[b]), there) = Away(there, band[b], b) * Away(there, band[b], b)
               /\ Away(here, band[b], b) - Away(there, band[b], b) <= Hysteresis
               /\ Away(there, band[b], b) - Away(here, band[b], b) <= Hysteresis
    <3>1. b \in 0 .. 3 /\ band[b] \in QRect
      BY <2>3
    <3> HIDE DEF here, there, blocked, free
    <3>2. /\ Away(here, band[b], b) \in Nat
          /\ Squared(Pushed(here, band[b]), here) = Away(here, band[b], b) * Away(here, band[b], b)
      BY <2>2, <2>5, <2>6, <3>1, DistanceIsAway DEF here
    <3>3. /\ Away(there, band[b], b) \in Nat
          /\ Squared(Pushed(there, band[b]), there) = Away(there, band[b], b) * Away(there, band[b], b)
      BY <2>2, <2>5, <2>6, <3>1, DistanceIsAway DEF there
    <3> HIDE DEF band
    <3>4. /\ here.x \in Int /\ here.y \in Int /\ there.x \in Int /\ there.y \in Int
          /\ size.w \in Int /\ size.h \in Int /\ band[b].x \in Int /\ band[b].y \in Int
          /\ XEdge(band[b]) \in Int /\ YEdge(band[b]) \in Int /\ Hysteresis \in Nat
      BY <2>5, <3>1, PlacementAssumption DEF QRect, XEdge, YEdge
    <3>5. /\ Away(here, band[b], b) - Away(there, band[b], b) <= Hysteresis
          /\ Away(there, band[b], b) - Away(here, band[b], b) <= Hysteresis
      BY <2>5, <3>4, ApartSteps DEF Away
    <3> QED BY <3>2, <3>3, <3>5
  <2>8. /\ d \in [0 .. 3 -> Nat] /\ e \in [0 .. 3 -> Nat]
        /\ \A b \in free : /\ d[b] - e[b] <= Hysteresis /\ e[b] - d[b] <= Hysteresis
                            /\ Distances(here, screen, avoid)[b] = d[b] * d[b]
                            /\ Distances(there, screen, avoid)[b] = e[b] * e[b]
    <3> HIDE DEF here, there, free
    <3> QED BY <2>1, <2>7 DEF Distances
  <2> HIDE DEF here, there, free, d, e
  <2>9. ASSUME NEW kept
        PROVE  /\ Leads(TakenBand(here, size, screen, avoid, kept), free, d, kept)
               /\ Leads(TakenBand(there, size, screen, avoid, kept), free, e, kept)
    <3>1. /\ TakenBand(here, size, screen, avoid, kept) = NearestBand(free, Distances(here, screen, avoid), kept)
          /\ TakenBand(there, size, screen, avoid, kept) = NearestBand(free, Distances(there, screen, avoid), kept)
      BY <1>4 DEF TakenBand, free
    <3> QED BY <2>1, <2>8, <3>1, NearestLeads
  <2>10. /\ Leads(three, free, d, two) /\ Leads(four, free, e, three) /\ Leads(five, free, d, four)
         /\ Leads(six, free, e, five) /\ Leads(seven, free, d, six)
    BY <1>1, <2>9
  <2>11. /\ free \in SUBSET (0 .. 3) /\ d \in [0 .. 3 -> Nat] /\ e \in [0 .. 3 -> Nat]
         /\ \A b \in free : d[b] - e[b] <= Hysteresis /\ e[b] - d[b] <= Hysteresis
    BY <2>1, <2>8
  <2> HIDE DEF blocked, band
  <2>12. six = five /\ seven = five
    BY ONLY <2>10, <2>11, TakenBandsRest
  <2> QED BY <2>12
<1> QED BY <1>2, <1>3, <1>4

(* A hand that wavers within the hysteresis, over a screen a third of which  *)
(* is no less high than it and half of which is no narrower than the offset, *)
(* sends the card across the pointer at most once on either axis, and from   *)
(* the fifth sample on leaves it in one band.                                *)
LaterBands(path) == {path[i].band : i \in 5 .. 7} \ {-1}

LEMMA WaverRests ==
    ASSUME NEW p \in [x : Int, y : Int], NEW q \in [x : Int, y : Int],
           p.x - q.x < Hysteresis, q.x - p.x < Hysteresis,
           p.y - q.y < Hysteresis, q.y - p.y < Hysteresis,
           NEW size \in [w : Nat, h : Nat], NEW screen \in QRect,
           3 * Hysteresis <= screen.h, 2 * Offset <= screen.w,
           NEW mode \in Modes, NEW avoid \in QRect, NEW sides \in Sides, sides.known
    PROVE  LET path == Wavering(p, q, size, screen, mode, avoid, sides) IN
           /\ DOMAIN path = 1 .. 7
           /\ TurnsAtMostOnce([i \in 1 .. 7 |-> path[i].left])
           /\ TurnsAtMostOnce([i \in 1 .. 7 |-> path[i].above])
           /\ Len(path) = 7 /\ Cardinality(LaterBands(path)) <= 1
<1> DEFINE at(point, last) == PlacedAvoiding(point, size, screen, mode, avoid, last).sides
           bandAt(point, left, above, kept) ==
               TakenBand(SidedRect(point, size, screen, mode, left, above), size, screen, avoid, kept)
           side(l, a) == [known |-> TRUE, left |-> l, above |-> a, band |-> -1]
           LeftAt(point) == [l \in BOOLEAN |-> FlipsLeft(point, size, screen, mode, side(l, TRUE))]
           AboveAt(point) == [a \in BOOLEAN |-> FlipsAbove(point, size, screen, mode, side(TRUE, a))]
           path == Wavering(p, q, size, screen, mode, avoid, sides)
           lefts == [i \in 1 .. 7 |-> path[i].left]
           aboves == [i \in 1 .. 7 |-> path[i].above]
<1>1. ASSUME NEW point \in {p, q}, NEW last \in Sides, last.known
      PROVE  /\ at(point, last) \in Sides /\ at(point, last).known
             /\ at(point, last).left = LeftAt(point)[last.left]
             /\ at(point, last).above = AboveAt(point)[last.above]
             /\ at(point, last).band
                  = bandAt(point, at(point, last).left, at(point, last).above, last.band)
  <2>1. point \in [x : Int, y : Int] /\ last.left \in BOOLEAN /\ last.above \in BOOLEAN
    BY DEF Sides
  <2>2. at(point, last) \in Sides
    BY <2>1, PlacedOffText
  <2>3. /\ at(point, last).known
        /\ at(point, last).left = FlipsLeft(point, size, screen, mode, last)
        /\ at(point, last).above = FlipsAbove(point, size, screen, mode, last)
    BY <2>1, SidesOfMode
  <2>4. /\ LeftAt(point)[last.left] = FlipsLeft(point, size, screen, mode, last)
        /\ AboveAt(point)[last.above] = FlipsAbove(point, size, screen, mode, last)
    BY <1>1, <2>1 DEF FlipsLeft, FlipsAbove, Below
  <2>5. at(point, last).band
          = bandAt(point, at(point, last).left, at(point, last).above, last.band)
    BY <1>1, <2>1, BandOfPlacement
  <2> QED BY <2>2, <2>3, <2>4, <2>5
<1>2. ASSUME NEW a \in {p, q}, NEW b \in {p, q}
      PROVE  /\ LeftAt(a) \in [BOOLEAN -> BOOLEAN] /\ KeepsChanged(BOOLEAN, LeftAt(a), LeftAt(b))
             /\ AboveAt(a) \in [BOOLEAN -> BOOLEAN] /\ KeepsChanged(BOOLEAN, AboveAt(a), AboveAt(b))
  <2>1. /\ LeftAt(a) \in [BOOLEAN -> BOOLEAN] /\ LeftAt(b) \in [BOOLEAN -> BOOLEAN]
        /\ AboveAt(a) \in [BOOLEAN -> BOOLEAN] /\ AboveAt(b) \in [BOOLEAN -> BOOLEAN]
    BY DEF FlipsLeft, FlipsAbove, Below
  <2>2. ASSUME NEW c \in {a, b}
        PROVE  /\ LeftAt(a)[FALSE] => LeftAt(c)[TRUE]
               /\ ~LeftAt(a)[TRUE] => ~LeftAt(c)[FALSE]
               /\ AboveAt(a)[FALSE] => AboveAt(c)[TRUE]
               /\ ~AboveAt(a)[TRUE] => ~AboveAt(c)[FALSE]
    <3>1. /\ a \in [x : Int, y : Int] /\ c \in [x : Int, y : Int]
          /\ a.x - c.x < Hysteresis /\ c.x - a.x < Hysteresis
          /\ a.y - c.y < Hysteresis /\ c.y - a.y < Hysteresis
      BY PlacementAssumption
    <3>2. size.w \in Int /\ size.h \in Int
      OBVIOUS
    <3>3. \A l \in BOOLEAN, m \in BOOLEAN :
            side(l, m).known = TRUE /\ side(l, m).left = l /\ side(l, m).above = m
      OBVIOUS
    <3> HIDE DEF side
    <3>4. /\ FlipsLeft(a, size, screen, mode, side(FALSE, TRUE))
             => FlipsLeft(c, size, screen, mode, side(TRUE, TRUE))
          /\ ~FlipsLeft(a, size, screen, mode, side(TRUE, TRUE))
             => ~FlipsLeft(c, size, screen, mode, side(FALSE, TRUE))
      BY <3>1, <3>2, <3>3, LeftIsKept
    <3>5. /\ FlipsAbove(a, size, screen, mode, side(TRUE, FALSE))
             => FlipsAbove(c, size, screen, mode, side(TRUE, TRUE))
          /\ ~FlipsAbove(a, size, screen, mode, side(TRUE, TRUE))
             => ~FlipsAbove(c, size, screen, mode, side(TRUE, FALSE))
      BY <3>1, <3>2, <3>3, AboveIsKept
    <3> QED BY <3>4, <3>5
  <2> HIDE DEF LeftAt, AboveAt
  <2>3. KeepsChanged(BOOLEAN, LeftAt(a), LeftAt(b))
    BY <2>1, <2>2 DEF KeepsChanged
  <2>4. KeepsChanged(BOOLEAN, AboveAt(a), AboveAt(b))
    BY <2>1, <2>2 DEF KeepsChanged
  <2> QED BY <2>1, <2>3, <2>4
<1> DEFINE one == at(q, sides)
           two == at(p, one)
           three == at(q, two)
           four == at(p, three)
           five == at(q, four)
           six == at(p, five)
<1>3. path = <<sides, one, two, three, four, five, six>>
  BY DEF Wavering
<1> HIDE DEF path, LeftAt, AboveAt, bandAt, at
<1>4. /\ sides \in Sides /\ sides.known
      /\ one \in Sides /\ one.known
      /\ one.left = LeftAt(q)[sides.left] /\ one.above = AboveAt(q)[sides.above]
  BY <1>1
<1> HIDE DEF one
<1>5. /\ two \in Sides /\ two.known
      /\ two.left = LeftAt(p)[one.left] /\ two.above = AboveAt(p)[one.above]
      /\ two.band = bandAt(p, two.left, two.above, one.band)
  BY <1>1, <1>4
<1> HIDE DEF two
<1>6. /\ three \in Sides /\ three.known
      /\ three.left = LeftAt(q)[two.left] /\ three.above = AboveAt(q)[two.above]
      /\ three.band = bandAt(q, three.left, three.above, two.band)
  BY <1>1, <1>5
<1> HIDE DEF three
<1>7. /\ four \in Sides /\ four.known
      /\ four.left = LeftAt(p)[three.left] /\ four.above = AboveAt(p)[three.above]
      /\ four.band = bandAt(p, four.left, four.above, three.band)
  BY <1>1, <1>6
<1> HIDE DEF four
<1>8. /\ five \in Sides /\ five.known
      /\ five.left = LeftAt(q)[four.left] /\ five.above = AboveAt(q)[four.above]
      /\ five.band = bandAt(q, five.left, five.above, four.band)
  BY <1>1, <1>7
<1> HIDE DEF five
<1>9. /\ six \in Sides /\ six.known
      /\ six.left = LeftAt(p)[five.left] /\ six.above = AboveAt(p)[five.above]
      /\ six.band = bandAt(p, six.left, six.above, five.band)
  BY <1>1, <1>8
<1> HIDE DEF six
<1>10. /\ path[1] = sides /\ path[2] = one /\ path[3] = two /\ path[4] = three
       /\ path[5] = four /\ path[6] = five /\ path[7] = six
  BY <1>3
<1>11. DOMAIN path = 1 .. 7
  BY <1>3
<1>12. \A i \in 1 .. 7 : path[i] \in Sides
  <2> TAKE i \in 1 .. 7
  <2>1. i = 1 \/ i = 2 \/ i = 3 \/ i = 4 \/ i = 5 \/ i = 6 \/ i = 7
    OBVIOUS
  <2> QED BY <2>1, <1>4, <1>5, <1>6, <1>7, <1>8, <1>9, <1>10
<1>13. lefts \in [1 .. 7 -> BOOLEAN] /\ aboves \in [1 .. 7 -> BOOLEAN]
  BY <1>12 DEF Sides
<1>14. /\ lefts[1] = sides.left /\ lefts[2] = one.left /\ lefts[3] = two.left
       /\ lefts[4] = three.left /\ lefts[5] = four.left /\ lefts[6] = five.left
       /\ lefts[7] = six.left
  BY <1>10
<1>15. /\ aboves[1] = sides.above /\ aboves[2] = one.above /\ aboves[3] = two.above
       /\ aboves[4] = three.above /\ aboves[5] = four.above /\ aboves[6] = five.above
       /\ aboves[7] = six.above
  BY <1>10
<1> HIDE DEF lefts, aboves
<1>16. Alternates(lefts, LeftAt(q), LeftAt(p))
  BY <1>4, <1>5, <1>6, <1>7, <1>8, <1>9, <1>14 DEF Alternates
<1>17. Alternates(aboves, AboveAt(q), AboveAt(p))
  BY <1>4, <1>5, <1>6, <1>7, <1>8, <1>9, <1>15 DEF Alternates
<1>18. /\ TurnsAtMostOnce(lefts) /\ Rested(lefts)
       /\ TurnsAtMostOnce(aboves) /\ Rested(aboves)
  BY <1>2, <1>13, <1>16, <1>17, KeptChoiceTurnsOnce
(* The sides have settled on the third sample, the band on the fifth.        *)
<1>19. /\ three.left = two.left /\ four.left = two.left /\ five.left = two.left /\ six.left = two.left
       /\ three.above = two.above /\ four.above = two.above
       /\ five.above = two.above /\ six.above = two.above
  BY <1>14, <1>15, <1>18 DEF Rested
<1>20. /\ two.band = bandAt(p, two.left, two.above, one.band)
       /\ three.band = bandAt(q, two.left, two.above, two.band)
       /\ four.band = bandAt(p, two.left, two.above, three.band)
       /\ five.band = bandAt(q, two.left, two.above, four.band)
       /\ six.band = bandAt(p, two.left, two.above, five.band)
  BY <1>5, <1>6, <1>7, <1>8, <1>9, <1>19
<1>21. \E b : {four.band, five.band, six.band} \subseteq {-1, b}
  BY <1>20, TakenBandsSettle DEF bandAt
<1>22. PICK b : {four.band, five.band, six.band} \subseteq {-1, b}
  BY <1>21
<1> DEFINE bands == LaterBands(path)
<1>23. bands \in SUBSET {b}
  <2>1. ASSUME NEW v \in bands PROVE v = b
    <3>1. v # -1
      BY <2>1 DEF LaterBands
    <3>2. PICK i \in 5 .. 7 : v = path[i].band
      BY <2>1 DEF LaterBands
    <3>3. i = 5 \/ i = 6 \/ i = 7
      OBVIOUS
    <3>4. v \in {four.band, five.band, six.band}
      BY <1>10, <3>2, <3>3
    <3> QED BY <1>22, <3>1, <3>4
  <2> HIDE DEF bands
  <2> QED BY <2>1
<1> HIDE DEF bands
<1>24. IsFiniteSet({b}) /\ Cardinality({b}) = 1
  BY FS_Singleton
<1>25. Cardinality(bands) <= 1
  BY <1>23, <1>24, FS_Subset
<1>26. Len(path) = 7
  BY <1>3
<1> QED BY <1>11, <1>18, <1>25, <1>26 DEF lefts, aboves, bands, path
=============================================================================
