-------------------------- MODULE ScanRegionProofs --------------------------
(* The regions of capture/scanregion.cpp, for every size of the region, of   *)
(* the workspace and of the outputs.                                         *)
EXTENDS ScanRegion, FiniteSetTheorems, TLAPS

(* A rectangle that isEmpty() is false for.                                  *)
Area == {r \in QRect : ~Empty(r)}
Dot == [x : Int, y : Int]
Extent == [w : Nat \ {0}, h : Nat \ {0}]

-----------------------------------------------------------------------------
(* Rounded() is the nearest integer to the quotient.                         *)
LEMMA RoundedIsNear ==
    ASSUME NEW n \in Int, NEW d \in Nat \ {0}
    PROVE  /\ Rounded(n, d) \in Int
           /\ 2 * (d * Rounded(n, d)) <= 2 * n + d
           /\ 2 * (d * Rounded(n, d)) >= 2 * n - d
           /\ n >= 0 => Rounded(n, d) >= 0
           /\ n < 0 => Rounded(n, d) <= 0
<1>1. CASE n >= 0
  <2> DEFINE q == (2 * n + d) \div (2 * d)
  <2>1. q \in Int /\ (2 * d) * q <= 2 * n + d /\ 2 * n + d < (2 * d) * q + 2 * d
        OBVIOUS
  <2>2. Rounded(n, d) = q
        BY <1>1 DEF Rounded
  <2>3. q >= 0
        BY <2>1, <1>1
  <2> HIDE DEF q
  <2> QED BY <2>1, <2>2, <2>3, <1>1
<1>2. CASE n < 0
  <2> DEFINE q == (d - 2 * n) \div (2 * d)
  <2>1. q \in Int /\ (2 * d) * q <= d - 2 * n /\ d - 2 * n < (2 * d) * q + 2 * d
        OBVIOUS
  <2>2. Rounded(n, d) = -q
        BY <1>2 DEF Rounded
  <2>3. q >= 0
        BY <2>1, <1>2
  <2> HIDE DEF q
  <2> QED BY <2>1, <2>2, <2>3, <1>2
<1> QED BY <1>1, <1>2

(* For what is not negative a half is rounded up.                            *)
LEMMA RoundedAtLeast ==
    ASSUME NEW n \in Nat, NEW d \in Nat \ {0}, NEW k \in Int
    PROVE  Rounded(n, d) >= k <=> 2 * n + d >= 2 * (d * k)
<1> DEFINE q == (2 * n + d) \div (2 * d)
<1>1. q \in Int /\ (2 * d) * q <= 2 * n + d /\ 2 * n + d < (2 * d) * q + 2 * d
      OBVIOUS
<1>2. Rounded(n, d) = q
      BY DEF Rounded
<1> HIDE DEF q
<1>3. ASSUME q >= k PROVE d * q >= d * k
      BY <1>1, <1>3
<1>4. ASSUME q < k PROVE d * q + d <= d * k
  <2>1. q + 1 <= k
        BY <1>1, <1>4
  <2>2. d * (q + 1) <= d * k
        BY <1>1, <2>1
  <2> QED BY <1>1, <2>2
<1> QED BY <1>1, <1>2, <1>3, <1>4

-----------------------------------------------------------------------------
(* The centre of a span is in it, and centring a span on a point puts its    *)
(* centre there, or one further where the coordinates are negative.          *)
LEMMA CentreIsInside ==
    ASSUME NEW at \in Int, NEW span \in Nat \ {0}
    PROVE  /\ Middle(at, span) \in at .. at + span - 1
           /\ 2 * Middle(at, span) - (2 * at + span) \in {-2, -1, 0}
           /\ at >= 0 => 2 * Middle(at, span) - (2 * at + span) = IF span % 2 = 0 THEN -2 ELSE -1
BY DEF Middle

LEMMA CentringCentres ==
    ASSUME NEW point \in Int, NEW span \in Nat \ {0}
    PROVE  /\ Centred(point, span) \in Int
           /\ Centred(point, span) <= point
           /\ point < Centred(point, span) + span
           /\ Middle(Centred(point, span), span) \in {point, point + 1}
BY DEF Middle, Centred

LEMMA StrideIsHalf ==
    ASSUME NEW span \in Nat \ {0}
    PROVE  /\ Stride(span) \in Nat \ {0}
           /\ Stride(span) <= span
           /\ 2 * Stride(span) + 1 >= span
           /\ span > 1 => Stride(span) = span \div 2
BY DEF Stride, Greater

(* A span no larger than the room is moved into it.                          *)
LEMMA MovedIsInside ==
    ASSUME NEW at \in Int, NEW span \in Nat, NEW low \in Int, NEW room \in Nat, span <= room
    PROVE  /\ MovedInto(at, span, low, room) \in Int
           /\ MovedInto(at, span, low, room) >= low
           /\ MovedInto(at, span, low, room) + span <= low + room
BY DEF MovedInto

-----------------------------------------------------------------------------
(* One axis of initialRect() and of grow().                                  *)
LEMMA ClampedIsInside ==
    ASSUME NEW point \in Int, NEW low \in Int, NEW room \in Nat \ {0}
    PROVE  /\ Clamped(point, low, room) \in low .. low + room - 1
           /\ point \in low .. low + room - 1 => Clamped(point, low, room) = point
BY DEF Clamped, Greater, Lesser

LEMMA InitialOnAxis ==
    ASSUME NEW cursor \in Int, NEW span \in Nat \ {0}, NEW low \in Int, NEW room \in Nat,
           span <= room
    PROVE  /\ Initial(cursor, span, low, room) \in low .. low + room - span
           /\ Initial(cursor, span, low, room) <= Clamped(cursor, low, room)
           /\ Clamped(cursor, low, room) < Initial(cursor, span, low, room) + span
<1> DEFINE p == Clamped(cursor, low, room)
<1>1. p \in low .. low + room - 1
      BY ClampedIsInside
<1>2. p \in Int
      BY <1>1
<1>3. Centred(p, span) \in Int /\ Centred(p, span) <= p /\ p < Centred(p, span) + span
      BY <1>2, CentringCentres
<1> QED BY <1>1, <1>2, <1>3 DEF Initial, MovedInto

LEMMA GrownOnAxis ==
    ASSUME NEW at \in Int, NEW span \in Nat \ {0}, NEW next \in Nat \ {0}, NEW cursor \in Int,
           NEW low \in Int, NEW room \in Nat, next <= room
    PROVE  /\ Grown(at, span, next, cursor, low, room) \in low .. low + room - next
           /\ Grown(at, span, next, cursor, low, room) <= Clamped(cursor, low, room)
           /\ Clamped(cursor, low, room) < Grown(at, span, next, cursor, low, room) + next
<1> DEFINE p == Clamped(cursor, low, room)
           m == MovedInto(Centred(Middle(at, span), next), next, low, room)
<1>1. p \in low .. low + room - 1
      BY ClampedIsInside
<1>2. Middle(at, span) \in Int
      BY CentreIsInside
<1>3. Centred(Middle(at, span), next) \in Int
      BY <1>2, CentringCentres
<1>4. m \in Int /\ m >= low /\ m + next <= low + room
      BY <1>3, MovedIsInside
<1>5. Grown(at, span, next, cursor, low, room) = MovedToContain(m, next, p)
      BY DEF Grown
<1> HIDE DEF m, p
<1>6. /\ MovedToContain(m, next, p) \in low .. low + room - next
      /\ MovedToContain(m, next, p) <= p
      /\ p < MovedToContain(m, next, p) + next
      BY <1>1, <1>4 DEF MovedToContain
<1> QED BY <1>5, <1>6 DEF p

LEMMA GrownKeepsOnAxis ==
    ASSUME NEW at \in Nat, NEW span \in Nat \ {0}, NEW next \in Nat, NEW cursor \in Int,
           NEW low \in Int, NEW room \in Nat, span <= next, next <= room,
           low <= at, at + span <= low + room, cursor \in at .. at + span - 1
    PROVE  /\ Grown(at, span, next, cursor, low, room) <= at
           /\ at + span <= Grown(at, span, next, cursor, low, room) + next
<1> DEFINE m == MovedInto(Centred(Middle(at, span), next), next, low, room)
<1>1. Clamped(cursor, low, room) = cursor
      BY DEF Clamped, Greater, Lesser
<1>2. Middle(at, span) = at + (span - 1) \div 2
      BY DEF Middle
<1>3. /\ Centred(Middle(at, span), next) <= at
      /\ at + span <= Centred(Middle(at, span), next) + next
      /\ Centred(Middle(at, span), next) \in Int
      BY <1>2 DEF Centred
<1>4. m \in Int /\ m <= at /\ at + span <= m + next
      BY <1>3 DEF MovedInto
<1>5. Grown(at, span, next, cursor, low, room) = MovedToContain(m, next, cursor)
      BY <1>1 DEF Grown
<1> HIDE DEF m
<1> QED BY <1>4, <1>5 DEF MovedToContain

-----------------------------------------------------------------------------
(* One axis of wlrTileFor(): where the tile is before it is moved into the   *)
(* output, and where it comes to lie.                                        *)
Snapped(at, requested, span, low) ==
    low + Stride(span) * Rounded(Middle(at, requested) - span \div 2 - low, Stride(span))

(* On the lattice of half tiles, or at the far edge.                         *)
OnGrid(at, span, low, room) ==
    at = low + room - span \/ \E k \in Nat : at = low + Stride(span) * k

LEMMA SnappedIsNear ==
    ASSUME NEW at \in Int, NEW requested \in Nat \ {0}, NEW span \in Nat \ {0}, NEW low \in Int
    PROVE  /\ Snapped(at, requested, span, low) \in Int
           /\ Snapped(at, requested, span, low) <= Middle(at, requested)
           /\ Middle(at, requested) < Snapped(at, requested, span, low) + span
           /\ Snapped(at, requested, span, low) >= low =>
                  \E k \in Nat : Snapped(at, requested, span, low) = low + Stride(span) * k
           /\ span >= 3 => Snapped(at, requested, span, low) < Middle(at, requested)
<1> DEFINE s == Stride(span)
           c == Middle(at, requested)
           want == c - span \div 2 - low
           q == Rounded(want, s)
           move == s * q
<1>1. s \in Nat \ {0} /\ (span > 1 => s = span \div 2) /\ (span = 1 => s = 1)
      BY StrideIsHalf DEF Stride, Greater
<1>2. c \in Int
      BY CentreIsInside
<1>3. want \in Int
      BY <1>2
<1>4. /\ q \in Int /\ 2 * move <= 2 * want + s /\ 2 * move >= 2 * want - s
      BY <1>1, <1>3, RoundedIsNear
<1>5. move \in Int
      BY <1>1, <1>4
<1>6. Snapped(at, requested, span, low) = low + move
      BY DEF Snapped
<1>7. move >= 0 => q >= 0
      BY <1>1, <1>4
<1>8. move >= 0 => \E k \in Nat : low + move = low + s * k
      BY <1>1, <1>4, <1>7
<1> HIDE DEF move, q, s, c
<1>9. /\ low + move <= c
      /\ c < low + move + span
      /\ span >= 3 => low + move < c
      BY <1>1, <1>2, <1>4, <1>5
<1> QED BY <1>5, <1>6, <1>8, <1>9 DEF s, c

LEMMA TileOnAxis ==
    ASSUME NEW at \in Int, NEW requested \in Nat \ {0}, NEW span \in Nat \ {0}, NEW low \in Int,
           NEW room \in Nat, span <= room
    PROVE  /\ Tile(at, requested, span, low, room) \in low .. low + room - span
           /\ Middle(at, requested) \in low .. low + room - 1 =>
                  Middle(at, requested)
                      \in Tile(at, requested, span, low, room) .. Tile(at, requested, span, low, room) + span - 1
           /\ OnGrid(Tile(at, requested, span, low, room), span, low, room)
<1> DEFINE t == Snapped(at, requested, span, low)
           c == Middle(at, requested)
<1>1. c \in Int
      BY CentreIsInside
<1>2. /\ t \in Int /\ t <= c /\ c < t + span
      /\ t >= low => \E k \in Nat : t = low + Stride(span) * k
      BY SnappedIsNear
<1>3. Tile(at, requested, span, low, room) = MovedInto(t, span, low, room)
      BY DEF Tile, Snapped
<1>4. Stride(span) \in Nat
      BY StrideIsHalf
<1>5. low = low + Stride(span) * 0
      BY <1>4
<1> HIDE DEF t, c
<1>6. CASE t < low
  <2>1. MovedInto(t, span, low, room) = low
        BY <1>6 DEF MovedInto
  <2> QED BY <1>1, <1>2, <1>3, <1>5, <1>6, <2>1 DEF c, OnGrid
<1>7. CASE t >= low
  <2>1. MovedInto(t, span, low, room) = IF t + span > low + room THEN low + room - span ELSE t
        BY <1>2, <1>7 DEF MovedInto
  <2> QED BY <1>1, <1>2, <1>3, <1>7, <2>1 DEF c, OnGrid
<1> QED BY <1>2, <1>6, <1>7

-----------------------------------------------------------------------------
(* The region of a scan lies in the workspace and holds the pointer, brought *)
(* into the workspace where it is outside, and it has the initial size as    *)
(* far as the workspace is as large: initialRect().                          *)
THEOREM InitialIsAround ==
    ASSUME NEW cursor \in Dot, NEW size \in Extent, NEW workspace \in Area
    PROVE  LET r == FirstRect(cursor, size, workspace)
           IN  /\ r \in Area /\ Within(r, workspace)
               /\ r.w = Lesser(size.w, workspace.w) /\ r.h = Lesser(size.h, workspace.h)
               /\ Holds(r, [x |-> Clamped(cursor.x, workspace.x, workspace.w),
                            y |-> Clamped(cursor.y, workspace.y, workspace.h)])
               /\ Holds(workspace, cursor) => Holds(r, cursor)
<1> DEFINE w == Lesser(size.w, workspace.w)
           h == Lesser(size.h, workspace.h)
           x == Initial(cursor.x, w, workspace.x, workspace.w)
           y == Initial(cursor.y, h, workspace.y, workspace.h)
<1>1. /\ workspace.x \in Int /\ workspace.y \in Int
      /\ workspace.w \in Nat \ {0} /\ workspace.h \in Nat \ {0}
      /\ cursor.x \in Int /\ cursor.y \in Int
      /\ size.w \in Nat \ {0} /\ size.h \in Nat \ {0}
      BY DEF Area, QRect, Empty, Dot, Extent
<1>2. w \in Nat \ {0} /\ w <= workspace.w /\ h \in Nat \ {0} /\ h <= workspace.h
      BY <1>1 DEF Lesser
<1>3. FirstRect(cursor, size, workspace) = [x |-> x, y |-> y, w |-> w, h |-> h]
      BY <1>1 DEF FirstRect, Empty
<1> HIDE DEF w, h
<1>4. /\ x \in workspace.x .. workspace.x + workspace.w - w
      /\ x <= Clamped(cursor.x, workspace.x, workspace.w)
      /\ Clamped(cursor.x, workspace.x, workspace.w) < x + w
      BY <1>1, <1>2, InitialOnAxis
<1>5. /\ y \in workspace.y .. workspace.y + workspace.h - h
      /\ y <= Clamped(cursor.y, workspace.y, workspace.h)
      /\ Clamped(cursor.y, workspace.y, workspace.h) < y + h
      BY <1>1, <1>2, InitialOnAxis
<1>6. /\ Clamped(cursor.x, workspace.x, workspace.w) \in Int
      /\ cursor.x \in workspace.x .. workspace.x + workspace.w - 1 =>
             Clamped(cursor.x, workspace.x, workspace.w) = cursor.x
      BY <1>1 DEF Clamped, Greater, Lesser
<1>7. /\ Clamped(cursor.y, workspace.y, workspace.h) \in Int
      /\ cursor.y \in workspace.y .. workspace.y + workspace.h - 1 =>
             Clamped(cursor.y, workspace.y, workspace.h) = cursor.y
      BY <1>1 DEF Clamped, Greater, Lesser
<1> DEFINE r == [x |-> x, y |-> y, w |-> w, h |-> h]
<1>8. r.x = x /\ r.y = y /\ r.w = w /\ r.h = h
      OBVIOUS
<1>9. r \in QRect
      BY <1>1, <1>2, <1>4, <1>5 DEF QRect
<1> HIDE DEF x, y, r
<1>10. r \in Area /\ Within(r, workspace)
       BY <1>1, <1>2, <1>4, <1>5, <1>8, <1>9 DEF Area, Empty, Within, XEdge, YEdge
<1>11. Holds(r, [x |-> Clamped(cursor.x, workspace.x, workspace.w),
                 y |-> Clamped(cursor.y, workspace.y, workspace.h)])
       BY <1>1, <1>2, <1>4, <1>5, <1>6, <1>7, <1>8 DEF Holds, XEdge, YEdge
<1>12. Holds(workspace, cursor) => Holds(r, cursor)
       BY <1>1, <1>2, <1>4, <1>5, <1>6, <1>7, <1>8 DEF Holds, XEdge, YEdge
<1> QED BY <1>3, <1>8, <1>10, <1>11, <1>12 DEF w, h, r

(* A rung above a region lies in the workspace, holds the pointer and is     *)
(* larger than it, so that the ladder of grow() ends.  Unless coordinates    *)
(* are negative, where QRect::center() rounds to the other side, it holds    *)
(* what the region held as long as the pointer is there.                     *)
THEOREM GrownIsLarger ==
    ASSUME NEW current \in Area, NEW cursor \in Dot, NEW maxSize \in Extent, NEW workspace \in Area,
           Within(current, workspace), current.w <= maxSize.w, current.h <= maxSize.h,
           GrownRect(current, cursor, maxSize, workspace) # EmptyRect
    PROVE  LET g == GrownRect(current, cursor, maxSize, workspace)
           IN  /\ g \in Area /\ Within(g, workspace)
               /\ g.w <= maxSize.w /\ g.h <= maxSize.h
               /\ g.w >= current.w /\ g.h >= current.h /\ g.w + g.h > current.w + current.h
               /\ Holds(g, [x |-> Clamped(cursor.x, workspace.x, workspace.w),
                            y |-> Clamped(cursor.y, workspace.y, workspace.h)])
               /\ Holds(current, cursor) /\ workspace.x >= 0 /\ workspace.y >= 0 => Within(current, g)
<1> DEFINE limitW == Lesser(maxSize.w, workspace.w)
           limitH == Lesser(maxSize.h, workspace.h)
           w == Doubled(current.w, limitW)
           h == Doubled(current.h, limitH)
           x == Grown(current.x, current.w, w, cursor.x, workspace.x, workspace.w)
           y == Grown(current.y, current.h, h, cursor.y, workspace.y, workspace.h)
<1>1. /\ workspace.x \in Int /\ workspace.y \in Int
      /\ workspace.w \in Nat \ {0} /\ workspace.h \in Nat \ {0}
      /\ cursor.x \in Int /\ cursor.y \in Int
      /\ maxSize.w \in Nat \ {0} /\ maxSize.h \in Nat \ {0}
      /\ current.x \in Int /\ current.y \in Int
      /\ current.w \in Nat \ {0} /\ current.h \in Nat \ {0}
      BY DEF Area, QRect, Empty, Dot, Extent
<1>2. /\ current.x >= workspace.x /\ current.x + current.w <= workspace.x + workspace.w
      /\ current.y >= workspace.y /\ current.y + current.h <= workspace.y + workspace.h
      BY DEF Within, XEdge, YEdge
<1>3. /\ GrownRect(current, cursor, maxSize, workspace) = [x |-> x, y |-> y, w |-> w, h |-> h]
      /\ ~(current.w >= limitW /\ current.h >= limitH)
      BY <1>1 DEF GrownRect, Empty, EmptyRect
<1>4. /\ w \in Nat \ {0} /\ current.w <= w /\ w <= maxSize.w /\ w <= workspace.w
      /\ h \in Nat \ {0} /\ current.h <= h /\ h <= maxSize.h /\ h <= workspace.h
      /\ w + h > current.w + current.h
      BY <1>1, <1>2, <1>3 DEF Lesser, Doubled
<1> HIDE DEF w, h
<1>5. /\ x \in workspace.x .. workspace.x + workspace.w - w
      /\ x <= Clamped(cursor.x, workspace.x, workspace.w)
      /\ Clamped(cursor.x, workspace.x, workspace.w) < x + w
      BY <1>1, <1>4, GrownOnAxis
<1>6. /\ y \in workspace.y .. workspace.y + workspace.h - h
      /\ y <= Clamped(cursor.y, workspace.y, workspace.h)
      /\ Clamped(cursor.y, workspace.y, workspace.h) < y + h
      BY <1>1, <1>4, GrownOnAxis
<1>7. /\ Clamped(cursor.x, workspace.x, workspace.w) \in Int
      /\ Clamped(cursor.y, workspace.y, workspace.h) \in Int
      BY <1>1 DEF Clamped, Greater, Lesser
<1>8. ASSUME Holds(current, cursor), workspace.x >= 0, workspace.y >= 0
      PROVE  x <= current.x /\ current.x + current.w <= x + w
  <2>1. cursor.x \in current.x .. current.x + current.w - 1 /\ current.x \in Nat
        BY <1>1, <1>2, <1>8 DEF Holds, XEdge
  <2> QED BY <1>1, <1>2, <1>4, <2>1, GrownKeepsOnAxis
<1>9. ASSUME Holds(current, cursor), workspace.x >= 0, workspace.y >= 0
      PROVE  y <= current.y /\ current.y + current.h <= y + h
  <2>1. cursor.y \in current.y .. current.y + current.h - 1 /\ current.y \in Nat
        BY <1>1, <1>2, <1>9 DEF Holds, YEdge
  <2> QED BY <1>1, <1>2, <1>4, <2>1, GrownKeepsOnAxis
<1> DEFINE g == [x |-> x, y |-> y, w |-> w, h |-> h]
<1>10. g.x = x /\ g.y = y /\ g.w = w /\ g.h = h
       OBVIOUS
<1>11. g \in QRect
       BY <1>1, <1>4, <1>5, <1>6 DEF QRect
<1> HIDE DEF x, y, g
<1>12. g \in Area /\ Within(g, workspace)
       BY <1>1, <1>4, <1>5, <1>6, <1>10, <1>11 DEF Area, Empty, Within, XEdge, YEdge
<1>13. Holds(g, [x |-> Clamped(cursor.x, workspace.x, workspace.w),
                 y |-> Clamped(cursor.y, workspace.y, workspace.h)])
       BY <1>1, <1>4, <1>5, <1>6, <1>7, <1>10 DEF Holds, XEdge, YEdge
<1>14. Holds(current, cursor) /\ workspace.x >= 0 /\ workspace.y >= 0 => Within(current, g)
       BY <1>8, <1>9, <1>10 DEF Within, XEdge, YEdge
<1> QED BY <1>3, <1>4, <1>10, <1>12, <1>13, <1>14 DEF g

-----------------------------------------------------------------------------
(* The tile of a region lies on the output, has the size of the region as    *)
(* far as the output is as large, and holds the centre of the region if the  *)
(* output does: wlrTileFor().  Every tile lies on the lattice of half tiles, *)
(* or at the far edge, so that a session asks the compositor for a bounded   *)
(* number of boxes.                                                          *)
THEOREM TilesAreOfTheGrid ==
    ASSUME NEW requested \in Area, NEW output \in Area
    PROVE  LET t == WlrTileFor(requested, output)
           IN  /\ t \in Area /\ Within(t, output)
               /\ t.w = Lesser(requested.w, output.w) /\ t.h = Lesser(requested.h, output.h)
               /\ Holds(output, CentreOf(requested)) => Holds(t, CentreOf(requested))
               /\ OnGrid(t.x, t.w, output.x, output.w)
               /\ OnGrid(t.y, t.h, output.y, output.h)
<1> DEFINE w == Lesser(requested.w, output.w)
           h == Lesser(requested.h, output.h)
           x == Tile(requested.x, requested.w, w, output.x, output.w)
           y == Tile(requested.y, requested.h, h, output.y, output.h)
           cx == Middle(requested.x, requested.w)
           cy == Middle(requested.y, requested.h)
<1>1. /\ output.x \in Int /\ output.y \in Int
      /\ output.w \in Nat \ {0} /\ output.h \in Nat \ {0}
      /\ requested.x \in Int /\ requested.y \in Int
      /\ requested.w \in Nat \ {0} /\ requested.h \in Nat \ {0}
      BY DEF Area, QRect, Empty
<1>2. /\ w \in Nat \ {0} /\ w <= output.w /\ output.w \in Nat
      /\ h \in Nat \ {0} /\ h <= output.h /\ output.h \in Nat
      BY <1>1 DEF Lesser
<1>3. WlrTileFor(requested, output) = [x |-> x, y |-> y, w |-> w, h |-> h]
      BY <1>1 DEF WlrTileFor, Empty
<1> HIDE DEF w, h
<1>4. /\ x \in output.x .. output.x + output.w - w
      /\ cx \in output.x .. output.x + output.w - 1 => cx \in x .. x + w - 1
      /\ OnGrid(x, w, output.x, output.w)
      BY <1>1, <1>2, TileOnAxis
<1>5. /\ y \in output.y .. output.y + output.h - h
      /\ cy \in output.y .. output.y + output.h - 1 => cy \in y .. y + h - 1
      /\ OnGrid(y, h, output.y, output.h)
      BY <1>1, <1>2, TileOnAxis
<1>6. CentreOf(requested).x = cx /\ CentreOf(requested).y = cy
      BY DEF CentreOf
<1> DEFINE t == [x |-> x, y |-> y, w |-> w, h |-> h]
<1>7. t.x = x /\ t.y = y /\ t.w = w /\ t.h = h
      OBVIOUS
<1>8. t \in QRect
      BY <1>1, <1>2, <1>4, <1>5 DEF QRect
<1> HIDE DEF x, y, t, cx, cy
<1>9. t \in Area /\ Within(t, output)
      BY <1>1, <1>2, <1>4, <1>5, <1>7, <1>8 DEF Area, Empty, Within, XEdge, YEdge
<1>10. Holds(output, CentreOf(requested)) => Holds(t, CentreOf(requested))
       BY <1>1, <1>2, <1>4, <1>5, <1>6, <1>7 DEF Holds, XEdge, YEdge
<1> QED BY <1>3, <1>4, <1>5, <1>7, <1>9, <1>10 DEF w, h, t

(* The points of the lattice on an output, and one more for its far edge.    *)
Points(span, room) == (room - span) \div Stride(span) + 2

LEMMA PointsAreFew ==
    ASSUME NEW span \in Nat \ {0}, NEW room \in Nat, span <= room, span % 2 = 0
    PROVE  /\ Points(span, room) \in Nat
           /\ Points(span, room) <= (2 * room) \div span + 1
<1> DEFINE a == (room - span) \div Stride(span)
           b == (2 * room) \div span
<1>1. PICK h \in Nat \ {0} : span = 2 * h /\ Stride(span) = h
  <2>1. span > 1 /\ span = 2 * (span \div 2)
        OBVIOUS
  <2>2. Stride(span) \in Nat \ {0} /\ Stride(span) = span \div 2
        BY <2>1, StrideIsHalf
  <2> QED BY <2>1, <2>2
<1>2. a \in Nat /\ h * a <= room - span
  <2>1. room - span \in Nat
        OBVIOUS
  <2> QED BY <1>1, <2>1
<1>3. b \in Nat /\ 2 * room < span * b + span
      OBVIOUS
<1> HIDE DEF a, b
<1>4. span * (a + 2) = 2 * (h * a) + 2 * span
      BY <1>1, <1>2
<1>5. span * (b + 1) = span * b + span
      BY <1>3
<1>6. h * a \in Int /\ span * b \in Int
      BY <1>1, <1>2, <1>3
<1>7. span * (a + 2) < span * (b + 1)
      BY <1>2, <1>3, <1>4, <1>5, <1>6
<1>8. a + 2 < b + 1
      BY <1>2, <1>3, <1>7
<1> QED BY <1>2, <1>3, <1>8 DEF Points, a, b

LEMMA GridHasPoints ==
    ASSUME NEW span \in Nat \ {0}, NEW low \in Int, NEW room \in Nat, span <= room,
           NEW at \in low .. low + room - span, OnGrid(at, span, low, room)
    PROVE  \E i \in 0 .. Points(span, room) - 1 :
               at = IF i = Points(span, room) - 1 THEN low + room - span ELSE low + Stride(span) * i
<1> DEFINE s == Stride(span)
           m == (room - span) \div s
<1>1. s \in Nat \ {0} /\ room - span \in Nat
      BY StrideIsHalf
<1>2. m \in Nat /\ room - span < s * m + s
  <2>1. PICK far \in Nat : far = room - span
        BY <1>1
  <2> HIDE DEF s
  <2>2. far \div s \in Nat /\ far < s * (far \div s) + s
        BY <1>1
  <2> QED BY <2>1, <2>2
<1>3. Points(span, room) = m + 2
      BY DEF Points
<1> HIDE DEF s, m
<1>4. CASE at = low + room - span
      BY <1>2, <1>3, <1>4
<1>5. CASE \E k \in Nat : at = low + s * k
  <2>1. PICK k \in Nat : at = low + s * k
        BY <1>5
  <2>2. s * k < s * (m + 1)
    <3>1. s * k \in Int /\ s * m \in Int /\ s * (m + 1) = s * m + s
          BY <1>1, <1>2
    <3> QED BY <1>1, <1>2, <2>1, <3>1
  <2>3. k < m + 1
        BY <1>1, <1>2, <2>2
  <2> QED BY <1>2, <1>3, <2>1, <2>3 DEF s
<1> QED BY <1>4, <1>5 DEF OnGrid, s

(* A session that scans at one size asks a compositor for no more boxes on   *)
(* an output than capture/scanregion.h:44-46 counts: Hyprland retains one    *)
(* capture session per box, and wlrTileFor() keeps their number from growing *)
(* with the motion of the pointer.                                           *)
THEOREM TilesAreFew ==
    ASSUME NEW size \in Extent, NEW output \in Area,
           size.w <= output.w, size.w % 2 = 0, size.h <= output.h, size.h % 2 = 0
    PROVE  LET tiles == {WlrTileFor(r, output) : r \in {r \in Area : r.w = size.w /\ r.h = size.h}}
           IN  /\ IsFiniteSet(tiles)
               /\ Cardinality(tiles) <= ((2 * output.w) \div size.w + 1) * ((2 * output.h) \div size.h + 1)
<1> DEFINE tiles == {WlrTileFor(r, output) : r \in {r \in Area : r.w = size.w /\ r.h = size.h}}
           m == Points(size.w, output.w)
           n == Points(size.h, output.h)
           I == 0 .. m - 1
           J == 0 .. n - 1
           tile == [p \in I \X J |->
               [x |-> IF p[1] = m - 1 THEN output.x + output.w - size.w ELSE output.x + Stride(size.w) * p[1],
                y |-> IF p[2] = n - 1 THEN output.y + output.h - size.h ELSE output.y + Stride(size.h) * p[2],
                w |-> size.w, h |-> size.h]]
           grid == {tile[p] : p \in I \X J}
<1>1. /\ output.x \in Int /\ output.y \in Int
      /\ output.w \in Nat /\ output.h \in Nat
      /\ size.w \in Nat \ {0} /\ size.h \in Nat \ {0}
      BY DEF Area, QRect, Empty, Extent
<1>2. /\ m \in Nat /\ m <= (2 * output.w) \div size.w + 1
      /\ n \in Nat /\ n <= (2 * output.h) \div size.h + 1
      BY <1>1, PointsAreFew
<1>3. /\ IsFiniteSet(I) /\ Cardinality(I) = m
      /\ IsFiniteSet(J) /\ Cardinality(J) = n
  <2>1. m - 1 \in Int /\ n - 1 \in Int
        BY <1>2
  <2> HIDE DEF m, n
  <2>2. /\ IsFiniteSet(I) /\ Cardinality(I) = IF 0 > m - 1 THEN 0 ELSE m - 1 - 0 + 1
        /\ IsFiniteSet(J) /\ Cardinality(J) = IF 0 > n - 1 THEN 0 ELSE n - 1 - 0 + 1
        BY <2>1, FS_Interval
  <2> HIDE DEF I, J
  <2> QED BY <1>2, <2>2 DEF m, n
<1> HIDE DEF I, J
<1>4. IsFiniteSet(I \X J) /\ Cardinality(I \X J) = m * n
      BY <1>3, FS_Product
<1>5. tile \in Surjection(I \X J, grid)
      BY DEF Surjection
<1>6. IsFiniteSet(grid) /\ Cardinality(grid) <= m * n
      BY <1>4, <1>5, FS_Surjection
<1>7. ASSUME NEW r \in Area, r.w = size.w, r.h = size.h
      PROVE  WlrTileFor(r, output) \in grid
  <2> DEFINE x == Tile(r.x, size.w, size.w, output.x, output.w)
             y == Tile(r.y, size.h, size.h, output.y, output.h)
  <2>1. r.x \in Int /\ r.y \in Int
        BY DEF Area, QRect
  <2>2. Lesser(r.w, output.w) = size.w /\ Lesser(r.h, output.h) = size.h /\ ~Empty(r) /\ ~Empty(output)
        BY <1>1, <1>7 DEF Lesser, Area
  <2>3. WlrTileFor(r, output) = [x |-> x, y |-> y, w |-> size.w, h |-> size.h]
        BY <1>7, <2>2 DEF WlrTileFor
  <2>4. /\ x \in output.x .. output.x + output.w - size.w /\ OnGrid(x, size.w, output.x, output.w)
        /\ y \in output.y .. output.y + output.h - size.h /\ OnGrid(y, size.h, output.y, output.h)
        BY <1>1, <2>1, TileOnAxis
  <2> HIDE DEF x, y
  <2>5. PICK i \in I : x = IF i = m - 1 THEN output.x + output.w - size.w ELSE output.x + Stride(size.w) * i
        BY <1>1, <2>4, GridHasPoints DEF I
  <2>6. PICK j \in J : y = IF j = n - 1 THEN output.y + output.h - size.h ELSE output.y + Stride(size.h) * j
        BY <1>1, <2>4, GridHasPoints DEF J
  <2> HIDE DEF m, n
  <2>7. <<i, j>> \in I \X J /\ tile[<<i, j>>] = [x |-> x, y |-> y, w |-> size.w, h |-> size.h]
        BY <2>5, <2>6
  <2> HIDE DEF tile
  <2> QED BY <2>3, <2>7
<1>8. tiles \subseteq grid
      BY <1>7
<1> HIDE DEF tiles, grid
<1>9. IsFiniteSet(tiles) /\ Cardinality(tiles) <= Cardinality(grid)
      BY <1>6, <1>8, FS_Subset
<1>10. Cardinality(tiles) \in Nat /\ Cardinality(grid) \in Nat
       BY <1>6, <1>9, FS_CardinalityType
<1> DEFINE a == (2 * output.w) \div size.w + 1
           b == (2 * output.h) \div size.h + 1
<1>11. a \in Nat /\ b \in Nat
       BY <1>1
<1> HIDE DEF a, b, m, n
<1>12. m <= a /\ n <= b /\ m \in Nat /\ n \in Nat
       BY <1>2 DEF a, b
<1>13. m * n <= a * n /\ a * n <= a * b /\ m * n \in Int /\ a * n \in Int /\ a * b \in Int
       BY <1>11, <1>12
<1>14. Cardinality(tiles) <= a * b
       BY <1>6, <1>9, <1>10, <1>13
<1> QED BY <1>9, <1>14 DEF tiles, a, b

LEMMA MarginOnAxis ==
    ASSUME NEW at \in Int, NEW span \in Nat \ {0}, NEW low \in Int, NEW room \in Nat,
           low <= at, at + span <= low + room
    PROVE  LET t == Tile(at, span, span, low, room)
           IN  /\ 4 * (Middle(at, span) - t) >= span - 2
               /\ 4 * (t + span - Middle(at, span)) >= span - 2
<1> DEFINE s == Stride(span)
           c == Middle(at, span)
           want == c - span \div 2 - low
           move == s * Rounded(want, s)
<1>1. s \in Nat \ {0} /\ (span > 1 => s = span \div 2) /\ (span = 1 => s = 1)
      BY StrideIsHalf DEF Stride, Greater
<1>2. PICK half \in Int : half = span \div 2 /\ 2 * half \in {span - 1, span}
      OBVIOUS
<1>3. c \in Int /\ 2 * c - (2 * at + span) \in {-2, -1, 0}
      BY DEF Middle
<1>4. want \in Int
      BY <1>3
<1>5. /\ Rounded(want, s) \in Int
      /\ 2 * move <= 2 * want + s /\ 2 * move >= 2 * want - s
      BY <1>1, <1>4, RoundedIsNear
<1>6. move \in Int
      BY <1>1, <1>5
<1>7. Tile(at, span, span, low, room) = MovedInto(low + move, span, low, room)
      BY DEF Tile
<1>8. want = c - half - low /\ (span > 1 => s = half) /\ (span = 1 => s = 1 /\ half = 0)
      BY <1>1, <1>2
<1> HIDE DEF move, want, s, c
<1>9. /\ 4 * (c - (low + move)) >= span - 2
      /\ 4 * (low + move + span - c) >= span - 2
      BY <1>1, <1>2, <1>3, <1>4, <1>5, <1>6, <1>8
<1> DEFINE t == MovedInto(low + move, span, low, room)
<1>10. t \in Int /\ 4 * (c - t) >= span - 2 /\ 4 * (t + span - c) >= span - 2
       BY <1>2, <1>3, <1>6, <1>9 DEF MovedInto
<1> QED BY <1>7, <1>10 DEF c

(* The centre of a region of the output lies a quarter of its tile from each *)
(* edge of the tile, up to the half pixel a tile of odd halves lacks:        *)
(* capture/scanregion.h:46-48.                                               *)
THEOREM TilesKeepMargin ==
    ASSUME NEW requested \in Area, NEW output \in Area, Within(requested, output)
    PROVE  LET t == WlrTileFor(requested, output)
               c == CentreOf(requested)
           IN  /\ 4 * (c.x - t.x) >= t.w - 2 /\ 4 * (XEdge(t) - c.x) >= t.w - 2
               /\ 4 * (c.y - t.y) >= t.h - 2 /\ 4 * (YEdge(t) - c.y) >= t.h - 2
<1>1. /\ output.x \in Int /\ output.y \in Int
      /\ output.w \in Nat /\ output.h \in Nat
      /\ requested.x \in Int /\ requested.y \in Int
      /\ requested.w \in Nat \ {0} /\ requested.h \in Nat \ {0}
      BY DEF Area, QRect, Empty
<1>2. /\ output.x <= requested.x /\ requested.x + requested.w <= output.x + output.w
      /\ output.y <= requested.y /\ requested.y + requested.h <= output.y + output.h
      BY DEF Within, XEdge, YEdge
<1>3. Lesser(requested.w, output.w) = requested.w /\ Lesser(requested.h, output.h) = requested.h
      BY <1>1, <1>2 DEF Lesser
<1> DEFINE x == Tile(requested.x, requested.w, requested.w, output.x, output.w)
           y == Tile(requested.y, requested.h, requested.h, output.y, output.h)
           t == [x |-> x, y |-> y, w |-> requested.w, h |-> requested.h]
<1>4. WlrTileFor(requested, output) = t
      BY <1>1, <1>3 DEF WlrTileFor, Empty, Area
<1>5. t.x = x /\ t.y = y /\ t.w = requested.w /\ t.h = requested.h
      OBVIOUS
<1>6. /\ CentreOf(requested).x = Middle(requested.x, requested.w)
      /\ CentreOf(requested).y = Middle(requested.y, requested.h)
      BY DEF CentreOf
<1>7. /\ 4 * (Middle(requested.x, requested.w) - x) >= requested.w - 2
      /\ 4 * (x + requested.w - Middle(requested.x, requested.w)) >= requested.w - 2
      BY <1>1, <1>2, MarginOnAxis
<1>8. /\ 4 * (Middle(requested.y, requested.h) - y) >= requested.h - 2
      /\ 4 * (y + requested.h - Middle(requested.y, requested.h)) >= requested.h - 2
      BY <1>1, <1>2, MarginOnAxis
<1> HIDE DEF x, y, t
<1>9. XEdge(t) = x + requested.w /\ YEdge(t) = y + requested.h
      BY <1>5 DEF XEdge, YEdge
<1>10. x \in Int /\ y \in Int
  <2>1. requested.w <= output.w /\ requested.h <= output.h
        BY <1>1, <1>2
  <2>2. /\ x \in output.x .. output.x + output.w - requested.w
        /\ y \in output.y .. output.y + output.h - requested.h
        BY <1>1, <2>1, TileOnAxis DEF x, y
  <2> QED BY <1>1, <2>2
<1>11. Middle(requested.x, requested.w) \in Int /\ Middle(requested.y, requested.h) \in Int
       BY <1>1 DEF Middle
<1>12. /\ 4 * (CentreOf(requested).x - t.x) >= t.w - 2
       /\ 4 * (XEdge(t) - CentreOf(requested).x) >= t.w - 2
       BY <1>1, <1>5, <1>6, <1>7, <1>9, <1>10, <1>11
<1>13. /\ 4 * (CentreOf(requested).y - t.y) >= t.h - 2
       /\ 4 * (YEdge(t) - CentreOf(requested).y) >= t.h - 2
       BY <1>1, <1>5, <1>6, <1>8, <1>9, <1>10, <1>11
<1> QED BY <1>4, <1>12, <1>13

-----------------------------------------------------------------------------
(* Which outputs the tiles around the pointer serve to the edge, along one   *)
(* axis: the lattice reaches the far edge, or stops so far from it that the  *)
(* region there is nearer to the edge than to the last point of the lattice. *)
Reaches(span, room) ==
    LET over == (room - span) % Stride(span)
        odd == span % 2
    IN  over = 0 \/ 2 * (over + odd - 1) >= Stride(span)

(* The point of the lattice that is nearest to what is wanted at the edge.   *)
LEMMA LastPoint ==
    ASSUME NEW s \in Nat \ {0}, NEW far \in Nat \ {0}, NEW odd \in {0, 1}, NEW want \in Nat,
           s = 1 => odd = 1, want >= far + odd - 1
    PROVE  LET over == far % s
               last == s * Rounded(want, s)
           IN  /\ over = 0 \/ 2 * (over + odd - 1) >= s => last >= far
               /\ want = far + odd - 1 /\ ~(over = 0 \/ 2 * (over + odd - 1) >= s) => last < far
<1> DEFINE q == Rounded(want, s)
<1>1. \E m \in Int : far = s * m + (far % s)
  <2>1. far \div s \in Int /\ far = s * (far \div s) + (far % s)
        OBVIOUS
  <2> QED BY <2>1
<1>2. PICK m \in Int : far = s * m + (far % s)
      BY <1>1
<1>3. far % s \in 0 .. s - 1
      OBVIOUS
<1>4. PICK over \in 0 .. s - 1 : over = far % s
      BY <1>3
<1>5. far = s * m + over
      BY <1>2, <1>4
<1>6. PICK before \in Int : before = s * m
      OBVIOUS
<1>7. s * (m + 1) = before + s
      BY <1>6
<1>8. q >= m <=> 2 * want + s >= 2 * before
      BY <1>6, RoundedAtLeast
<1>9. q >= m + 1 <=> 2 * want + s >= 2 * (before + s)
  <2>1. m + 1 \in Int
        OBVIOUS
  <2>2. q >= m + 1 <=> 2 * want + s >= 2 * (s * (m + 1))
        BY <2>1, RoundedAtLeast
  <2> QED BY <1>7, <2>2
<1>10. q \in Int
       BY RoundedIsNear
<1> HIDE DEF q
<1>11. PICK last \in Int : last = s * q
       BY <1>10
<1>12. q >= m => last >= before
       BY <1>6, <1>10, <1>11
<1>13. q >= m + 1 => last >= before + s
  <2>1. q >= m + 1 => s * q >= s * (m + 1)
        BY <1>10
  <2> QED BY <1>7, <1>11, <2>1
<1>14. q <= m => last <= before
       BY <1>6, <1>10, <1>11
<1>15. far = before + over
       BY <1>5, <1>6
<1>16. over = 0 \/ 2 * (over + odd - 1) >= s => last >= far
       BY <1>8, <1>9, <1>12, <1>13, <1>15
<1>17. want = far + odd - 1 /\ ~(over = 0 \/ 2 * (over + odd - 1) >= s) => last < far
       BY <1>9, <1>10, <1>14, <1>15
<1> QED BY <1>4, <1>11, <1>16, <1>17 DEF q

(* The last place of a region: where its tile is on the lattice.             *)
LEMMA LastPlace ==
    ASSUME NEW span \in Nat \ {0}, span >= 3, NEW low \in Int, NEW room \in Nat, span < room
    PROVE  LET want == Middle(low + room - span, span) - span \div 2 - low
               last == Stride(span) * Rounded(want, Stride(span))
           IN  /\ Reaches(span, room) => last >= room - span
               /\ low >= 0 /\ ~Reaches(span, room) => last < room - span
<1> DEFINE s == Stride(span)
           far == room - span
           c == Middle(low + room - span, span)
           want == c - span \div 2 - low
<1>1. s \in Nat \ {0} /\ s = span \div 2
      BY StrideIsHalf
<1>2. PICK odd \in {0, 1} : odd = span % 2 /\ span = 2 * (span \div 2) + odd
      OBVIOUS
<1>3. PICK half \in Int : half = span \div 2 /\ span = 2 * half + odd
      BY <1>2
<1>4. far \in Nat \ {0} /\ low + room - span \in Int
      OBVIOUS
<1>5. /\ c \in Int
      /\ 2 * c - (2 * (low + room - span) + span) \in {-2, -1, 0}
      /\ low >= 0 => 2 * c - (2 * (low + room - span) + span) = IF odd = 0 THEN -2 ELSE -1
  <2> DEFINE at == low + room - span
  <2>1. at \in Int /\ (low >= 0 => at >= 0)
        OBVIOUS
  <2> HIDE DEF at
  <2>2. /\ Middle(at, span) \in Int
        /\ 2 * Middle(at, span) - (2 * at + span) \in {-2, -1, 0}
        /\ at >= 0 => 2 * Middle(at, span) - (2 * at + span) = IF span % 2 = 0 THEN -2 ELSE -1
        BY <2>1 DEF Middle
  <2> QED BY <1>2, <2>1, <2>2 DEF at
<1> HIDE DEF c
<1>6. want = c - half - low
      BY <1>3
<1> HIDE DEF want
<1>7. /\ want \in Nat
      /\ want >= far + odd - 1
      /\ low >= 0 => want = far + odd - 1
      BY <1>3, <1>5, <1>6
<1>8. s = 1 => odd = 1
      BY <1>1, <1>3
<1>9. Reaches(span, room) <=> (far % s) = 0 \/ 2 * ((far % s) + odd - 1) >= s
      BY <1>2 DEF Reaches
<1> HIDE DEF s, far
<1>10. /\ (far % s) = 0 \/ 2 * ((far % s) + odd - 1) >= s => s * Rounded(want, s) >= far
       /\ want = far + odd - 1 /\ ~((far % s) = 0 \/ 2 * ((far % s) + odd - 1) >= s) =>
              s * Rounded(want, s) < far
       BY <1>1, <1>4, <1>7, <1>8, LastPoint
<1> QED BY <1>7, <1>9, <1>10 DEF s, far, want, c

LEMMA HeldOnAxis ==
    ASSUME NEW span \in Nat \ {0}, span >= 3, NEW low \in Int, NEW room \in Nat, span <= room,
           Reaches(span, room), NEW cursor \in low .. low + room - 1
    PROVE  LET t == Tile(Initial(cursor, span, low, room), span, span, low, room)
           IN  cursor \in t .. t + span - 1
<1> DEFINE at == Initial(cursor, span, low, room)
           t == Snapped(at, span, span, low)
           middle == Centred(cursor, span)
<1>1. cursor \in Int /\ Clamped(cursor, low, room) = cursor
      BY DEF Clamped, Greater, Lesser
<1>2. at = MovedInto(middle, span, low, room)
      BY <1>1 DEF Initial
<1>3. /\ middle \in Int /\ middle <= cursor /\ cursor < middle + span
      /\ Middle(middle, span) \in {cursor, cursor + 1}
      BY <1>1, CentringCentres
<1>4. at \in Int
      BY <1>2, <1>3 DEF MovedInto
<1>5. Tile(at, span, span, low, room) = MovedInto(t, span, low, room)
      BY DEF Tile, Snapped
<1>6. /\ t \in Int /\ t < Middle(at, span) /\ Middle(at, span) < t + span
      BY <1>4, SnappedIsNear
<1> HIDE DEF middle
<1>7. CASE middle < low
  <2>1. at = low
        BY <1>2, <1>7 DEF MovedInto
  <2>2. /\ Middle(low, span) \in Int
        /\ 2 * Middle(low, span) - (2 * low + span) \in {-2, -1, 0}
        BY DEF Middle
  <2> DEFINE want == Middle(low, span) - span \div 2 - low
             move == Stride(span) * Rounded(want, Stride(span))
  <2>3. want \in {-1, 0} /\ want \in Int
        BY <2>2
  <2>4. Stride(span) \in Nat \ {0}
        BY StrideIsHalf
  <2>5. Rounded(want, Stride(span)) \in Int /\ Rounded(want, Stride(span)) <= 0
    <3>1. /\ Rounded(want, Stride(span)) \in Int
          /\ 2 * move <= 2 * want + Stride(span)
          BY <2>3, <2>4, RoundedIsNear
    <3> HIDE DEF want
    <3>2. Stride(span) * Rounded(want, Stride(span)) < Stride(span)
          BY <2>3, <2>4, <3>1
    <3> QED BY <2>4, <3>1, <3>2
  <2> HIDE DEF want
  <2>6. move <= 0 /\ move \in Int
        BY <2>4, <2>5
  <2>7. t = low + move
        BY <2>1 DEF Snapped, want
  <2> HIDE DEF move, t, at
  <2>8. MovedInto(t, span, low, room) = low
        BY <2>6, <2>7 DEF MovedInto
  <2> QED BY <1>1, <1>3, <1>5, <1>7, <2>8 DEF at
<1>8. CASE middle >= low /\ middle + span > low + room /\ span < room
  <2>1. at = low + room - span
        BY <1>2, <1>3, <1>8 DEF MovedInto
  <2> DEFINE want == Middle(low + room - span, span) - span \div 2 - low
             move == Stride(span) * Rounded(want, Stride(span))
  <2>2. move >= room - span
        BY <1>8, LastPlace
  <2>3. t = low + move
        BY <2>1 DEF Snapped
  <2>4. move \in Int
    <3>1. low + room - span \in Int
          OBVIOUS
    <3>2. Middle(low + room - span, span) \in Int
          BY <3>1, CentreIsInside
    <3>3. want \in Int /\ Stride(span) \in Nat \ {0}
          BY <3>2, StrideIsHalf
    <3> HIDE DEF want
    <3>4. Rounded(want, Stride(span)) \in Int
          BY <3>3, RoundedIsNear
    <3> QED BY <3>3, <3>4
  <2> HIDE DEF move, t, at
  <2>5. MovedInto(t, span, low, room) = low + room - span
        BY <1>6, <2>2, <2>3, <2>4 DEF MovedInto, at
  <2> QED BY <1>1, <1>3, <1>5, <1>8, <2>5 DEF at
<1>9. CASE middle >= low /\ middle + span <= low + room
  <2>1. at = middle
        BY <1>2, <1>3, <1>9 DEF MovedInto
  <2>2. t <= cursor /\ cursor < t + span
        BY <1>1, <1>3, <1>6, <2>1
  <2> HIDE DEF t, at
  <2>3. cursor \in MovedInto(t, span, low, room) .. MovedInto(t, span, low, room) + span - 1
        BY <1>1, <1>6, <2>2 DEF MovedInto
  <2> QED BY <1>5, <2>3 DEF at
<1>10. CASE span = room
  <2>1. Tile(at, span, span, low, room) \in low .. low + room - span
        BY <1>4, TileOnAxis
  <2> HIDE DEF at
  <2> QED BY <1>1, <1>10, <2>1 DEF at
<1> QED BY <1>3, <1>7, <1>8, <1>9, <1>10

LEMMA MissedOnAxis ==
    ASSUME NEW span \in Nat \ {0}, span >= 3, NEW low \in Nat, NEW room \in Nat, span <= room,
           ~Reaches(span, room)
    PROVE  Tile(Initial(low + room - 1, span, low, room), span, span, low, room) + span <= low + room - 1
<1> DEFINE cursor == low + room - 1
           at == Initial(cursor, span, low, room)
           t == Snapped(at, span, span, low)
           want == Middle(low + room - span, span) - span \div 2 - low
           move == Stride(span) * Rounded(want, Stride(span))
<1>1. span < room
  <2>1. ASSUME span = room PROVE FALSE
    <3>1. Stride(span) \in Nat \ {0} /\ room - span = 0
          BY <2>1, StrideIsHalf
    <3>2. (room - span) % Stride(span) = 0
          BY <3>1
    <3> QED BY <3>2 DEF Reaches
  <2> QED BY <2>1
<1>2. Clamped(cursor, low, room) = cursor
      BY DEF Clamped, Greater, Lesser
<1>3. Centred(cursor, span) \in Int /\ Centred(cursor, span) + span > low + room
      BY DEF Centred
<1>4. at = low + room - span
      BY <1>1, <1>2, <1>3 DEF Initial, MovedInto
<1>5. t = low + move
      BY <1>4 DEF Snapped
<1>6. move < room - span
  <2>1. low \in Int /\ low >= 0
        OBVIOUS
  <2> QED BY <1>1, <2>1, LastPlace
<1>7. t \in Int
      BY <1>1, <1>4, SnappedIsNear
<1>8. Tile(at, span, span, low, room) = MovedInto(t, span, low, room)
      BY DEF Tile, Snapped
<1>9. t < low + room - span
  <2>1. Middle(low + room - span, span) \in Int
        BY <1>1, CentreIsInside
  <2>2. want \in Int /\ Stride(span) \in Nat \ {0}
        BY <2>1, StrideIsHalf
  <2> HIDE DEF want
  <2>3. Rounded(want, Stride(span)) \in Int
        BY <2>2, RoundedIsNear
  <2>4. move \in Int
        BY <2>2, <2>3
  <2> HIDE DEF move, t
  <2> QED BY <1>5, <1>6, <2>4
<1> HIDE DEF t, at
<1>10. MovedInto(t, span, low, room) < low + room - span
       BY <1>1, <1>7, <1>9 DEF MovedInto
<1>11. MovedInto(t, span, low, room) \in Int
       BY <1>7 DEF MovedInto
<1> QED BY <1>8, <1>10, <1>11 DEF at

(* On one output the tile around the pointer holds it wherever the pointer   *)
(* is exactly if the lattice reaches both far edges: where it does not,      *)
(* initialRect() moves the region into the output, wlrTileFor() rounds it    *)
(* away from the edge again, and the pointer lies outside of what is         *)
(* grabbed.                                                                  *)
THEOREM PointerIsHeld ==
    ASSUME NEW size \in Extent, NEW output \in Area, output.x >= 0, output.y >= 0,
           3 <= size.w, size.w <= output.w, 3 <= size.h, size.h <= output.h
    PROVE  (\A cursor \in Dot : Holds(output, cursor) =>
                Holds(WlrTileFor(FirstRect(cursor, size, output), output), cursor))
           <=> Reaches(size.w, output.w) /\ Reaches(size.h, output.h)
<1> DEFINE X(cursor) == Initial(cursor.x, size.w, output.x, output.w)
           Y(cursor) == Initial(cursor.y, size.h, output.y, output.h)
           TX(cursor) == Tile(X(cursor), size.w, size.w, output.x, output.w)
           TY(cursor) == Tile(Y(cursor), size.h, size.h, output.y, output.h)
<1>1. /\ output.x \in Nat /\ output.y \in Nat
      /\ output.w \in Nat \ {0} /\ output.h \in Nat \ {0}
      /\ size.w \in Nat \ {0} /\ size.h \in Nat \ {0}
      BY DEF Area, QRect, Empty, Extent
<1>2. Lesser(size.w, output.w) = size.w /\ Lesser(size.h, output.h) = size.h
      BY <1>1 DEF Lesser
<1>3. ASSUME NEW cursor \in Dot
      PROVE  WlrTileFor(FirstRect(cursor, size, output), output)
                 = [x |-> TX(cursor), y |-> TY(cursor), w |-> size.w, h |-> size.h]
  <2> DEFINE r == [x |-> X(cursor), y |-> Y(cursor), w |-> size.w, h |-> size.h]
  <2>1. FirstRect(cursor, size, output) = r
        BY <1>1, <1>2 DEF FirstRect, Empty
  <2>2. r.x = X(cursor) /\ r.y = Y(cursor) /\ r.w = size.w /\ r.h = size.h
        OBVIOUS
  <2> HIDE DEF r, X, Y
  <2> QED BY <1>1, <1>2, <2>1, <2>2 DEF WlrTileFor, Empty
<1>4. ASSUME NEW cursor \in Dot, Holds(output, cursor)
      PROVE  cursor.x \in output.x .. output.x + output.w - 1 /\ cursor.y \in output.y .. output.y + output.h - 1
      BY <1>1, <1>4 DEF Holds, XEdge, YEdge
<1>5. ASSUME NEW cursor \in Dot
       PROVE  TX(cursor) \in Int /\ TY(cursor) \in Int /\ cursor.x \in Int /\ cursor.y \in Int
  <2>1. cursor.x \in Int /\ cursor.y \in Int
        BY DEF Dot
  <2>2. /\ output.x \in Int /\ output.w \in Nat
        /\ output.y \in Int /\ output.h \in Nat
        BY <1>1
  <2>3. /\ X(cursor) \in output.x .. output.x + output.w - size.w
        /\ Y(cursor) \in output.y .. output.y + output.h - size.h
        BY <1>1, <2>1, <2>2, InitialOnAxis
  <2>4. X(cursor) \in Int /\ Y(cursor) \in Int
        BY <1>1, <2>2, <2>3
  <2> HIDE DEF X, Y
  <2>5. /\ TX(cursor) \in output.x .. output.x + output.w - size.w
        /\ TY(cursor) \in output.y .. output.y + output.h - size.h
        BY <1>1, <2>2, <2>4, TileOnAxis
  <2> HIDE DEF TX, TY
  <2> QED BY <1>1, <2>1, <2>2, <2>5
<1>6. ASSUME NEW cursor \in Dot
      PROVE  Holds(WlrTileFor(FirstRect(cursor, size, output), output), cursor)
                 <=> /\ cursor.x \in TX(cursor) .. TX(cursor) + size.w - 1
                     /\ cursor.y \in TY(cursor) .. TY(cursor) + size.h - 1
  <2> DEFINE t == [x |-> TX(cursor), y |-> TY(cursor), w |-> size.w, h |-> size.h]
  <2>1. t.x = TX(cursor) /\ t.y = TY(cursor) /\ t.w = size.w /\ t.h = size.h
        OBVIOUS
  <2>2. WlrTileFor(FirstRect(cursor, size, output), output) = t
        BY <1>3
  <2> HIDE DEF t, TX, TY
  <2> QED BY <1>1, <1>5, <2>1, <2>2 DEF Holds, XEdge, YEdge
<1> HIDE DEF TX, TY
<1>7. ASSUME Reaches(size.w, output.w), Reaches(size.h, output.h),
             NEW cursor \in Dot, Holds(output, cursor)
      PROVE  Holds(WlrTileFor(FirstRect(cursor, size, output), output), cursor)
  <2>1. cursor.x \in TX(cursor) .. TX(cursor) + size.w - 1
        BY <1>1, <1>4, <1>7, HeldOnAxis DEF TX
  <2>2. cursor.y \in TY(cursor) .. TY(cursor) + size.h - 1
        BY <1>1, <1>4, <1>7, HeldOnAxis DEF TY
  <2> QED BY <1>6, <2>1, <2>2
<1>8. ASSUME ~(Reaches(size.w, output.w) /\ Reaches(size.h, output.h))
      PROVE  \E cursor \in Dot :
                 /\ Holds(output, cursor)
                 /\ ~Holds(WlrTileFor(FirstRect(cursor, size, output), output), cursor)
  <2> DEFINE cursor == [x |-> output.x + output.w - 1, y |-> output.y + output.h - 1]
  <2>1. cursor.x = output.x + output.w - 1 /\ cursor.y = output.y + output.h - 1
        OBVIOUS
  <2>2. cursor \in Dot
        BY <1>1 DEF Dot
  <2> HIDE DEF cursor
  <2>3. Holds(output, cursor)
        BY <1>1, <2>1 DEF Holds, XEdge, YEdge
  <2>4. ASSUME ~Reaches(size.w, output.w)
        PROVE  ~(cursor.x \in TX(cursor) .. TX(cursor) + size.w - 1)
    <3>1. TX(cursor) + size.w <= output.x + output.w - 1
          BY <1>1, <2>1, <2>4, MissedOnAxis DEF TX
    <3> QED BY <1>1, <1>5, <2>1, <2>2, <3>1
  <2>5. ASSUME ~Reaches(size.h, output.h)
        PROVE  ~(cursor.y \in TY(cursor) .. TY(cursor) + size.h - 1)
    <3>1. TY(cursor) + size.h <= output.y + output.h - 1
          BY <1>1, <2>1, <2>5, MissedOnAxis DEF TY
    <3> QED BY <1>1, <1>5, <2>1, <2>2, <3>1
  <2>6. ~Holds(WlrTileFor(FirstRect(cursor, size, output), output), cursor)
        BY <1>6, <1>8, <2>2, <2>4, <2>5
  <2> QED BY <2>2, <2>3, <2>6
<1> QED BY <1>7, <1>8

(* The lattice of a 480 by 270 region reaches the edges of a 1920 by 1080    *)
(* and of a 2560 by 1440 output, and neither edge of a 1280 by 720 one, as   *)
(* the logical geometry of a scaled panel is.  With the pointer in the last  *)
(* corner of it, the tile ends 80 columns and 45 rows short.                 *)
THEOREM EdgeIsMissed ==
    LET output == [x |-> 0, y |-> 0, w |-> 1280, h |-> 720]
        corner == [x |-> 1279, y |-> 719]
    IN  /\ Reaches(480, 1920) /\ Reaches(270, 1080) /\ Reaches(480, 2560) /\ Reaches(270, 1440)
        /\ ~Reaches(480, 1280) /\ ~Reaches(270, 720)
        /\ Holds(output, corner)
        /\ WlrTileFor(FirstRect(corner, [w |-> 480, h |-> 270], output), output)
               = [x |-> 720, y |-> 405, w |-> 480, h |-> 270]
<1>1. Stride(480) = 240 /\ Stride(270) = 135
      BY DEF Stride, Greater
<1>2. /\ Reaches(480, 1920) /\ Reaches(270, 1080) /\ Reaches(480, 2560) /\ Reaches(270, 1440)
      /\ ~Reaches(480, 1280) /\ ~Reaches(270, 720)
      BY <1>1 DEF Reaches
<1>3. Initial(1279, 480, 0, 1280) = 800 /\ Initial(719, 270, 0, 720) = 450
      BY DEF Initial, MovedInto, Centred, Clamped, Greater, Lesser
<1>4. Middle(800, 480) = 1039 /\ Middle(450, 270) = 584
      BY DEF Middle
<1>5. Tile(800, 480, 480, 0, 1280) = 720 /\ Tile(450, 270, 270, 0, 720) = 405
      BY <1>1, <1>4 DEF Tile, MovedInto, Rounded
<1>6. Lesser(480, 1280) = 480 /\ Lesser(270, 720) = 270
      BY DEF Lesser
<1> QED BY <1>2, <1>3, <1>5, <1>6 DEF WlrTileFor, FirstRect, Holds, XEdge, YEdge, Empty

(* startScan() rounds once more what growAndRescan() rounded and found to    *)
(* hold the pointer, and the tile of a tile need not be that tile.  Near the *)
(* inner edge of the left of two outputs the larger region is accepted, and  *)
(* what is grabbed for it does not hold the pointer.                         *)
THEOREM RungIsSpent ==
    LET output == [x |-> 0, y |-> 0, w |-> 2560, h |-> 1440]
        workspace == [x |-> 0, y |-> 0, w |-> 5120, h |-> 1440]
        pointer == [x |-> 2500, y |-> 700]
        current == [x |-> 2080, y |-> 540, w |-> 480, h |-> 270]
        target == [x |-> 1600, y |-> 270, w |-> 960, h |-> 540]
    IN  /\ WlrTileFor(FirstRect(pointer, [w |-> 480, h |-> 270], workspace), output) = current
        /\ WlrTileFor(GrownRect(current, pointer, [w |-> 1600, h |-> 900], workspace), output) = target
        /\ Holds(target, pointer)
        /\ ~Holds(WlrTileFor(target, output), pointer)
<1> DEFINE current == [x |-> 2080, y |-> 540, w |-> 480, h |-> 270]
           grown == [x |-> 1840, y |-> 405, w |-> 960, h |-> 540]
           pointer == [x |-> 2500, y |-> 700]
           workspace == [x |-> 0, y |-> 0, w |-> 5120, h |-> 1440]
           output == [x |-> 0, y |-> 0, w |-> 2560, h |-> 1440]
<1>1. Stride(480) = 240 /\ Stride(270) = 135 /\ Stride(960) = 480 /\ Stride(540) = 270
      BY DEF Stride, Greater
<1>2. /\ Lesser(480, 5120) = 480 /\ Lesser(270, 1440) = 270 /\ Lesser(480, 2560) = 480
      /\ Lesser(960, 2560) = 960 /\ Lesser(540, 1440) = 540
      /\ Lesser(1600, 5120) = 1600 /\ Lesser(900, 1440) = 900
      /\ Doubled(480, 1600) = 960 /\ Doubled(270, 900) = 540
      BY DEF Lesser, Doubled
<1>3. Initial(2500, 480, 0, 5120) = 2261 /\ Initial(700, 270, 0, 1440) = 566
      BY DEF Initial, MovedInto, Centred, Clamped, Greater, Lesser
<1>4. /\ Middle(2261, 480) = 2500 /\ Middle(566, 270) = 700
      /\ Middle(2080, 480) = 2319 /\ Middle(540, 270) = 674
      /\ Middle(1840, 960) = 2319 /\ Middle(405, 540) = 674
      /\ Middle(1600, 960) = 2079 /\ Middle(270, 540) = 539
      BY DEF Middle
<1>5. /\ Tile(2261, 480, 480, 0, 2560) = 2080 /\ Tile(566, 270, 270, 0, 1440) = 540
      /\ Tile(1840, 960, 960, 0, 2560) = 1600 /\ Tile(405, 540, 540, 0, 1440) = 270
      /\ Tile(1600, 960, 960, 0, 2560) = 1440
      BY <1>1, <1>4 DEF Tile, MovedInto, Rounded
<1>6. Grown(2080, 480, 960, 2500, 0, 5120) = 1840 /\ Grown(540, 270, 540, 700, 0, 1440) = 405
      BY <1>4 DEF Grown, MovedInto, MovedToContain, Centred, Clamped, Greater, Lesser
<1>7. FirstRect(pointer, [w |-> 480, h |-> 270], workspace) = [x |-> 2261, y |-> 566, w |-> 480, h |-> 270]
      BY <1>2, <1>3 DEF FirstRect, Empty
<1>8. WlrTileFor([x |-> 2261, y |-> 566, w |-> 480, h |-> 270], output) = current
      BY <1>2, <1>5 DEF WlrTileFor, Empty
<1>9. GrownRect(current, pointer, [w |-> 1600, h |-> 900], workspace) = grown
      BY <1>2, <1>6 DEF GrownRect, Empty
<1>10. WlrTileFor(grown, output) = [x |-> 1600, y |-> 270, w |-> 960, h |-> 540]
       BY <1>2, <1>5 DEF WlrTileFor, Empty
<1>11. Holds([x |-> 1600, y |-> 270, w |-> 960, h |-> 540], pointer)
       BY DEF Holds, XEdge, YEdge
<1>12. ~Holds(WlrTileFor([x |-> 1600, y |-> 270, w |-> 960, h |-> 540], output), pointer)
       BY <1>2, <1>5 DEF WlrTileFor, Empty, Holds, XEdge, YEdge
<1> QED BY <1>7, <1>8, <1>9, <1>10, <1>11, <1>12
=============================================================================
