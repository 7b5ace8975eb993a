----------------------------- MODULE ScanRegion -----------------------------
(* capture/scanregion.cpp: the regions a scan looks at.  The first one is    *)
(* centred on the pointer, the next ones of the ladder double it, and a      *)
(* wlroots source grabs the tile of a grid that is nearest to a region.  The *)
(* two axes of a rectangle are treated alike: a position is that of the left *)
(* or the upper edge, a span is a width or a height, and low and room are    *)
(* the position and the span of the workspace or of an output.               *)
EXTENDS Rectangles

(* QRect::contains(), QRect::center(), which truncates, and the position     *)
(* QRect::moveCenter() gives a span.                                         *)
Holds(r, p) == p.x \in r.x .. XEdge(r) - 1 /\ p.y \in r.y .. YEdge(r) - 1
Middle(at, span) == LET ends == 2 * at + span - 1 IN IF ends >= 0 THEN ends \div 2 ELSE -((-ends) \div 2)
CentreOf(r) == [x |-> Middle(r.x, r.w), y |-> Middle(r.y, r.h)]
Centred(point, span) == point - (span - 1) \div 2

(* clampedToBounds() of a point, movedInto() and movedToContain().           *)
Clamped(point, low, room) == Greater(low, Lesser(point, low + room - 1))
MovedInto(at, span, low, room) ==
    IF at < low THEN low
    ELSE IF at + span > low + room THEN low + room - span
    ELSE at
MovedToContain(at, span, point) ==
    IF point < at THEN point
    ELSE IF point >= at + span THEN point - span + 1
    ELSE at

-----------------------------------------------------------------------------
Initial(cursor, span, low, room) ==
    MovedInto(Centred(Clamped(cursor, low, room), span), span, low, room)

FirstRect(cursor, size, workspace) ==
    LET w == Lesser(size.w, workspace.w)
        h == Lesser(size.h, workspace.h)
    IN  IF Empty(size) \/ Empty(workspace) THEN EmptyRect
        ELSE [x |-> Initial(cursor.x, w, workspace.x, workspace.w),
              y |-> Initial(cursor.y, h, workspace.y, workspace.h), w |-> w, h |-> h]

Doubled(span, limit) == Lesser(2 * span, limit)
Grown(at, span, next, cursor, low, room) ==
    MovedToContain(MovedInto(Centred(Middle(at, span), next), next, low, room), next,
                   Clamped(cursor, low, room))

(* The next region of the ladder, EmptyRect (std::nullopt) at its top.       *)
GrownRect(current, cursor, maxSize, workspace) ==
    LET limit == [w |-> Lesser(maxSize.w, workspace.w), h |-> Lesser(maxSize.h, workspace.h)]
        w == Doubled(current.w, limit.w)
        h == Doubled(current.h, limit.h)
    IN  IF Empty(workspace) \/ Empty(maxSize) \/ (current.w >= limit.w /\ current.h >= limit.h) THEN EmptyRect
        ELSE IF Empty(current) THEN FirstRect(cursor, limit, workspace)
        ELSE [x |-> Grown(current.x, current.w, w, cursor.x, workspace.x, workspace.w),
              y |-> Grown(current.y, current.h, h, cursor.y, workspace.y, workspace.h), w |-> w, h |-> h]

-----------------------------------------------------------------------------
Stride(span) == Greater(1, span \div 2)

(* The lattice point nearest to where a tile would be centred on a region.   *)
Tile(at, requested, span, low, room) ==
    LET want == Middle(at, requested) - span \div 2 - low
    IN  MovedInto(low + Stride(span) * Rounded(want, Stride(span)), span, low, room)

WlrTileFor(requested, output) ==
    LET w == Lesser(requested.w, output.w)
        h == Lesser(requested.h, output.h)
    IN  IF Empty(requested) \/ Empty(output) THEN EmptyRect
        ELSE [x |-> Tile(requested.x, requested.w, w, output.x, output.w),
              y |-> Tile(requested.y, requested.h, h, output.y, output.h), w |-> w, h |-> h]

TouchesEdge(lineBox, frame, margin) ==
    /\ ~Empty(lineBox) /\ ~Empty(frame)
    /\ \/ lineBox.x - frame.x <= margin \/ XEdge(frame) - XEdge(lineBox) <= margin
       \/ lineBox.y - frame.y <= margin \/ YEdge(frame) - YEdge(lineBox) <= margin

(* Points of a frame at a scale of pixels / units image pixels per logical   *)
(* pixel, and back.                                                          *)
ImageToLogical(frame, p) ==
    [x |-> frame.rect.x + Rounded(p.x * frame.units, frame.pixels),
     y |-> frame.rect.y + Rounded(p.y * frame.units, frame.pixels)]
LogicalToImage(frame, p) ==
    [x |-> Rounded((p.x - frame.rect.x) * frame.pixels, frame.units),
     y |-> Rounded((p.y - frame.rect.y) * frame.pixels, frame.units)]
=============================================================================
