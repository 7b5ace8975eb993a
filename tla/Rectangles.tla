----------------------------- MODULE Rectangles -----------------------------
(* QRect and the rounding of qreal coordinates, as popup/placement.cpp and   *)
(* capture/scanregion.cpp use them.                                          *)
EXTENDS Integers

(* QRect, the empty one, the exclusive edges and the tests.                  *)
QRect == [x : Int, y : Int, w : Int, h : Int]
EmptyRect == [x |-> 0, y |-> 0, w |-> 0, h |-> 0]
XEdge(r) == r.x + r.w
YEdge(r) == r.y + r.h
Lesser(a, b) == IF a < b THEN a ELSE b
Greater(a, b) == IF a < b THEN b ELSE a
Empty(r) == r.w <= 0 \/ r.h <= 0
Intersected(r, s) ==
    LET x == Greater(r.x, s.x)
        y == Greater(r.y, s.y)
    IN  [x |-> x, y |-> y, w |-> Lesser(XEdge(r), XEdge(s)) - x, h |-> Lesser(YEdge(r), YEdge(s)) - y]
Intersects(r, s) == ~Empty(Intersected(r, s))
Within(r, s) == r.x >= s.x /\ r.y >= s.y /\ XEdge(r) <= XEdge(s) /\ YEdge(r) <= YEdge(s)

(* std::lround() of n / d: halves go away from zero.                         *)
Rounded(n, d) == IF n >= 0 THEN (2 * n + d) \div (2 * d) ELSE -((d - 2 * n) \div (2 * d))
=============================================================================
