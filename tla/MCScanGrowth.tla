---------------------------- MODULE MCScanGrowth ----------------------------
(* Growth, descent and occlusion on a ladder of two rungs.  On the mixed     *)
(* page large text at p1 reaches the edge of the small rung, so the region   *)
(* grows, and the large rung brings small text into the frame that it does   *)
(* not resolve; the card for the small text covers it.  The faint page has   *)
(* no character to measure on the small rung, and on the large one a word    *)
(* the dictionaries do not know and a foreign character; it may turn into    *)
(* the mixed page meanwhile.  One of the settings scans on under a lock.     *)
EXTENDS ScanSettling, TLC

CONSTANTS p1, p2, low, high, mixed, faint, a, b, f, u

MCPoint == {p1, p2}
MCRect == {low, high}
MCPage == {mixed, faint}
MCChar == {a, b, f, u}
MCCovers == (low :> {p1}) @@ (high :> {p1, p2})
MCSize == (low :> 1) @@ (high :> 2)
MCInitialRect == (p1 :> low) @@ (p2 :> high)
MCGrow == [x \in MCRect \X MCPoint |-> IF x[1] = low THEN high ELSE NoRect]
MCQuantize == [r \in MCRect |-> r]
MCReading ==
    [x \in MCPage \X MCRect |->
        CASE x = <<mixed, low>> -> [at |-> (p1 :> a) @@ (p2 :> NoChar), edge |-> {a}, extent |-> 2]
          [] x = <<mixed, high>> -> [at |-> (p1 :> a) @@ (p2 :> b), edge |-> {a}, extent |-> 1]
          [] x = <<faint, high>> -> [at |-> (p1 :> u) @@ (p2 :> f), edge |-> {}, extent |-> 2]
          [] OTHER -> [at |-> [p \in MCPoint |-> NoChar], edge |-> {}, extent |-> 0]]
MCMinExtent == (low :> 1) @@ (high :> 2)
MCCentre == (a :> p1) @@ (b :> p2) @@ (f :> p2) @@ (u :> p1)
MCForeign == {f}
MCCardOver == (a :> {}) @@ (b :> {p2}) @@ (f :> {}) @@ (u :> {})
MCKnown == {a, b}
MCSettings ==
    {[trigger |-> t, poll |-> ~t, progressive |-> TRUE,
      pauseLocked |-> t, maxResults |-> 1] : t \in BOOLEAN}
MCCounts == {}
MCLocks == BOOLEAN
MCCapacity == 2
MCMaxDisturbances == 3
=============================================================================
