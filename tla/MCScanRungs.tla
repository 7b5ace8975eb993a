---------------------------- MODULE MCScanRungs -----------------------------
(* A pointer that rests on an empty part of a page: the small region around  *)
(* it holds no text at all, and the larger one holds text too small for it.  *)
EXTENDS ScanSettling, TLC

CONSTANTS p1, low, high, sparse, a

MCPoint == {p1}
MCRect == {low, high}
MCPage == {sparse}
MCChar == {a}
MCCovers == [r \in MCRect |-> {p1}]
MCSize == (low :> 1) @@ (high :> 2)
MCInitialRect == p1 :> low
MCGrow == [x \in MCRect \X MCPoint |-> IF x[1] = low THEN high ELSE NoRect]
MCQuantize == [r \in MCRect |-> r]
MCReading ==
    [x \in MCPage \X MCRect |->
        [at |-> [p \in MCPoint |-> NoChar], edge |-> {},
         extent |-> IF x[2] = low THEN 0 ELSE 1]]
MCMinExtent == (low :> 1) @@ (high :> 2)
MCCentre == [c \in MCChar |-> p1]
MCForeign == {}
MCCardOver == [c \in MCChar |-> {}]
MCKnown == {a}
MCSettings ==
    {[trigger |-> TRUE, poll |-> TRUE, progressive |-> TRUE,
      pauseLocked |-> TRUE, maxResults |-> 1]}
MCCounts == {}
MCLocks == {}
MCCapacity == 2
MCMaxDisturbances == 1
=============================================================================
