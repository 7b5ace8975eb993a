------------------------- MODULE MCScanAcrossPause --------------------------
(* One region and one position, a page that changes, and the greeter.        *)
EXTENDS ScanAcrossPause, TLC

CONSTANTS p1, r1, before1, after1, a

MCPoint == {p1}
MCRect == {r1}
MCPage == {before1, after1}
MCChar == {a}
MCCovers == r1 :> {p1}
MCSize == r1 :> 1
MCInitialRect == p1 :> r1
MCGrow == [x \in MCRect \X MCPoint |-> NoRect]
MCQuantize == [r \in MCRect |-> r]
MCReading ==
    [x \in MCPage \X MCRect |->
        [at |-> [p \in MCPoint |-> a], edge |-> {}, extent |-> 1]]
MCMinExtent == [r \in MCRect |-> 0]
MCCentre == [c \in MCChar |-> p1]
MCForeign == {}
MCCardOver == [c \in MCChar |-> {}]
MCKnown == {a}
MCSettings ==
    {[trigger |-> TRUE, poll |-> TRUE, progressive |-> FALSE,
      pauseLocked |-> TRUE, maxResults |-> 1]}
MCCounts == {}
MCLocks == BOOLEAN
MCCapacity == 1
=============================================================================
