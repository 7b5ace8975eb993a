----------------------------- MODULE MCScanLoop -----------------------------
(* The loop without growth or occlusion on an output whose tiles overlap:    *)
(* the tile around one position is not the region around it and holds both   *)
(* positions, that around the other only one.  One page has text, one has    *)
(* none, and the cache has one entry, so that every second result evicts.    *)
EXTENDS ScanController, TLC

CONSTANTS p1, p2, r1, r2, t1, t2, blank, text, a, b

MCPoint == {p1, p2}
MCRect == {r1, r2, t1, t2}
MCInitialRect == (p1 :> r1) @@ (p2 :> r2)
MCQuantize == (r1 :> t1) @@ (r2 :> t2) @@ (t1 :> t1) @@ (t2 :> t2)
MCCovers == (r1 :> {p1, p2}) @@ (r2 :> {p2}) @@ (t1 :> {p1}) @@ (t2 :> {p1, p2})

(* They are those of two positions on an output of eight columns.            *)
Region == INSTANCE ScanRegion
At == (p1 :> [x |-> 2, y |-> 0]) @@ (p2 :> [x |-> 4, y |-> 0])
Box == (r1 :> [x |-> 1, y |-> 0, w |-> 4, h |-> 1]) @@ (r2 :> [x |-> 3, y |-> 0, w |-> 4, h |-> 1])
       @@ (t1 :> [x |-> 0, y |-> 0, w |-> 4, h |-> 1]) @@ (t2 :> [x |-> 2, y |-> 0, w |-> 4, h |-> 1])
ASSUME RegionsAssumption ==
    LET output == [x |-> 0, y |-> 0, w |-> 8, h |-> 1]
    IN  /\ \A p \in MCPoint : Box[MCInitialRect[p]] = Region!FirstRect(At[p], [w |-> 4, h |-> 1], output)
        /\ \A r \in MCRect : Box[MCQuantize[r]] = Region!WlrTileFor(Box[r], output)
        /\ \A r \in MCRect : MCCovers[r] = {p \in MCPoint : Region!Holds(Box[r], At[p])}

MCSize == [r \in MCRect |-> 1]
MCGrow == [x \in MCRect \X MCPoint |-> NoRect]
MCPage == {blank, text}
MCChar == {a, b}
MCReading ==
    [x \in MCPage \X MCRect |->
        [at |-> [p \in MCPoint |->
                    IF x[1] = blank \/ p \notin MCCovers[x[2]] THEN NoChar
                    ELSE IF p = p2 THEN b ELSE a],
         edge |-> {}, extent |-> 1]]
MCMinExtent == [r \in MCRect |-> 0]
MCCentre == (a :> p1) @@ (b :> p2)
MCForeign == {}
MCCardOver == [c \in MCChar |-> {}]
MCKnown == {a, b}
MCSettings ==
    {[trigger |-> TRUE, poll |-> TRUE, progressive |-> FALSE,
      pauseLocked |-> TRUE, maxResults |-> 1]}
MCCounts == {0, 2}
MCLocks == {}
MCCapacity == 1
=============================================================================
