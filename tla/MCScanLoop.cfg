CONSTANTS
    p1 = p1
    p2 = p2
    r1 = r1
    r2 = r2
    t1 = t1
    t2 = t2
    blank = blank
    text = text
    a = a
    b = b
    NoRect = NoRect
    NoChar = NoChar
    NoKey = NoKey
    OldKey = OldKey
    NoHit = NoHit
    NoCard = NoCard
    Point <- MCPoint
    Rect <- MCRect
    Page <- MCPage
    Char <- MCChar
    Covers <- MCCovers
    Size <- MCSize
    InitialRect <- MCInitialRect
    Grow <- MCGrow
    Quantize <- MCQuantize
    Reading <- MCReading
    MinExtent <- MCMinExtent
    Centre <- MCCentre
    Foreign <- MCForeign
    CardOver <- MCCardOver
    Known <- MCKnown
    Settings <- MCSettings
    Counts <- MCCounts
    Locks <- MCLocks
    Capacity <- MCCapacity
SPECIFICATION Spec
INVARIANTS
    LastHitIsAnswered
    CurrentIsCached
    CardMatchesPointer
    CountIsSatisfied
    FlaggedScanIsHeld
    InactiveIsQuiet
PROPERTY CardFollowsPointer
