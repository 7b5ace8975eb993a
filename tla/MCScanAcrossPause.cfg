CONSTANTS
    p1 = p1
    r1 = r1
    before1 = before1
    after1 = after1
    a = a
    NoRect = NoRect
    NoChar = NoChar
    NoKey = NoKey
    OldKey = OldKey
    NoHit = NoHit
    NoCard = NoCard
    Point <- MCPoint
    Rect <- MCRect
    Page <- MCPage
    Char <- MCChar
    Covers <- MCCovers
    Size <- MCSize
    InitialRect <- MCInitialRect
    Grow <- MCGrow
    Quantize <- MCQuantize
    Reading <- MCReading
    MinExtent <- MCMinExtent
    Centre <- MCCentre
    Foreign <- MCForeign
    CardOver <- MCCardOver
    Known <- MCKnown
    Settings <- MCSettings
    Counts <- MCCounts
    Locks <- MCLocks
    Capacity <- MCCapacity
SPECIFICATION SpecPause
PROPERTY ComesBackToNewPixels
