CONSTANTS
    p1 = p1
    p2 = p2
    low = low
    high = high
    mixed = mixed
    faint = faint
    a = a
    b = b
    f = f
    u = u
    NoRect = NoRect
    NoChar = NoChar
    NoKey = NoKey
    OldKey = OldKey
    NoHit = NoHit
    NoCard = NoCard
    Point <- MCPoint
    Rect <- MCRect
    Page <- MCPage
    Char <- MCChar
    Covers <- MCCovers
    Size <- MCSize
    InitialRect <- MCInitialRect
    Grow <- MCGrow
    Quantize <- MCQuantize
    Reading <- MCReading
    MinExtent <- MCMinExtent
    Centre <- MCCentre
    Foreign <- MCForeign
    CardOver <- MCCardOver
    Known <- MCKnown
    Settings <- MCSettings
    Counts <- MCCounts
    Locks <- MCLocks
    Capacity <- MCCapacity
    MaxDisturbances <- MCMaxDisturbances
SPECIFICATION SpecSettling
CHECK_DEADLOCK FALSE
PROPERTIES
    RestIsAnswered
    CardSettles
    RungSettles
    CardOutlivesOcclusion
