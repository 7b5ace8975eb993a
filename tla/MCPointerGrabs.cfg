CONSTANTS
    Settings <- MCSettings
    MaxLate <- MCMaxLate
    r1 = r1
    r2 = r2
    r3 = r3
    Rect <- MCRect
    NoRect = NoRect
    NoJob = NoJob
    ProtocolVersions <- MCProtocolVersions
SPECIFICATION GrabsSpec
INVARIANTS
    TrailingFireEndsWindow
    RequestIsCarried
    SlotMatchesJob
    HeldIsTimed
    FramesAreCurrent
PROPERTIES
    AtMostOncePerInterval
    ImplementsLatestWins
