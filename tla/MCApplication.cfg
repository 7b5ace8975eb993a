CONSTANTS
    Hysteresis = 2
    Offset = 1
    a = a
    b = b
    none = none
    nowhere = nowhere
    west = west
    east = east
    old = old
    new = new
    small = small
    large = large
    Layout = {small, large}
    Request = {a, b}
    NoChar = none
    NoStore = nowhere
    NoContent = nowhere
    Content <- AllContent
    Size <- Sizes
    Screen = {west, east}
    Geometry <- TwoScreens
    StoreOf <- Stores
    Answers <- Known
    CacheCapacity = 1
    MaxLookups = 2
    Point <- Points
    ScreenOf <- OnScreen
    Position <- At
    CharAt <- Chars
    Paragraph <- Blocks
    Setups <- Considered
    MaxCommands = 2
SPECIFICATION Spec
CHECK_DEADLOCK FALSE
INVARIANTS
    CardFollowsReports
    ReplacedStoresAreLetGo
    AnswersFromItsSet
    CardIsWellPlaced
    WaverSettles
PROPERTIES
    PinnedIsFrozen
    OpenedWindowIsCurrent
