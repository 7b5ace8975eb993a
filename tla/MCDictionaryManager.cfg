CONSTANTS
    Ids = {"jmdict"}
    Platforms <- MCPlatforms
    UnseenImports = FALSE
    MaxImports = 3
    MaxCrashes = 1
SPECIFICATION Spec
INVARIANTS
    SnapshotIsCurrent
    SupersededNotPublished
    FilterMatchesDatabase
    WaitingIsRetried
PROPERTIES
    RetryKeepsImports
    RestartRecovers
