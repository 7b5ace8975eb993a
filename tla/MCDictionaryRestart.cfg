CONSTANTS
    Ids = {"jmdict"}
    Platforms <- MCPlatforms
    UnseenImports = FALSE
    MaxImports = 2
    MaxCrashes = 1
SPECIFICATION Spec
INVARIANT PublishedFilterMatches
