CONSTANTS
    Settings <- MCSettings
    MaxLate <- MCMaxLate
    WallSteps <- MCWallSteps
SPECIFICATION SpecWall
INVARIANT TrailingFireEndsWindow
