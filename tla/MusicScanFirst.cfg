CONSTANTS
    Paths <- MCPaths
    Roots <- MCRoots
    Interesting <- MCInteresting
    Tagged <- NoPath
    DepthLimit = 2
    MaxChanges = 0
    MaxStarts = 1
SPECIFICATION Spec
INVARIANT UndisturbedScanCompletes
CHECK_DEADLOCK FALSE
