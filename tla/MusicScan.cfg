CONSTANTS
    Paths <- MCPaths
    Roots <- MCRoots
    Interesting <- MCInteresting
    Tagged <- MCTagged
    DepthLimit = 2
    MaxChanges = 2
    MaxStarts = 2
SPECIFICATION FairSpec
INVARIANTS
    TypeOK
    NoOrphans
    OneRowPerEntry
    MirrorsWhenDone
PROPERTIES
    RescanWritesNothing
    KeepsARow
    MissingRootKeepsRows
    ScanEnds
CHECK_DEADLOCK FALSE
