CONSTANTS
    Requests <- Kinds
    InitialSongs = {1, 2}
    MaxSongs = 2
    MaxRequests = 3
    MaxDisturbed = 0
SPECIFICATION Spec
INVARIANT CopiedWhole
CHECK_DEADLOCK FALSE
