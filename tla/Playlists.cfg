CONSTANTS
    Requests <- Kinds
    InitialSongs = {1, 2}
    MaxSongs = 3
    MaxRequests = 2
    MaxDisturbed = 2
SPECIFICATION Spec
INVARIANTS
    TypeOK
    DistinctPlaces
PROPERTIES
    NeverSwaps
    OnlyItsPlaylist
CHECK_DEADLOCK FALSE
