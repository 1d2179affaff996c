CONSTANTS
    Requests <- Sample
    Noise = {"cr", "lf", "sp", "tab", "ctl", "hi", ":", "/", "?", "=", "&", "%", "w", "1", "length"}
    CharMax = 7
    UintMax = 99
SPECIFICATION Spec
INVARIANTS
    ReadsAsSent
    EndsWhereItSays
CHECK_DEADLOCK FALSE
