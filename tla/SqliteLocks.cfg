CONSTANTS
    Conns = {app, web}
    Builder = app
    Pages = {p1, p2}
    Patience = 4
    MaxCommits = 2
    MaxCrashes = 1
SPECIFICATION FairSpec
INVARIANTS
    TypeOK
    Exclusion
    LockInfoIsTrue
    OsHolds
    OneCommit
    LastCommit
PROPERTY
    StatementsEnd
CHECK_DEADLOCK FALSE
