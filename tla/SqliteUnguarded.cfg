CONSTANTS
    Conns = {app, web}
    Builder = app
    Pages = {p1, p2}
    Patience = 4
    MaxCommits = 2
    MaxCrashes = 1
SPECIFICATION USpec
INVARIANT
    Exclusion
CHECK_DEADLOCK FALSE
