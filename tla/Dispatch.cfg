CONSTANTS
    Browsers = {b1, b2}
    Pages <- AllPages
    MaxUsers = 2
    MaxTickets = 5
    MaxRequests = 4
    MaxRows = 2
    MaxFailures = 1
SPECIFICATION Spec
SYMMETRY MCBrowsersAlike
INVARIANTS
    TypeOK
    SessionsAreEarned
    SavedAsAsked
    PagesHaveTheirLength
PROPERTIES
    AdminsChangeAccounts
    KnownEnds
CHECK_DEADLOCK FALSE
