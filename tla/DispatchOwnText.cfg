CONSTANTS
    Browsers = {b1}
    Pages <- MCReading
    MaxUsers = 2
    MaxTickets = 3
    MaxRequests = 3
    MaxRows = 1
    MaxFailures = 0
SPECIFICATION Spec
INVARIANT OwnText
CHECK_DEADLOCK FALSE
