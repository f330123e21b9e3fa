SPECIFICATION ExpandSpec
CONSTANTS
    WithMinutes = TRUE
    Scale = 6
    DateNumber <- MCDateNumber
    Requests <- MCRequests
INVARIANTS
    OverCounts
CHECK_DEADLOCK FALSE
