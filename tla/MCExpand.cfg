SPECIFICATION ExpandSpec
CONSTANTS
    WithMinutes = FALSE
    Scale = 6
    DateNumber <- MCDateNumber
    Requests <- MCRequests
INVARIANTS
    RangesExact
CHECK_DEADLOCK FALSE
