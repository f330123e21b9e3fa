SPECIFICATION Spec
CONSTANTS
    Header = 4
    MinHeader = 2
    Edition2 = 20
    MaxPieces = 3
    Sources <- MCSources
INVARIANTS
    YieldsTheMessages
PROPERTIES
    StreamEnds
CHECK_DEADLOCK FALSE
