SPECIFICATION RerunSpec
CONSTANTS
    Text <- MCText
    Query <- MCQuery
    Names <- MCNames
    Words <- MCWords
    Means <- MCMeans
    RangeWord = {"to"}
    Huge = {"huge"}
    MayFail = {"0/6"}
    Versions <- MCVersions
    MaxEdits = 3
INVARIANTS
    NoMissedChange
    NoNeedlessRerun
CHECK_DEADLOCK FALSE
