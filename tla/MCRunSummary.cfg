SPECIFICATION Spec
CONSTANTS
    q1 = q1
    q2 = q2
    t1 = t1
    t2 = t2
    Query = {q1, q2}
    Thread = {t1, t2}
    StoresHere = TRUE
    MaxLookups <- MCMaxLookups
    MaxFailures = 1
    MaxForeign = 1
    Size <- MCSize
SYMMETRY ThreadSymmetry
INVARIANTS
    TypeOK
    CountsAreExact
    ProducedNotIncomplete
    OthersNotCounted
    ArchiveModeLineTrue
CHECK_DEADLOCK FALSE
