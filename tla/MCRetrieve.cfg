SPECIFICATION FairSpec
CONSTANTS
    f1 = f1
    f2 = f2
    x1 = x1
    Field = {f1, f2}
    Through = {x1}
    LengthOf <- MCLengthOf
    NoFile = NoFile
    Modes = {"file", "stream"}
    Faults = {"inspect", "read", "short", "interrupt", "kill"}
    MaxAttempts = 3
    MaxVersion = 2
    MaxWrites = 2
    MaxRuns = 2
INVARIANTS
    TypeOK
    StreamExact
    PartRemoved
PROPERTIES
    DestComplete
    ExactUnlessRewritten
    RetrievalEnds
CHECK_DEADLOCK FALSE
