SPECIFICATION Spec
CONSTANTS
    t1 = t1
    t2 = t2
    Thread = {t1, t2}
    Key <- MCKey
    Spelling <- MCSpelling
    ValuesOf <- MCValuesOf
    Canonical <- MCCanonical
    Comparable <- MCComparable
    KindOf <- MCKindOf
    SchemaKey <- MCSchemaKey
    RemovedKey <- MCRemovedKey
    OptionalKey <- MCOptionalKey
    SchemaReadable = TRUE
    MetkitAvailable = TRUE
    ArchiveMode = "native"
    OutputNames = {"range", "minute"}
    Output <- MCOutput
    FilesOf <- MCFilesOf
    JobKinds = {"file"}
    Faults = {"flush"}
    Spawned = {}
    JobMetkit = TRUE
    MaxAttempts = 3
    MaxClock = 3
    MaxJobs = 2
    MaxForeign = 1
SYMMETRY ThreadSymmetry
PROPERTIES
    ImplementsMasking
    OwnDataLands
    OnlyBadFilesRejected
CHECK_DEADLOCK FALSE
