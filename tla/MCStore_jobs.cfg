SPECIFICATION FairSpec
CONSTANTS
    t1 = t1
    t2 = t2
    Thread = {t1}
    Key <- MCKey
    Spelling <- MCSpelling
    ValuesOf <- MCValuesOf
    Canonical <- MCCanonical
    Comparable <- MCComparable
    KindOf <- MCKindOf
    SchemaKey <- MCSchemaKey
    RemovedKey <- MCRemovedKey
    OptionalKey <- MCOptionalKey
    SchemaReadable = TRUE
    MetkitAvailable = TRUE
    ArchiveMode = "identifier"
    OutputNames = {"quantile", "long"}
    Output <- MCOutput
    FilesOf <- MCFilesOf
    JobKinds = {"file", "direct", "plain"}
    Faults = {"archive", "inspect", "roots"}
    Spawned = {"plain"}
    JobMetkit = FALSE
    MaxAttempts = 3
    MaxClock = 2
    MaxJobs = 2
    MaxForeign = 1
INVARIANTS
    TypeOK
    HandlesFlushed
    StoredIsComplete
    ErrorsSayFieldsStay
PROPERTIES
    StoreEnds
CHECK_DEADLOCK FALSE
