SPECIFICATION LookupsSpec
CONSTANTS
    r1 = r1
    Reader = {r1}
    Key <- MCKey
    Spelling <- MCSpelling
    ValuesOf <- MCValuesOf
    Canonical <- MCCanonical
    Comparable <- MCComparable
    KindOf <- MCKindOf
    SchemaKey <- MCSchemaKey
    RemovedKey <- MCRemovedKey
    OptionalKey <- MCOptionalKey
    SchemaReadable = TRUE
    MetkitAvailable = TRUE
    ArchiveMode = "native"
    OutputNames = {"minute", "six", "quantile", "origin"}
    Output <- MCOutput
    PatternNames = {"step", "quantile"}
    Pattern <- MCPattern
    Written <- MCWritten
    Root <- MCRoot
    Settings <- MCSettings
    Faults = {"unknown"}
    MaxAttempts = 3
    MaxClock = 2
    MaxStores = 1
    MaxChanges = 2
    MaxLookups = 2
INVARIANTS
    LookupsTypeOK
    KnownStaysComplete
    FreshAnswers
    InventoryHolds
    ReportsAddUp
    ListedAreFound
    OneSpelling
PROPERTIES
    StoredIsFound
CHECK_DEADLOCK FALSE
