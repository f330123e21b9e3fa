SPECIFICATION Spec
CONSTANTS
    a1 = a1
    a2 = a2
    b = b
    c = c
    t1 = t1
    t2 = t2
    Thread = {t1, t2}
    Provider = {a1, a2, b, c}
    FoundNames = {"none", "user", "high", "low", "both"}
    MaxSpawns = 1
    ConfigOf <- MCConfigOf
    HomeOf <- MCHomeOf
    EnvHomeOf <- MCEnvHomeOf
    LanguageIn = {"site-language", "own-language"}
    DefaultFDB = {}
    Dirs <- MCDirs
    Found <- MCFound
SYMMETRY ThreadSymmetry
INVARIANTS
    TypeOK
    JobsOpenTheFDB
    ConflictRestores
    DefinitionsKept
    HomesHaveLanguage
    SchemaFitsFDB
CHECK_DEADLOCK FALSE
