SPECIFICATION Spec
CONSTANTS
    KeyOrder <- MCKeyOrder
    Atom <- MCAtom
    Wildcard = {"{s}", "{p}"}
    Written <- MCWritten
    Digest <- MCDigest
    NAME_MAX = 5
    Prefix <- MCPrefix
    Values <- MCValues
    MaxObjects = 4
INVARIANTS
    PathsCommuteUnlessDeclared
    PathTellsQuery
CHECK_DEADLOCK FALSE
