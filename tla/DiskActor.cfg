SPECIFICATION FairSpec
CONSTANTS
    Sector = {s1}
    InitialType = "auto"
    Browser = {{"opfs", "idb"}}
    MaxCalls = 4
    MaxRaced = 3
    MaxReloads = 1
    MayFail = TRUE
INVARIANTS
    FlushDurableUnraced
    ReadsLatest
    ChecksumsMatch
PROPERTIES
    OrderedWrites
    EveryCallSettles
CHECK_DEADLOCK FALSE
