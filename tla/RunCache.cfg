SPECIFICATION Spec
CONSTANTS
    k1 = k1
    k2 = k2
    k3 = k3
    k4 = k4
    Keys = {k1, k2, k3, k4}
    Runs = {r1, r2}
    NoRun = NoRun
    MaxEntries = 2
    TTL <- MCTTL
    MaxNow = 3
    MaxReads = 3
INVARIANTS
    TypeOK
    MapAndListAgree
PROPERTIES
    EvictsLeastRecent
    OnlyAStoreRenews
    ImplementsStore
CHECK_DEADLOCK FALSE
