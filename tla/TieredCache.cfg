SPECIFICATION FairSpec
CONSTANTS
    settled = settled
    m1 = m1
    m2 = m2
    r1 = r1
    r2 = r2
    Machines = {m1, m2}
    Questions = {settled}
    Callers = {c1, c2}
    Everyone = Everyone
    PerCaller = TRUE
    Requests = {r1, r2}
    Second = 2
    TTL = 2
    SettledTTL = 3
    ClosesAt <- ClosesEarly
    Nothing = Nothing
    MaxEntries = 1
    MaxNow = 3
    MaxRestarts = 1
INVARIANTS
    TypeOK
    HitsAreFresh
    LocalsAreConsistent
    HitsMayBeShared
PROPERTIES
    LookupsAreServed
CHECK_DEADLOCK FALSE
