SPECIFICATION Spec
CONSTANTS
    c1 = c1
    c2 = c2
    g1 = g1
    g2 = g2
    q1 = q1
    q2 = q2
    Calls = {c1, c2}
    Goroutines = {g1, g2}
    CallOf <- TwoCalls
    Keys = {q1, q2}
    Permitted = {q1, q2}
    Costs = {1}
    NoRun = NoRun
    MaxEntries = 1
    TTL <- OneTick
    MaxRuns = 2
    MaxNow = 1
    MaxAttempts = 1
    MaxRestarts = 1
INVARIANTS
    TypeOK
    SpentIsWhatWasWritten
    CachedRunsAreReceipted
    CachedRunsAreTrue
    TraceMatchesLedger
CHECK_DEADLOCK FALSE
