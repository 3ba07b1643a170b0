SPECIFICATION SettlingSpec
CONSTANTS
    c1 = c1
    g1 = g1
    g2 = g2
    Calls = {c1}
    Goroutines = {g1, g2}
    CallOf <- OneCall
    Keys = {q1, q2, q3}
    Permitted = {q1, q2}
    MaxConcurrent = 1
    Costs = {1}
    MaxRuns = 2
    NoRun = NoRun
INVARIANTS
    TypeOK
    SlotsAreHeldInRun
    ResultsAreTrue
PROPERTIES
    KeepsContract
    EveryRunReturns
