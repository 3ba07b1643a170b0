SPECIFICATION Spec
CONSTANTS
    k1 = k1
    r1 = r1
    r2 = r2
    r3 = r3
    Requests = {r1, r2, r3}
    Keys = {k1}
    RateOf <- TwoTokens
    Minute = 2
    MaxNow = 4
INVARIANTS
    CreditInBounds
    WindowBound
PROPERTIES
    PacedRequestsPass
