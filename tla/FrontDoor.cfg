SPECIFICATION Spec
CONSTANTS
    alice = alice
    bob = bob
    mallory = mallory
    demo = demo
    NoKey = NoKey
    NoCursor = NoCursor
    Garbled = Garbled
    Parties <- TheParties
    Requests <- TheRequests
    Keys <- TheKeys
    WellFormed = {alice, bob, demo}
    AllowedKeys = {alice, bob}
    DemoKey = demo
    Rate = 3
    DemoRate = 1
    Limit = 2
    DefaultPageSize = 1
    PricesPageSize = 2
    MaxRuns = 2
    MaxLength = 3
    MaxRefills = 1
INVARIANTS
    RefusalsAreFree
    PagesJoinUp
CHECK_DEADLOCK FALSE
