SPECIFICATION FairSpec
CONSTANTS
    MaxGen = 3
    MaxSends = 2
    OutCap = 1
    Scenarios <- PumpScenarios
CHECK_DEADLOCK FALSE
INVARIANTS
    ClosedUnused
    InOrder
PROPERTIES
    CallsEnd
    Delivered
