SPECIFICATION Spec
CONSTANTS
    r1 = r1
    r2 = r2
    Requests = {r1, r2}
    Mixes <- SmallMixes
    Ports = {61000}
    OutCap = 1
    MaxSegs = 2
    MaxFlight = 1
    UNREACHABLE_LIMIT = 2
    RESENDS = 2
CHECK_DEADLOCK FALSE
INVARIANTS
    ActiveCountsFlows
    RepeatsOnlyRefused
    VerdictJustified
PROPERTIES
    RepliesClaimed
    RequestsEnd
