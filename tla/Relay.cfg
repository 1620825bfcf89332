SPECIFICATION FairSpec
CONSTANTS
    MaxConns = 1
    MaxUp = 2
    MaxDown = 1
    ToMeshLimit = 0
    ToLocalLimit = 1
    Cap = 1
    UnreachLimit = 1
    Failures = {"spawn", "head", "port", "egress"}
CHECK_DEADLOCK FALSE
INVARIANTS
    ConnectionsBounded
    BacklogBounded
    HalfClosesInOrder
PROPERTIES
    DroppedEnds
    Carried
