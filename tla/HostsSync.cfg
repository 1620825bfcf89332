SPECIFICATION Spec
CONSTANTS
    Upstreams = {u1, u2}
    MaxSaves = 2
    MaxConnects = 1
CHECK_DEADLOCK FALSE
PROPERTY
    OffRemovesBlock
