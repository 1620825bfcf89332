SPECIFICATION FairQueueSpec
CONSTANTS
    Callers = {c1, c2}
    Workers = {w1, w2, w3}
    MaxRequests = 4
INVARIANTS
    PassesSerialized
    LastRequestServed
PROPERTY RequestServed
CHECK_DEADLOCK FALSE
