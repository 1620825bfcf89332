SPECIFICATION FairSpec
CONSTANTS
    Procs = {p1, p2}
    Cfgs = {c1, c2}
    None = None
    MaxCalls = 3
    Failures = {"config", "node", "rx", "timeout", "dup", "threads", "swap", "abandon"}
CHECK_DEADLOCK FALSE
INVARIANTS
    NodesSerialized
    QuiescentIsClean
PROPERTIES
    CallsReturn
    ImplementsApi
