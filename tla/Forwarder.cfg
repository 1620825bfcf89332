SPECIFICATION Spec
CONSTANTS
    Flows = {f1, f2}
    Failures = {"spawn", "build", "socket", "wedge"}
CHECK_DEADLOCK FALSE
INVARIANTS
    JoinedIsQuiet
PROPERTIES
    SignalledEnds
    JoinReturns
    ServerLossTold
