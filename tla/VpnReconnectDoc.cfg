SPECIFICATION Spec
CONSTANTS
    MaxAttempts = 5
    Scenarios <- ReconnectScenario
INVARIANTS
    ReconnectedRuns
CHECK_DEADLOCK FALSE
