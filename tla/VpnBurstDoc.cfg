SPECIFICATION Spec
CONSTANTS
    MaxAttempts = 2
    Scenarios <- BurstScenario
INVARIANTS
    SettledRoutes
CHECK_DEADLOCK FALSE
