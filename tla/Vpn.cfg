SPECIFICATION FairSpec
CONSTANTS
    MaxAttempts = 6
    Scenarios <- SessionScenarios
INVARIANTS
    SettledSession
    StoppedIsDown
PROPERTIES
    SelectionApplied
    TeardownSparesNewTunnel
    TeardownEnds
CHECK_DEADLOCK FALSE
