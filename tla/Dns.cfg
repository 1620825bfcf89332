SPECIFICATION FairSpec
CONSTANTS
    NumUpstreams = 2
    MaxFlips = 2
    Failures = {"spawn", "responder", "upstream"}
CHECK_DEADLOCK FALSE
INVARIANTS
    PinnedStaysPrivate
    DecisionFirst
    UndecidedIsShortLived
    NeverUnreachable
PROPERTIES
    Answered
