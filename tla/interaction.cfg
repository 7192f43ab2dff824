SPECIFICATION FairSpec
CONSTANTS
    Durations <- MCDurations
    Wrap = 16
    kWaitMs = 1
    kMinDurationMs = 1
    kMaxDurationMs = 4
    kDurationOffsetMs = 1
    kDisplayIdleSupport = TRUE
INVARIANTS TypeOK HintMatchesState NoStaleAbort RequestHonoured
PROPERTIES HintReleased ExitReturns
