SPECIFICATION FairSpec
CONSTANTS
    Sessions = {s1}
    Tids = {t1}
    Binder = binder
    Channels = {}
    Handler = handler
    Levels = {1}
    Targets = {1, 2}
    Durations = {1, 2, 4}
    Hints = {"CPU_LOAD_UP", "CPU_LOAD_RESET", "GPU_LOAD_UP"}
    StaleTimeFactor = 2
    ReportingRateLimit = 1
    MaxCalls = 3
    MaxTime = 5
    CallHorizon = 0
    MaxStalls = 1
INVARIANTS TypeOK ActiveVoteHasEvent BoostEventInTime
PROPERTIES ImplementsVoteTimeouts BoostsEnd
CHECK_DEADLOCK FALSE
