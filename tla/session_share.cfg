SPECIFICATION Spec
CONSTANTS
    Sessions = {s1, s2}
    Tids = {t1}
    Binder = binder
    Channels = {ch}
    Handler = handler
    Levels = {1}
    Targets = {1}
    Durations = {1, 2}
    Hints = {"CPU_LOAD_UP", "CPU_LOAD_DOWN"}
    StaleTimeFactor = 2
    ReportingRateLimit = 1
    MaxCalls = 3
    MaxTime = 3
    CallHorizon = 0
    MaxStalls = 1
INVARIANTS Consistent ThreadsReleased NoStuckBoost
SYMMETRY SessionSymmetry
CHECK_DEADLOCK FALSE
