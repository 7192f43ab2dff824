SPECIFICATION RecordsSpec
CONSTANTS
    MaxNumOfRecords = 4
    FrameDurations = {1, 2, 3}
    Intervals = {0, 2}
    JankLimits = {2}
    LowRate = 2
    MaxResets = 1
INVARIANTS MaxRight CountersRight FpsSumRight
