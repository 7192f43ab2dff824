SPECIFICATION FairSpec
CONSTANTS
    Packages = {p1, p2, p3}
    Callers = {c1, c2}
    Pool = {w1}
    Deadlines = {1, 2}
    MaxTime = 2
    NoPackage = NoPackage
INVARIANTS NeverEarly OneEntryEach
PROPERTIES AllDelivered ShutdownEnds
CHECK_DEADLOCK FALSE
