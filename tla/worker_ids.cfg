SPECIFICATION Spec
CONSTANTS
    Packages = {p1, p2}
    Callers = {c1, c2}
    Pool = {w1}
    Deadlines = {1}
    MaxTime = 1
    NoPackage = NoPackage
INVARIANT IdsUnique
CHECK_DEADLOCK FALSE
