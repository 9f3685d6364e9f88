SPECIFICATION Spec
CONSTANTS
    MaxFiles = 3
    MaxClock = 2
    MaxFaults = 1
    Paths = {p1, p2}
    Inodes = {1, 2}
SYMMETRY Symmetry
INVARIANTS
    TypeOK
    NoneIsExact
    IndexedOnce
    IndexedInOrder
CHECK_DEADLOCK FALSE
