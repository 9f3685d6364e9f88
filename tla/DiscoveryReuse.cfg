SPECIFICATION Spec
CONSTANTS
    MaxFiles = 3
    MaxClock = 2
    MaxFaults = 0
    Paths = {p1, p2}
    Inodes = {1, 2}
SYMMETRY Symmetry
INVARIANTS
    ReusedIsYielded
CHECK_DEADLOCK FALSE
