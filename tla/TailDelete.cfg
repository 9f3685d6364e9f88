SPECIFICATION Spec
CONSTANTS
    MaxFiles = 2
    MaxRecs = 1
    MaxWritten = 2
    MaxTime = 2
    Paths = {1, 2}
    ReuseNames = TRUE
    CrashBeforeMagic = TRUE
    PublishTimes = {1}
    Watch = 0
    DeleteOld = TRUE
    MaxFaults = 2
    MaxMisses = 0
INVARIANTS
    LiveFileLinked
CHECK_DEADLOCK FALSE
