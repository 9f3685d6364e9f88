SPECIFICATION FairSpec
CONSTANTS
    MaxFiles = 2
    MaxRecs = 1
    MaxWritten = 2
    MaxTime = 1
    Paths = {1, 2}
    ReuseNames = FALSE
    CrashBeforeMagic = TRUE
    PublishTimes = {1}
    Watch = 0
    DeleteOld = FALSE
    MaxFaults = 2
    MaxMisses = 0
PROPERTIES
    FinishedIsRead
CHECK_DEADLOCK FALSE
