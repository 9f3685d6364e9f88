SPECIFICATION ClipSpec
CONSTANTS
    MaxFiles = 2
    MaxRecs = 2
    MaxWritten = 2
    MaxTime = 3
    Paths = {1, 2}
    ReuseNames = FALSE
    CrashBeforeMagic = FALSE
    PublishTimes = {1}
    Watch = 1
    DeleteOld = TRUE
    MaxFaults = 1
    MaxMisses = 0
    Handlers = {h1}
    Windows <- MCWindows
    Source = "log"
INVARIANTS
    ClipTypeOK
    CutComplete
    SegmentsInOrder
    PrunedIsAged
CHECK_DEADLOCK FALSE
