SPECIFICATION FairClipSpec
CONSTANTS
    MaxFiles = 1
    MaxRecs = 1
    MaxWritten = 1
    MaxTime = 2
    Paths = {1}
    ReuseNames = FALSE
    CrashBeforeMagic = FALSE
    PublishTimes = {1}
    Watch = 0
    DeleteOld = TRUE
    MaxFaults = 1
    MaxMisses = 1
    Handlers = {h1}
    Windows <- MCWindows
    Source = "log"
PROPERTIES
    TriggerIsCut
CHECK_DEADLOCK FALSE
