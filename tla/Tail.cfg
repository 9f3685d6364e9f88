SPECIFICATION FairSpec
CONSTANTS
    MaxFiles = 2
    MaxRecs = 1
    MaxWritten = 2
    MaxTime = 2
    Paths = {1, 2}
    ReuseNames = FALSE
    CrashBeforeMagic = TRUE
    PublishTimes = {1}
    Watch = 0
    DeleteOld = TRUE
    MaxFaults = 2
    MaxMisses = 1
INVARIANTS
    TypeOK
    CoverageSound
    CoverageBacked
    OldestFirst
    FaultsAreCurrent
    EndedIsDrained
    LiveFileLinked
PROPERTIES
    CoverageMonotone
    FinishedIsReadOrBlocked
    AgedIsDropped
CHECK_DEADLOCK FALSE
