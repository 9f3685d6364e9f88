SPECIFICATION FairSpec
CONSTANTS
    Styles = {"copper", "custom", "chunked"}
    EpochFloor = 1
    Bounds <- MCBounds
    PublishOffset = 1
    Period = 1
    ChunkSize = 4
    ExtentCap = 3
    MaxFaults <- MCFaults
    Source = "log"
    Pre = 1
    Post = 1
INVARIANTS
    TypeOK
    CoverageIsIndexed
    LiftedExactly
    ClipIsExact
    CutHasAllWritten
PROPERTIES
    WrittenIsOnDisk
CHECK_DEADLOCK FALSE
