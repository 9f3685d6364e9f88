SPECIFICATION Spec
CONSTANTS
    Start = 0
    Duration = 5
    Arrivals = 2
    Steps <- MCSteps
    SecLen = 2
    SecMax = 1
    Top = 7
    MaxRoll = 1
    MaxSkew = 1
    PublishOffset = 2
    Depth = 1
    Rolls = {0, 1}
    Odd <- MCOdd
INVARIANTS
    TypeOK
    AnchoredAsMeant
    ParkIsBounded
CHECK_DEADLOCK FALSE
