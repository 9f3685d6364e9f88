SPECIFICATION RefireSpec
CONSTANTS
    Limit = 1
    MaxRoll = 0
    MaxSkew = 1
    Payloads <- MCPayloads
    Chunks <- MCChunks
    Arrivals = 2
    LastTrigger = 1
    MaxFiles = 2
    MaxScans = 2
    MaxRuns = 2
INVARIANTS
    NeverRefires
CHECK_DEADLOCK FALSE
