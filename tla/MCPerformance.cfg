SPECIFICATION FairPerfSpec
CONSTANTS
    Clients = {}
    NoClient = none
    NoCondition = nocond
    Conditions <- CutOnly
    MaxBuffered = 1
    MaxSamples = 1
    MaxDrops = 0
    MaxLeaves = 0
    MaxMsgs = 0
    MaxCalls = 2
    MaxTests = 2
    Total = 2
    MaxRounds = 2
    MaxPings = 4
INVARIANTS
    PerfTypeOK
    TestsKeptApart
    UnmarkedIsWhole
PROPERTIES
    AbortStopsSending
    TestsComplete
CHECK_DEADLOCK FALSE
