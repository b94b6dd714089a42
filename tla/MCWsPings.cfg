SPECIFICATION FairSpec
CONSTANTS
    Clients = {b1}
    NoClient = none
    NoCondition = nocond
    Conditions <- CutOnly
    MaxBuffered = 1
    MaxSamples = 2
    MaxDrops = 0
    MaxLeaves = 1
    MaxMsgs = 1
    MaxCalls = 2
    MaxPings = 2
INVARIANTS
    ClosedIsSettled
    PendingPingIsRegistered
PROPERTIES
    RefinesLife
    DeletedCloses
    RoomLearnsOfClose
    PingsSettle
    DelayedIsForwarded
CHECK_DEADLOCK FALSE
