SPECIFICATION Spec
SYMMETRY Symmetry
CONSTANTS
    Clients = {b1, b2}
    NoClient = none
    NoCondition = nocond
    Conditions <- AnyCondition
    MaxBuffered = 1
    MaxSamples = 1
    MaxDrops = 1
    MaxLeaves = 0
    MaxMsgs = 2
    MaxCalls = 2
    MaxPings = 0
INVARIANTS
    TypeOK
    DeletedNeverReconnects
    RoomHearsTheSession
    FirstJoinerGetsAllOnce
    CutNeedsCondition
    CountedOnce
CHECK_DEADLOCK FALSE
