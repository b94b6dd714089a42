SPECIFICATION Spec
CONSTANTS
    Clients = {b1}
    NoClient = none
    NoCondition = nocond
    Conditions <- AnyCondition
    MaxBuffered = 1
    MaxSamples = 2
    MaxDrops = 1
    MaxLeaves = 0
    MaxMsgs = 2
    MaxCalls = 2
    MaxPings = 0
INVARIANT
    NoDuplicateOnRejoin
CHECK_DEADLOCK FALSE
