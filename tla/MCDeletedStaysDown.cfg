SPECIFICATION Spec
CONSTANTS
    Clients = {b1}
    NoClient = none
    Topics = {}
    InitialTopics <- NoTopics
    Events = {}
    MaxBuffered = 1
    MaxSamples = 1
    MaxDrops = 0
    MaxLeaves = 0
    MaxMsgs = 0
    MaxCalls = 1
    MaxAttempts = 0
    MaxLosses = 0
    MaxSetup = 1
PROPERTY
    DeletedStaysDown
CHECK_DEADLOCK FALSE
