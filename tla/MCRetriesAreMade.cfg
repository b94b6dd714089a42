SPECIFICATION Spec
CONSTANTS
    Clients = {b1}
    NoClient = none
    Topics = {}
    InitialTopics <- NoTopics
    Events = {}
    MaxBuffered = 1
    MaxSamples = 1
    MaxDrops = 0
    MaxLeaves = 0
    MaxMsgs = 0
    MaxCalls = 0
    MaxAttempts = 2
    MaxLosses = 1
    MaxSetup = 1
PROPERTY
    RetriesAreMade
CHECK_DEADLOCK FALSE
