SPECIFICATION FairSpec
CONSTANTS
    Clients = {b1}
    NoClient = none
    Topics <- OneTopic
    InitialTopics <- TopicOne
    Events = {ev}
    MaxBuffered = 1
    MaxSamples = 1
    MaxDrops = 1
    MaxLeaves = 0
    MaxMsgs = 2
    MaxCalls = 2
    MaxAttempts = 1
    MaxLosses = 1
    MaxSetup = 2
INVARIANTS
    TypeOK
    StatusFollowsLink
    RoomHearsTheSession
    FirstJoinerGetsAll
    TopicsAreGranted
    RoomKnowsTopics
    UnackedAreKnown
PROPERTIES
    RefinesLife
    RoomLearnsOfEnd
    DeletedIsForgotten
CHECK_DEADLOCK FALSE
