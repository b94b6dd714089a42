SPECIFICATION Spec
CONSTANTS
    Windows = {w1, w2}
    Names = {n1, n2}
    key = key
    one = one
    two = two
    Keys = {key}
    Values = {one}
    NoValue = novalue
    HandWritten <- SecretFile
    Tokens = {t1}
    MaxConfigs = 2
    MaxSaved = 3
    MaxMinted = 3
    Conns = {c1, c2}
    NoConn = noconn
    Latencies = {1, 2}
    Percentiles = {1, 34, 50, 67, 95, 99, 100}
    MaxMessages = 2
    MaxEntries = 2
    MaxPerConnection = 2
    MaxSamples = 2
    MaxPoints = 1
    Span = 2
    MaxTraffic = 3
    MaxTime = 2
    MaxUser = 2
    Settings = {unset, slow}
    Unset = unset
    NoSettings = nosettings
    MaxAsked = 3
    MaxProgress = 1
INVARIANTS
    ActiveExists
    KeptUntilDeleted
    ReceivedOnceInOrder
    SentWhereItWasSent
    ChartsCountTheWindow
    PolledAreRanks
    InForceIsShown
    RunningHasCause
SYMMETRY Symmetry
CHECK_DEADLOCK FALSE
