SPECIFICATION Spec
CONSTANTS
    MaxTabs = 2
    MaxOpened = 3
    MaxConns = 2
    MaxDrops = 1
INVARIANTS
    TypeOK
    ActiveIsDerived
    OneTabPerConnection
    RoomsAgree
CHECK_DEADLOCK FALSE
