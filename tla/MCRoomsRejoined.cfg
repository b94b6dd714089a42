SPECIFICATION Spec
CONSTANTS
    MaxTabs = 2
    MaxOpened = 3
    MaxConns = 2
    MaxDrops = 1
INVARIANT
    RoomsRejoined
CHECK_DEADLOCK FALSE
