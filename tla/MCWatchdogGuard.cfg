SPECIFICATION Spec
CONSTANTS
    Troubles <- MCContainer
    Links <- MCWan
    WifiCycles = 2
    MaxTroubles = 1
    MaxFaults = 0
CHECK_DEADLOCK FALSE
PROPERTIES
    RepartitionsSpaced
