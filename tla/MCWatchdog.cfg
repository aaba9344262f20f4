SPECIFICATION FairSpec
CONSTANTS
    Troubles <- MCAllTroubles
    Links <- MCLinks
    WifiCycles = 2
    MaxTroubles = 2
    MaxFaults = 1
CHECK_DEADLOCK FALSE
INVARIANTS
    TypeOK
PROPERTIES
    PartitionAfterFourFailures
    RepartitionsGuarded
    BrokenDeviceGetsSupport
