SPECIFICATION FairSpec
CONSTANTS
    t1 = t1
    t2 = t2
    Tokens <- MCOneToken
    Owner <- MCRefreshed
    None = None
    Garbled = Garbled
    FullEvery = 2
    QueueCap = 1
    Overlap = 0
    ClockAhead = 1
    MaxPins = 2
    MaxFaults = 1
    MaxEdits = 0
    MaxReports = 2
CHECK_DEADLOCK FALSE
PROPERTIES
    PinsReplicated
    QueueDrains
    RegistryConverges
