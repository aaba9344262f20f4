SPECIFICATION FairSpec
CONSTANTS
    t1 = t1
    t2 = t2
    Tokens <- MCTokens
    Owner <- MCTwoUsers
    None = None
    Garbled = Garbled
    FullEvery = 2
    QueueCap = 1
    Overlap = 0
    ClockAhead = 0
    MaxPins = 2
    MaxFaults = 0
    MaxEdits = 2
    MaxReports = 0
CHECK_DEADLOCK FALSE
INVARIANTS
    SingleDaemon
PROPERTIES
    PublishesForPairedUser
    RegistryConverges
