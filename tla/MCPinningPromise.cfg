SPECIFICATION Spec
CONSTANTS
    t1 = t1
    t2 = t2
    Tokens <- MCTokens
    Owner <- MCRefreshed
    None = None
    Garbled = Garbled
    FullEvery = 2
    QueueCap = 1
    Overlap = 1
    ClockAhead = 0
    MaxPins = 2
    MaxFaults = 2
    MaxEdits = 1
    MaxReports = 0
CHECK_DEADLOCK FALSE
INVARIANTS
    MarkerDuringPass
    WatermarkCovered
PROPERTIES
    KeepsPromise
    PassAdvances
