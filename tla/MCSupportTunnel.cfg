SPECIFICATION FairSpec
CONSTANTS
    Threshold = 1
    Fresh = 0
    Cooldown = 1
    Backoff = 3
    MaxStrikes = 2
    MaxHydrated = 2
    Guard = 0
    NtpCooldown = 1
    Weather <- MCWeather
    Behind = 1
    Ahead = 0
    MaxFaults = 1
CHECK_DEADLOCK FALSE
INVARIANTS
    StoppedStaysDown
    WaitIsBounded
PROPERTIES
    BackoffKept
    NoBounceOffline
    StaleIsBounced
    ClockIsCorrected
