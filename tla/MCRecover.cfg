SPECIFICATION FairSpec
CONSTANTS
    UptimeMin = 1
    Budget = 2
    Window = 4
    Zone <- MCAhead
    MaxTime = 6
    MaxFaults = 2
CHECK_DEADLOCK FALSE
INVARIANTS
    RebootsBounded
PROPERTIES
    UptimeRespected
    WatchdogRestarted
