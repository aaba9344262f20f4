SPECIFICATION Spec
CONSTANTS
    UptimeMin = 1
    Budget = 2
    Window = 4
    Zone <- MCFarAhead
    MaxTime = 9
    MaxFaults = 0
CHECK_DEADLOCK FALSE
INVARIANTS
    RebootBudget
