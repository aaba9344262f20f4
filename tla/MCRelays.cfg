SPECIFICATION FairSpec
CONSTANTS
    bootstrap = bootstrap
    east = east
    Lists = {bootstrap, east}
    Template = bootstrap
    FailLimit = 2
    MaxChanges = 1
    MaxFaults = 1
CHECK_DEADLOCK FALSE
INVARIANTS
    HeartbeatIsOwn
    KuboRunsTheFile
    KuboHasHelp
PROPERTIES
    IdentityKept
    RelaysConverge
    KuboComesBack
    IsolatedIsRestarted
