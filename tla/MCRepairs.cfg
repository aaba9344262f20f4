SPECIFICATION FairSpec
CONSTANTS
    MaxFaults = 2
CHECK_DEADLOCK FALSE
INVARIANTS
    ClusterKept
PROPERTIES
    IdentityFileKept
    ServesAgain
    IdentityComesBack
    
