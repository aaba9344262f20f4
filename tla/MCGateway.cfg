SPECIFICATION FairSpec
CONSTANTS
    b1 = b1
    b2 = b2
    r1 = r1
    r2 = r2
    r3 = r3
    Buckets <- MCTwoBuckets
    Requests <- MCThreeRequests
    InBucket <- MCInBucket
    NoCid = NoCid
    MaxPublished = 2
    MaxFaults = 2
CHECK_DEADLOCK FALSE
INVARIANTS
    PersistedKeptUnlessRaced
    QuietIsCurrent
PROPERTIES
    FollowsUnlessRaced
