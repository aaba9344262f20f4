SPECIFICATION Spec
CONSTANTS
    u1 = u1
    u2 = u2
    p1 = p1
    p2 = p2
    r1 = r1
    r2 = r2
    r3 = r3
    Uploads <- MCUploads
    Paths <- MCPaths
    Parts <- MCParts
    Numbers = {1, 2}
    NoPath = NoPath
    NoPart = NoPart
    NoUpload = NoUpload
    NoReload = NoReload
    MaxFaults = 2
CHECK_DEADLOCK FALSE
SYMMETRY MCSymmetry
INVARIANTS
    CompletedIsWhole
PROPERTIES
    KeepsUploadPromise
