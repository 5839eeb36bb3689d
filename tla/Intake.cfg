SPECIFICATION FairSpec
CONSTANTS
    r1 = r1
    r2 = r2
    r3 = r3
    Requests = {r1, r2, r3}
    Uploads <- MCUploads
    MaxFiles = 2
    PerFile = 2
    Total = 3
INVARIANTS
    TypeOK
PROPERTIES
    FreshFilesAreKept
    OrphansAreCollected
CHECK_DEADLOCK FALSE
