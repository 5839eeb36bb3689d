SPECIFICATION FairSpec
CONSTANTS
    s1 = s1
    s2 = s2
    r1 = r1
    r2 = r2
    r3 = r3
    r4 = r4
    Schemas = {s1, s2}
    Requests = {r1, r2, r3, r4}
    Jobs = {j1}
    MaxRows = 2
    RowId <- MCRowId
INVARIANTS
    TypeOK
    DefaultIsOneLatest
PROPERTIES
    UploadKeepsDefault
    JobRunsWhatItRecorded
    EveryRequestEnds
CHECK_DEADLOCK FALSE
