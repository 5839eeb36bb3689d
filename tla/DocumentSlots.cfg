SPECIFICATION FairSpec
CONSTANTS
    b1 = b1
    b2 = b2
    a1 = a1
    a2 = a2
    a3 = a3
    n1 = n1
    n2 = n2
    Uploads = {b1, b2, a1, a2, a3}
    Base = {b1, b2}
    Name <- MCUnshared
    Deleters = {x1}
    MaxAmendments = 2
    MaxActive = 2
INVARIANTS
    TypeOK
    SlotLimits
    DocumentsKeepTheirFiles
PROPERTIES
    ImplementsTable
    EveryUploadAnswers
CHECK_DEADLOCK FALSE
