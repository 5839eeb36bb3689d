SPECIFICATION FairSpec
CONSTANTS
    w1 = w1
    w2 = w2
    j1 = j1
    j2 = j2
    Workers = {w1, w2}
    Jobs = {j1}
    Docs = {1, 2}
    Fields = {1}
    JobFields <- MCSameFields
    MaxRetries = 1
    MaxFaults = 1
    AuditCheck = FALSE
    RedFlagged = {j1}
INVARIANTS
    CompletingRunsSavedAll
    ProgressCountsSavedResults
PROPERTIES
    ImplementsTicket
    EveryJobSettles
CHECK_DEADLOCK FALSE
