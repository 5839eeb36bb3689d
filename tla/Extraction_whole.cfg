SPECIFICATION Spec
CONSTANTS
    w1 = w1
    w2 = w2
    j1 = j1
    j2 = j2
    Workers = {w1, w2}
    Jobs = {j1, j2}
    Docs = {1}
    Fields = {1, 2, 3}
    JobFields <- MCSplitFields
    MaxRetries = 0
    MaxFaults = 0
    AuditCheck = FALSE
    RedFlagged = {}
INVARIANT CompleteMeansWhole
CHECK_DEADLOCK FALSE
