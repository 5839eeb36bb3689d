SPECIFICATION Spec
CONSTANTS
    w1 = w1
    w2 = w2
    j1 = j1
    j2 = j2
    Workers = {w1, w2}
    Jobs = {j1}
    Docs = {1}
    Fields = {1}
    JobFields <- MCSameFields
    MaxRetries = 0
    MaxFaults = 0
    AuditCheck = TRUE
    RedFlagged = {j1}
INVARIANT RedFlagsReachAuditLog
CHECK_DEADLOCK FALSE
