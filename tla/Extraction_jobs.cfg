SPECIFICATION Spec
CONSTANTS
    w1 = w1
    w2 = w2
    j1 = j1
    j2 = j2
    Workers = {w1, w2}
    Jobs = {j1, j2}
    Docs = {1}
    Fields = {1, 2}
    JobFields <- MCJobFields
    MaxRetries = 1
    MaxFaults = 0
    AuditCheck = TRUE
    RedFlagged = {j1}
SYMMETRY Symmetry
INVARIANTS
    TypeOK
    RowsHaveDocument
    SerialRunsLeaveOnlyTheirRows
    OverlappingRunsAgree
PROPERTY FinishedReopensOnlyByFault
CHECK_DEADLOCK FALSE
