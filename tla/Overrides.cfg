SPECIFICATION Spec
CONSTANTS
    f1 = f1
    v1 = v1
    r1 = r1
    r2 = r2
    r3 = r3
    r4 = r4
    Fields = {f1}
    Requests = {r1, r2, r3, r4}
    Values <- MCValues
    Documents <- MCDocuments
    Dates <- MCDates
    AwareDates = TRUE
    Extractions <- MCExtractions
SYMMETRY RequestSymmetry
INVARIANTS
    TypeOK
    TrailIsAChain
    SummaryAddsUp
    ConcludedFollowsRule
PROPERTIES
    AcknowledgedIsStored
CHECK_DEADLOCK FALSE
