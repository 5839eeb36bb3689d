SPECIFICATION Spec
CONSTANTS
    MaxPages = 2
    Threads = {t1, t2}
    Work <- MCWork
    Queries <- MCQueries
    Pool = 2
    Deep = 2
    Final = 2
    MinCandidates = 2
INVARIANTS
    TypeOK
    ClausesTile
    HybridFindsWhatWordsFind
PROPERTIES
    SettledStays
CHECK_DEADLOCK FALSE
