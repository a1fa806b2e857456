SPECIFICATION FairSpec
CONSTANTS
    v1 = v1
    v2 = v2
    Val = {v1, v2}
    Programs <- MCPrograms
INVARIANTS
    TypeOK
    SuppressedIsReported
    NothingLost
    ReportsOnce
PROPERTIES
    Terminates
