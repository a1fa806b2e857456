SPECIFICATION Spec
CONSTANTS
    NumBlocks = 4
    Name <- MCName
    Val <- MCVal
    Programs <- MCPrograms
INVARIANTS
    TypeOK
    LoadsKeepTheirValue
    OnlyStoredLoadsStay
