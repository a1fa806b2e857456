SPECIFICATION Spec
CONSTANTS
    IntWidth = 3
    Programs <- MCPrograms
INVARIANTS
    TypeOK
    ReportsAreReal
    FailuresAreModels
