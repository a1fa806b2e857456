SPECIFICATION Spec
CONSTANTS
    NumBlocks = 4
    Var = {"x", "y", "z"}
    Val = {0, 1}
    Programs <- MCPrograms
INVARIANTS
    ReportsAreTrue
    FirstRoundIsCovered
    ModelsAreExecutions
