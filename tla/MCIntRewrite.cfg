SPECIFICATION Spec
CONSTANTS
    NumBlocks = 4
    Programs <- MCPrograms
    WrapOpts = {FALSE, TRUE}
INVARIANTS
    ObservedIsTrapped
    ReadsAreComputed
