SPECIFICATION Spec
CONSTANTS
    NumModules = 2
    Stem <- MCStem
    Widths = {2}
    Fns <- MCFns
    Opaque <- MCOpaque
    SourceIds <- MCSourceIds
    MaxIterations = 2
    Steps = 24
    Programs <- BranchPrograms
INVARIANTS
    ConstrainedByTerminator
