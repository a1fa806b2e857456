SPECIFICATION FairSpec
CONSTANTS
    NumModules = 2
    Stem <- MCStem
    Widths = {2, 3}
    Fns <- MCFns
    Opaque <- MCOpaque
    SourceIds <- MCSourceIds
    MaxIterations = 2
    Steps = 24
    Programs <- AllPrograms
INVARIANTS
    TypeOK
    RangesAreSound
    MetadataIsSound
    SweepsBounded
PROPERTIES
    Terminates
