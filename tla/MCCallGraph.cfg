SPECIFICATION FairSpec
CONSTANTS
    NumModules = 2
    Stem <- MCStem
    Fns <- MCFns
    Programs <- MCPrograms
INVARIANTS
    TypeOK
    AtFixpoint
    CalleesReceiveArguments
PROPERTIES
    ImplementsFixpoint
    Terminates
