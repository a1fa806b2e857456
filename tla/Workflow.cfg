SPECIFICATION FairSpec
CONSTANTS
    NumFiles = 3
    MaxCrashes = 2
INVARIANTS
    TypeOK
    OneFilePerCrash
    ExitIsComplete
PROPERTIES
    Exits
