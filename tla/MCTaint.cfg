SPECIFICATION MCSpec
CONSTANTS
    NumModules = 2
    Stem <- MCStem
    Fns <- MCFns
    Opaque <- MCOpaque
    Desc = {"net", "disk", "syscall"}
    Sys <- MCSys
    Allocs <- MCAllocs
INVARIANTS
    TypeOK
    NoSpuriousTaint
    MarksAllForward
    Closed
    AnnotatingAgainIsIdle
PROPERTIES
    Terminates
