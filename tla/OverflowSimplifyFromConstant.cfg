SPECIFICATION Spec
CONSTANT Half = 8
INVARIANTS
    FromConstantIsExact
