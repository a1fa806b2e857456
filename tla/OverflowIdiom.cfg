SPECIFICATION IdiomSpec
CONSTANT Half = 8
INVARIANTS
    TypeOK
    AddSubExact
    MulExact
    ChecksKeepTheirMeaning
