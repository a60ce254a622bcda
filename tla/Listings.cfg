SPECIFICATION Spec
CONSTANTS
    Rows <- RowIds
    Row <- RowOf
    Asked <- AllKinds
    Owners = {"o1", "o2"}
    Limit = 1
    Batch = 1
INVARIANTS
    TypeOK
    WalkIsComplete
    RepeatsNeedInserts
    DetailIsConsistent
PROPERTY
    AnswerFitsTotal
