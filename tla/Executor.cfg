SPECIFICATION FairSpec
CONSTANTS
    t1 = t1
    t2 = t2
    e1 = e1
    Tasks = {t1, t2}
    Executors = {e1}
    MaxRetries = 1
    MaxNonce = 4
INVARIANTS
    TypeOK
    NoNonceCollision
    AuditTrail
    SwapRepeatedOnlyUnanswered
    OnePlaceEach
PROPERTIES
    TaskSpec
    TaskEnds
CHECK_DEADLOCK FALSE
