SPECIFICATION Spec
CONSTANTS
    t1 = t1
    t2 = t2
    e1 = e1
    Tasks = {t1}
    Executors = {e1}
    MaxRetries = 2
    MaxNonce = 3
INVARIANT
    SkippedMeansNotNeeded
CHECK_DEADLOCK FALSE
