SPECIFICATION Spec
CONSTANTS
    v1 = v1
    f1 = f1
    w1 = w1
    w2 = w2
    t1 = t1
    t2 = t2
    e1 = e1
    Vaults = {v1}
    Feeds = {f1}
    Workers = {w1}
    RuleSet <- BuyOrOff
    RoundSet <- LowOrHigh
    LockTTL = 2
    Cooldown = 3
    MaxFaults = 0
    Tasks = {t1, t2}
    Executors = {e1}
    MaxRetries = 0
    MaxNonce = 4
INVARIANT OneJobAtATime
PROPERTY
    SpacedWhenTimely
SYMMETRY TaskSymmetry
CHECK_DEADLOCK FALSE
