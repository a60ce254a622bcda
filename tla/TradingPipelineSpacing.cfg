SPECIFICATION Spec
CONSTANTS
    v1 = v1
    f1 = f1
    w1 = w1
    w2 = w2
    t1 = t1
    t2 = t2
    e1 = e1
    Vaults = {v1}
    Feeds = {f1}
    Workers = {w1}
    RuleSet <- BuyOnly
    RoundSet <- LowOnly
    LockTTL = 1
    Cooldown = 2
    MaxFaults = 0
    Tasks = {t1, t2}
    Executors = {e1}
    MaxRetries = 1
    MaxNonce = 4
PROPERTY SameActionSpacing
CHECK_DEADLOCK FALSE
