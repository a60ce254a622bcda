SPECIFICATION FairSpec
CONSTANTS
    v1 = v1
    f1 = f1
    w1 = w1
    w2 = w2
    Vaults = {v1}
    Feeds = {f1}
    Workers = {w1, w2}
    RuleSet <- BuyOrOff
    RoundSet <- LowOrStale
    LockTTL = 2
    Cooldown = 3
    MaxJobs = 1
    MaxFaults = 1
INVARIANTS
    TypeOK
    OverlapNeedsOverrun
    ClaimIsHeld
PROPERTIES
    GateSpec
    StandingTriggerActedOn
