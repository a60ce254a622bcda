SPECIFICATION FairSpec
CONSTANTS
    v1 = v1
    f1 = f1
    w1 = w1
    w2 = w2
    Vaults = {v1}
    Feeds = {f1}
    Workers = {w1, w2}
    RuleSet <- BothOrOff
    RoundSet <- LowHighOrStale
    Dedupe = 2
    MaxAlerts = 1
    MaxFaults = 1
INVARIANT
    TypeOK
PROPERTIES
    AlertGate
    StandingAlerted
