SPECIFICATION FairSpec
CONSTANTS
    v1 = v1
    f1 = f1
    p1 = p1
    p2 = p2
    m1 = m1
    m2 = m2
    w1 = w1
    w2 = w2
    c1 = c1
    i1 = i1
    Vaults = {v1}
    Feeds = {f1}
    Workers = {p1}
    RuleSet <- BuyOnly
    RoundSet <- LowOrHigh
    Dedupe = 2
    MaxFaults = 1
    Alerts = {m1, m2}
    Wallets = {w1, w2}
    Chats = {c1}
    Ids = {i1}
INVARIANTS
    OnlyOwnersAlerted
    OneAlertAtATime
PROPERTIES
    StandingReachesOwner
