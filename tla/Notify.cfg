SPECIFICATION FairSpec
CONSTANTS
    m1 = m1
    m2 = m2
    w1 = w1
    w2 = w2
    c1 = c1
    i1 = i1
    i2 = i2
    p1 = p1
    p2 = p2
    Alerts = {m1, m2}
    Wallets = {w1, w2}
    Chats = {c1}
    Ids = {i1, i2}
    Workers = {p1, p2}
    MaxFaults = 1
INVARIANTS
    TypeOK
    AtMostOnce
    OnlyConnectedChats
    HistoryIsTrue
PROPERTIES
    NoneForgotten
    EveryChannelTried
CHECK_DEADLOCK FALSE
