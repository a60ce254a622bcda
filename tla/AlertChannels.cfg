SPECIFICATION Spec
CONSTANTS
    w1 = w1
    c1 = c1
    c2 = c2
    s1 = s1
    s2 = s2
    Wallets = {w1}
    Contacts = {c1, c2}
    Threads = {s1, s2}
    TokenTTL = 1
    MaxRows = 2
    MaxTimeouts = 1
    MaxFailures = 1
INVARIANTS
    TypeOK
    ToldConnected
    DuplicatesNeedOverlap
PROPERTY
    DeletedStaysDeleted
SYMMETRY Symmetries
