SPECIFICATION Spec
CONSTANTS
    w1 = w1
    c1 = c1
    c2 = c2
    s1 = s1
    s2 = s2
    Wallets = {w1}
    Contacts = {c1}
    Threads = {s1}
    TokenTTL = 1
    MaxRows = 1
    MaxTimeouts = 0
    MaxFailures = 0
INVARIANT NoneMeansError
