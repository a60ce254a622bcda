SPECIFICATION FairSpecPasses
CONSTANTS
    o1 = o1
    o2 = o2
    p1 = p1
    p2 = p2
    VaultIds = {1, 2}
    EventIds = {1}
    Owners = {o1, o2}
    Workers = {p1}
    Commands = {p2}
    Batch = 1
    Observed = p1
    Depth = 1
    MaxTroubles = 1
PROPERTIES
    CleanPassIsComplete
    PassSettlesOwners
    EveryEntityIndexed
    OwnerConverges
