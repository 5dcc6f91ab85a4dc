SPECIFICATION FairSpec
CONSTANTS
    r1 = r1
    r2 = r2
    r3 = r3
    Runs = {r1, r2, r3}
    None = None
    nlogs = 2
    Mirror = 0
    MaxFails = 1
    MaxKills = 1
    MaxPages = 1
INVARIANTS
    OneBackup
    StoreKept
PROPERTIES
    GoodKept
    EveryRunEnds
CHECK_DEADLOCK FALSE
