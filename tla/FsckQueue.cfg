SPECIFICATION FairSpec
CONSTANTS
    j1 = j1  j2 = j2  j3 = j3  j4 = j4
    d1 = d1  d2 = d2  iso = iso
    Jobs = {j1, j2, j3}
    Devs = {d1, d2}
    MDEV <- SomeEvents
    Plain = {}
    Boot = {1}
    Limit = 2
    MaxKills = 1
INVARIANTS
    OneFsck
    ForcedAll
    LedTellsFsck
PROPERTY
    JobsEnd
CHECK_DEADLOCK FALSE
