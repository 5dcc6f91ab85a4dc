SPECIFICATION Spec
CONSTANTS
    j1 = j1  j2 = j2  j3 = j3  j4 = j4
    d1 = d1  d2 = d2  iso = iso
    Jobs = {j1, j3, j4}
    Devs = {d1, d2, iso}
    MDEV <- SomeEvents
    Plain = {iso}
    Boot = {1}
    Limit = 5
    MaxKills = 0
INVARIANT NoParallelFsck
CHECK_DEADLOCK FALSE
