SPECIFICATION LFairSpec
CONSTANTS
    Sysctrls = {s1, s2}
    Scripts = {w1}
    Nobody = Nobody
    Tries = 1
    MaxKills = 1
    MaxReuse = 1
    MaxSlow = 1
    MaxForks = 1
INVARIANTS
    Mutex
    NoLockout
    OneSysctrl
PROPERTY
    WaitEnds
CHECK_DEADLOCK FALSE
