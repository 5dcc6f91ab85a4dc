SPECIFICATION FairSpec
CONSTANTS
    Mode = "auto"
    fan_off_temp = 38
    lo_temp = 45
    hist_temp = 2
    warn_temp = 52
    crit_temp = 54
    Heats = {42, 55}
    Mishaps <- All
    MaxMishaps = 2
INVARIANT
    FanFileTruthful
PROPERTIES
    PwmObeyed
    HotRuns
    OverheatActs
