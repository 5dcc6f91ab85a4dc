SPECIFICATION FairSpec
CONSTANTS
    Retries = 1
    Fields = 2
    Alarms <- SomeAlarms
    ClientLeds = {0, 1, 2}
    Triggers = {"timer"}
    MaxMishaps = 2
    MaxJobs = 2
    MaxWrites = 1
INVARIANTS
    AlarmTold
    RetriesMask
PROPERTIES
    Promise
    LampAgrees
CHECK_DEADLOCK FALSE
