SPECIFICATION Spec
CONSTANTS
    Size <- Growing
    Room = 4
    Keep = 3
    Tries = 3
    LastDate = 5
    MaxCuts = 1
    MaxBack = 1
    MaxLoads = 1
INVARIANTS
    TypeOK
    SavedSurvives
    RoomIsMade
    StatusTruthful
PROPERTY
    BootRestores
CHECK_DEADLOCK FALSE
