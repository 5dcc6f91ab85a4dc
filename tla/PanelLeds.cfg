SPECIFICATION PFairSpec
CONSTANTS
    FanInterval = 1
    TelnetHold = 0
    ClearHold = 1
    CountCap = 10
    Buttons = {"front"}
    McuBoard = FALSE
    Configs <- NoCommands
    MaxPresses = 2
    Signals = {}
    ClockSteps = FALSE
    Arrays = {"md0"}
    Bays = {"left"}
    Logs = {"absent", "empty", "full"}
    CheckInterval = 2
INVARIANT
    LedTellsState
PROPERTIES
    DownOnRelease
    LedsFollowCauses
