SPECIFICATION QuietSpec
CONSTANTS
    FanInterval = 1
    TelnetHold = 0
    ClearHold = 1
    CountCap = 10
    Buttons = {"front", "usb"}
    McuBoard = TRUE
    Configs <- TwoConfigs
    MaxPresses = 3
    Signals = {"TERM", "IO"}
    ClockSteps = TRUE
    Arrays = {}
    Bays = {}
    Logs = {}
    CheckInterval = 1
INVARIANT
    Safe
PROPERTIES
    TermServed
    McuButtonServed
