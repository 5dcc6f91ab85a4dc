SPECIFICATION Spec
CONSTANTS
    Word = 2
    Block = 4
    Types = {64, 128}
    Inputs <- Files
    None = None
    Max <- Maxima
    MaxFlips = 1
    MaxCuts = 2
    MaxKills = 1
INVARIANTS
    SplitInverts
    DamageCaught
    NoHalfImage
CHECK_DEADLOCK FALSE
