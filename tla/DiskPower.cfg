SPECIFICATION DFairSpec
CONSTANTS
    Slots = {"left", "usb"}
    Opaque = {"usb"}
    SpinTime = 1
    MaxIO = 2
    Swaps = {"left", "usb"}
PROPERTIES
    
    IdleSpinsDown
    ModesFollowed
