CONSTANTS
    side1 = side1
    side2 = side2
    Keys <- MCKeys
    HotkeyKey = "f12"
    HotkeyModifiers = {}
    Buttons <- MCButtons
    Bit <- MCBit
    MaxInFlight = 1
    MaxEvents = 1
    Window = 2
    MaxTime = 2
SYMMETRY SameBit
SPECIFICATION Spec
INVARIANTS
    HeldTypeOK
    DesktopAgrees
    MaskFollowsButtons
    WindowBound
PROPERTIES
    PauseFreezes
    
    RejectsOnlyWhenFull
