CONSTANTS
    Codes <- MCCodes
    Modifiers <- MCModifiers
    Buttons <- MCButtons
    Vk <- MCVk
    MaxLost = 1
    Stops = TRUE
SPECIFICATION Spec
INVARIANTS
    InjTypeOK
    DesktopFollowsReports
    ReleasedOnDisconnect
    CleanStop
CHECK_DEADLOCK FALSE
