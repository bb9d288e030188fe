CONSTANTS
    Codes <- MCCodes
    Modifiers <- MCModifiers
    Buttons <- MCButtons
    Vk <- MCVk
    MaxLost = 0
    Stops = TRUE
SPECIFICATION Spec
INVARIANTS
    NothingHeldAtExit
CHECK_DEADLOCK FALSE
