CONSTANTS
    NumChannels = 2
    Readers = {"keyboard", "pointer"}
    SeqMod = 2
    MaxReports = 2
    MaxSealed = 3
    MaxFailures = 1
    MaxOpen = 1
    MacStops = TRUE
    Pauses = TRUE
SPECIFICATION Spec
INVARIANTS
    MacTypeOK
    SeqnoMatchesStream
    AtMostOnce
    DeviceOrder
    Coherent
    PauseIsBounded
    NothingLostOnALiveChannel
