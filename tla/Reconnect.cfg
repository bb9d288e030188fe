CONSTANTS
    NumChannels = 2
    Readers = {"keyboard", "pointer"}
    SeqMod = 4
    MaxReports = 2
    MaxSealed = 3
    MaxFailures = 0
    MaxOpen = 1
    MacStops = FALSE
    Pauses = FALSE
    MaxKeyEvents = 1
    MaxIdx = 2
    WinStops = FALSE
SPECIFICATION BridgeSpec
INVARIANTS
    BridgeTypeOK
    OpensTheCleanPrefix
PROPERTIES
    ImplementsSessionStream
