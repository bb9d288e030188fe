CONSTANTS
    NumChannels = 1
    Readers = {"keyboard"}
    SeqMod = 4
    MaxReports = 1
    MaxSealed = 1
    MaxFailures = 0
    MaxOpen = 1
    MaxKeyEvents = 1
    MaxIdx = 1
    MacStops = TRUE
    Pauses = FALSE
    WinStops = TRUE
SPECIFICATION BridgeFairSpec
PROPERTIES
    HandshakeEnds
    HeaderIsSent
