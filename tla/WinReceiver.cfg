CONSTANTS
    NumChannels = 2
    MaxKeyEvents = 2
    MaxIdx = 3
    WinStops = TRUE
SPECIFICATION WinFairSpec
INVARIANTS
    WinTypeOK
    StreamInStep
PROPERTIES
    OpensOwnSession
    GapEndsSession
    RetriesAfterLoss
    StopEnds
