CONSTANTS
    NumChannels = 1
    Readers = {"keyboard", "pointer"}
    SeqMod = 4
    MaxReports = 2
    MaxSealed = 2
    MaxFailures = 0
    MaxOpen = 1
    MacStops = TRUE
    Pauses = TRUE
SPECIFICATION Spec
INVARIANTS
    SeqnoIncreasesOnTheWire
