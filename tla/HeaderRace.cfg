CONSTANTS
    NumChannels = 1
    Readers = {"keyboard"}
    SeqMod = 4
    MaxReports = 1
    MaxSealed = 1
    MaxFailures = 0
    MaxOpen = 1
    MacStops = TRUE
    Pauses = TRUE
SPECIFICATION Spec
INVARIANTS
    HeaderFirst
