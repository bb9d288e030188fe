CONSTANTS
    Byte = 4
    STREAM_HEADER_LEN = 2
    Overhead = 1
    ChunkLen = 12
    Reports <- MCReports
    Motions <- MCMotions
    MaxFrames = 2
    MAX_BACKOFF = 6
    Listing <- MCListing
    Direction <- MCDirection
    MacPort = "COM5"
    Silent = {"COM3"}
    Pinned = "none"
    MaxTries = 4
SPECIFICATION Spec
INVARIANTS
    LoopTypeOK
    Deframed
    ContentArrives
    BackoffPaces
PROPERTIES
    ReachesTheMac
    CatchesUp
