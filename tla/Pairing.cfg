CONSTANTS
    MaxKeys = 4
SPECIFICATION Spec
INVARIANTS
    PairTypeOK
    StoredTogether
    RunsWithConfirmedKey
    KeysAgree
