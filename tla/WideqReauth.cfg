SPECIFICATION FairSpec
CONSTANTS
    Sends <- MCSends
    Values <- MCValues
    Wanted <- MCWanted
    NoSend = NoSend
    NoMode = NoMode
    MaxInvalidCredential = 3
    MaxUpsets = 1
INVARIANTS TypeOK ShowsAcknowledgedMode
PROPERTIES RevocationSticks KeepsContract
CHECK_DEADLOCK FALSE
