SPECIFICATION FairSpec
CONSTANTS
    Sends <- MCSends
    Values <- MCValues
    Wanted <- MCWanted
    NoSend = 0
    MaxUpsets = 0
    MaxCalls = 3
    Restored = 20
INVARIANTS TypeOK ShowsLastAcknowledged
PROPERTIES OnlyLatestIsStarted LatestCallEnds
CHECK_DEADLOCK FALSE
