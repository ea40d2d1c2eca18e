SPECIFICATION FairSpec
CONSTANTS
    m1 = m1
    m2 = m2
    hourly = hourly
    Monitors <- MCMonitors
    Renewers <- MCRenewers
    V1 = {}
    NoClient <- MCNoClient
    MaxClients = 1
    MaySettle = TRUE
    MaxRetries = 2
    MaxFail = 2
    GatewayAfter = 2
    MaxCredential = 0
PROPERTIES ConnectionReturns PollsEnd
