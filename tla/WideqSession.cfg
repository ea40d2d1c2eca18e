SPECIFICATION Spec
CONSTANTS
    m1 = m1
    m2 = m2
    hourly = hourly
    Monitors <- MCMonitors
    Renewers <- MCRenewers
    V1 <- MCV1
    NoClient <- MCNoClient
    MaxClients = 2
    MaySettle = FALSE
    MaxRetries = 2
    MaxFail = 2
    GatewayAfter = 2
    MaxCredential = 1
INVARIANTS TypeOK NoTokenForgotten ClosedClientIsSilent CriticalAfterFailures
