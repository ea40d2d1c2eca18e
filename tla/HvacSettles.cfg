SPECIFICATION FairSpec
CONSTANTS
    Jobs <- MCJobs
    Off = "off"
    MaxCalls = 2
    Mode <- MCMode
    Window = 6
    Settle = 2
    RetryDelay = 3
    MaxTrip = 1
    MaxBusy = 1
PROPERTIES SettlesOnTruth
