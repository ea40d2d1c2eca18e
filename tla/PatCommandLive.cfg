SPECIFICATION FairSpec
CONSTANTS
    Values <- MCValues
    NoStatus = NoStatus
    Commands <- MCCommands
    Target <- MCTarget
    Verified <- MCVerified
    Cooldown = 1
    RetryDelay = 1
    VerifyAttempts = 1
    MaxPushes = 1
    MaxUpsets = 1
PROPERTIES CallsEnd EventuallyTrue
