SPECIFICATION Spec
CONSTANTS
    Values <- MCValues
    NoStatus = NoStatus
    Commands <- MCSwitch
    Target <- MCTarget
    Verified <- MCVerified
    Cooldown = 10
    RetryDelay = 3
    VerifyAttempts = 3
    MaxPushes = 0
    MaxUpsets = 0
PROPERTIES FailureOnlyIfNotReached
