SPECIFICATION Spec
CONSTANTS
    Values <- MCValues
    NoStatus = NoStatus
    Commands <- MCCommands
    Target <- MCTarget
    Verified <- MCVerified
    Cooldown = 2
    RetryDelay = 1
    VerifyAttempts = 2
    MaxPushes = 1
    MaxUpsets = 1
INVARIANTS TypeOK VerdictIsFinal RefreshHasOneOwner
PROPERTIES QuietOnlyIfSettled KeepsContract
