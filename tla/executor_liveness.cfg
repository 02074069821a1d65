SPECIFICATION FairSpec
CONSTANTS
    CheckSidecar = TRUE
    DrainOn = TRUE
    AWSRole = FALSE
    AWSRoleTTL = FALSE
    Relay = "startup"
    RetryCount = 0
    ExitCodes <- OkOrKilled
    Signals = {"TERM", "USR1"}
    Faults = {"docker"}
    MaxKills = 1
    MaxShutdowns = 0
PROPERTIES
    KillEndsExecutor
    SignalEndsExecutor
    ExitEndsExecutor
