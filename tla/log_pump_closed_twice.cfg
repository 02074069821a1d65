SPECIFICATION Spec
CONSTANTS
    CheckSidecar = TRUE
    DrainOn = TRUE
    AWSRole = FALSE
    AWSRoleTTL = FALSE
    Relay = "startup"
    RetryCount = 0
    ExitCodes <- OkOrKilled
    Signals = {"TERM"}
    Faults = {}
    MaxKills = 0
    MaxShutdowns = 0
INVARIANT
    LogPumpClosedOnce
