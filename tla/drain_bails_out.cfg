SPECIFICATION Spec
CONSTANTS
    CheckSidecar = TRUE
    DrainOn = TRUE
    AWSRole = FALSE
    AWSRoleTTL = FALSE
    Relay = "off"
    RetryCount = 0
    ExitCodes <- OkOrKilled
    Signals = {}
    Faults = {}
    MaxKills = 1
    MaxShutdowns = 0
INVARIANT
    DrainBailsOutOnlyAfterWatcher
