SPECIFICATION FairSpec
CONSTANTS
    CheckSidecar = TRUE
    DrainOn = TRUE
    AWSRole = TRUE
    AWSRoleTTL = FALSE
    Relay = "off"
    RetryCount = 0
    ExitCodes <- OkKilledOrFailed
    Signals = {}
    Faults = {"agent", "stream", "crash"}
    MaxKills = 1
    MaxShutdowns = 1
INVARIANTS
    ConcludesOnlyWhenStopped
    CodeKnownWhenReported

    
