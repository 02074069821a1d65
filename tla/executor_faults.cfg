SPECIFICATION Spec
CONSTANTS
    CheckSidecar = TRUE
    DrainOn = TRUE
    AWSRole = TRUE
    AWSRoleTTL = TRUE
    Relay = "on"
    RetryCount = 1
    ExitCodes <- OkOrKilled
    Signals = {"TERM"}
    Faults = {"docker", "vault", "agent"}
    MaxKills = 1
    MaxShutdowns = 0
INVARIANTS
    TypeOK
    TerminalStatusTruthful
    KillPanicsOnlyAfterFailedLaunch
    DriverStoppedOnce
    LogPumpClosedOnce
PROPERTIES
    ImplementsLifecycle
    TermReportsFirst
