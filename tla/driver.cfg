SPECIFICATION FairSpec
CONSTANTS
    Checkpoint = TRUE
    MaxStreams = 2
    UpdatesFail = TRUE
    MaxAlarms = 1
INVARIANTS
    TypeOK
    UnacknowledgedKept
    TwoHandlersOnlyAfterError
    MapRaceNeedsMonitor
    AgentHasRunning
    GivesUpOnlyRefused
PROPERTIES
    StopReturns
    RunningIsSaved
    ImplementsDelivery
CHECK_DEADLOCK FALSE
