SPECIFICATION Spec
CONSTANTS
    Tasks <- AllTasks
    Settings <- AllSettings
    NumCPU = 4
    PullImageNumRetries = 5
    VaultPaths = {"path"}
CHECK_DEADLOCK FALSE
INVARIANTS
    CreatesFromImage
    SecretsResolved
    PortsAgree
    LimitsAreLimits
    
