SPECIFICATION Spec
CONSTANTS
    Executors = {e1, e2}
    RoleExecutors = {e2}
    TTL = 3
    RoleTTLs = {0}
    RoleMaxTTL = 2
    DefaultRoleTTL = 1
    TokenGracePeriod = 1
    StartupGracePeriod = 2
    Padding = 2
    LoginTTL = 1
    TokenMaxTTL = 5
    LeaseTTL = 7
    LeaseMaxTTL = 7
    StartupTime = 1
    VaultTime = 1
    StopTime = 1
    MaxTime = 9
CHECK_DEADLOCK FALSE
INVARIANTS
    CredsOutliveContainer
