SPECIFICATION Spec
CONSTANTS
    Executors = {e1, e2}
    RoleExecutors = {e2}
    TTL = 3
    RoleTTLs = {0, 1, 3}
    RoleMaxTTL = 2
    DefaultRoleTTL = 1
    TokenGracePeriod = 1
    StartupGracePeriod = 2
    Padding = 2
    LoginTTL = 1
    TokenMaxTTL = 5
    LeaseTTL = 3
    LeaseMaxTTL = 3
    StartupTime = 1
    VaultTime = 1
    StopTime = 1
    MaxTime = 7
CHECK_DEADLOCK FALSE
INVARIANTS
    TypeOK
    SharedTokenNotRevoked
    RenewedCredsOutliveContainer
    ConcludedLeavesNothing
PROPERTIES
    ReusedTokenHasGrace
