CONSTANTS
    NMemberships = 2
    MaxVersion = 3
    MaxSecurity = 3
    MaxBootstraps = 1
    MaxRepairs = 1
    MaxIncidents = 3
    PageSize = 1
SPECIFICATION ProjectionSpec
CONSTRAINT MCScope
CHECK_DEADLOCK FALSE
INVARIANTS
    AgreesAtSameVersion
    NothingLost
    TenantNeverSilentlyStale
    ClosedIsReflected
    EnforcedIsReflected
PROPERTIES
    WithdrawalHolds
