CONSTANTS
    NMemberships = 1
    MaxVersion = 3
    MaxSecurity = 1
    MaxBootstraps = 1
    MaxRepairs = 1
    MaxIncidents = 1
    PageSize = 1
SPECIFICATION ProjectionFairSpec
CHECK_DEADLOCK FALSE
PROPERTIES
    Converges
