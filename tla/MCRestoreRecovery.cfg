CONSTANTS
    NMemberships = 1
    MaxVersion = 9
    MaxSecurity = 9
    Margin = 20
    MaxBefore = 3
    MaxAfter = 1
SPECIFICATION RecoveryFairSpec
CHECK_DEADLOCK FALSE
PROPERTIES
    AdvanceNeverWidens
    TenantWithdrawalArrives
    WithdrawalArrivesUnlessTied
