CONSTANTS
    t1 = t1
    t2 = t2
    Tenants <- MCTenants
    MaxAttempts = 3
SPECIFICATION ProvisioningSpec
SYMMETRY TenantSymmetry
CHECK_DEADLOCK FALSE
INVARIANTS StatusAgreesWithLatest NeverProvisionedTwice RetiredSponsorsNoneActive
