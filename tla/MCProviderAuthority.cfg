CONSTANTS
    p1 = p1
    p2 = p2
    g1 = g1
    g2 = g2
    g3 = g3
    a1 = a1
    a2 = a2
    r1 = r1
    r2 = r2
    NoOne = NoOne
    Principals <- MCPrincipals
    Grants <- MCGrants
    Activations <- MCActivations
    Requests <- MCRequests
    ApprovalPolicies <- MCPolicies
    Durations = {1}
    PendingLifetime = 1
    MaxClock = 2
SPECIFICATION ProviderSpec
SYMMETRY ProviderSymmetry
CHECK_DEADLOCK FALSE
INVARIANTS
    GoverningGrantRemains
    LatestEventTellsTheGrant
    OneInForceWhenPublished
