CONSTANTS
    p1 = p1
    p2 = p2
    i1 = i1
    m1 = m1
    m2 = m2
    w = w
    x = x
    r1 = r1
    r2 = r2
    k1 = k1
    k2 = k2
    TenantWide = TenantWide
    NoOne = NoOne
    Principals <- MCPrincipals
    Invitations <- MCInvitations
    Memberships <- MCMemberships
    Workspaces <- MCWorkspaces
    Targets <- MCTargets
    Requests <- MCRequests
    Keys <- MCKeys
    TenantMoves = {"suspend", "restore"}
    TTL = 1
    MaxClock = 1
SPECIFICATION AdmissionSpec
SYMMETRY AdmissionSymmetry
CHECK_DEADLOCK FALSE
INVARIANTS RetryIsReplayed
