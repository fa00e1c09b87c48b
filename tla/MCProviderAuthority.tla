------------------------- MODULE MCProviderAuthority -------------------------
(* Two providers, or a provider and a holder, with two requests in flight. *)
EXTENDS ProviderAuthority, TLC

CONSTANTS p1, p2, g1, g2, g3, a1, a2, r1, r2

MCPrincipals == {p1, p2}
MCGrants == {g1, g2, g3}
MCActivations == {a1, a2}
MCRequests == {r1, r2}
MCPolicies == BOOLEAN
ProviderSymmetry ==
    Permutations(MCPrincipals) \cup Permutations(MCGrants)
        \cup Permutations(MCActivations) \cup Permutations(MCRequests)
==============================================================================
