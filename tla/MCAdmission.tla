----------------------------- MODULE MCAdmission -----------------------------
(* Two people, one invitation and a Workspace; two requests, two keys each. *)
EXTENDS Admission, TLC

CONSTANTS p1, p2, i1, m1, m2, w, x, r1, r2, k1, k2

MCPrincipals == {p1, p2}
MCInvitations == {i1}
MCMemberships == {m1, m2}
MCWorkspaces == {w}
MCTargets == {x}
MCRequests == {r1, r2}
MCKeys == {k1, k2}
AdmissionSymmetry ==
    Permutations(MCPrincipals) \cup Permutations(MCInvitations) \cup Permutations(MCMemberships)
        \cup Permutations(MCRequests) \cup Permutations(MCKeys)
==============================================================================
