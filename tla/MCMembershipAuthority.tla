------------------------ MODULE MCMembershipAuthority ------------------------
(* Two callers and two Memberships of one Tenant. *)
EXTENDS MembershipAuthority, TLC

CONSTANTS ann, bob

MCCallers == {ann, bob}

CallerSymmetry == Permutations(MCCallers)
==============================================================================
