------------------------- MODULE MCMembershipBatch -------------------------
(* Two requests with one key, and one with a key of its own. *)
EXTENDS MembershipBatch

CONSTANTS first, again, other

MCRequests == {first, again, other}
MCKeyed == {first, again}
==============================================================================
