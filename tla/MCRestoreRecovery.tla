-------------------------- MODULE MCRestoreRecovery --------------------------
(* The recovery of one Membership and its Tenant. *)
EXTENDS RestoreRecovery
==============================================================================
