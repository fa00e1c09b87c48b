--------------------------- MODULE MCProvisioning ---------------------------
(* One Organization and the Tenants it sponsors. *)
EXTENDS Provisioning, TLC

CONSTANTS t1, t2

MCTenants == {t1, t2}
TenantSymmetry == Permutations(MCTenants)
==============================================================================
