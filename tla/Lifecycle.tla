------------------------------ MODULE Lifecycle ------------------------------
(***************************************************************************)
(* The two state machines of authority, as data: the Membership machine of *)
(* internal/membership/state.go and the Tenant machine of                  *)
(* internal/tenant/state.go.  Each action has the statuses it is permitted *)
(* from and the one status it leads to; every other pair is refused by     *)
(* Resolve.  "none" is a Membership row that does not exist yet.           *)
(***************************************************************************)
EXTENDS Naturals

MembershipStates == {"active", "suspended", "revoked"}

MembershipActions == {"suspend", "revoke", "restore"}

MembershipFrom(a) == CASE a = "grant"   -> {"none"}
                       [] a = "suspend" -> {"active"}
                       [] a = "revoke"  -> {"active", "suspended"}
                       [] a = "restore" -> {"suspended"}

MembershipTo(a) == CASE a = "grant"   -> "active"
                     [] a = "suspend" -> "suspended"
                     [] a = "revoke"  -> "revoked"
                     [] a = "restore" -> "active"

(* ProviderSuspend and ProviderRevoke: a provider withdraws, and never gives back. *)
ProviderMembershipActions == {"suspend", "revoke"}

TenantStates == {"requested", "provisioning", "active", "failed", "suspended",
                 "offboarding", "retired"}

ProvisioningActions == {"provision", "fail", "activate"}

OffboardingActions == {"begin-offboarding", "retire", "cancel-offboarding-to-active",
                       "cancel-offboarding-to-suspended"}

TenantActions == ProvisioningActions \cup {"suspend", "restore"} \cup OffboardingActions

TenantFrom(a) == CASE a = "provision"                       -> {"requested", "failed"}
                   [] a = "fail"                            -> {"provisioning"}
                   [] a = "activate"                        -> {"provisioning"}
                   [] a = "suspend"                         -> {"active"}
                   [] a = "restore"                         -> {"suspended"}
                   [] a = "begin-offboarding"               -> {"active", "suspended"}
                   [] a = "retire"                          -> {"offboarding"}
                   [] a = "cancel-offboarding-to-active"    -> {"offboarding"}
                   [] a = "cancel-offboarding-to-suspended" -> {"offboarding"}

TenantTo(a) == CASE a = "provision"                       -> "provisioning"
                 [] a = "fail"                            -> "failed"
                 [] a = "activate"                        -> "active"
                 [] a = "suspend"                         -> "suspended"
                 [] a = "restore"                         -> "active"
                 [] a = "begin-offboarding"               -> "offboarding"
                 [] a = "retire"                          -> "retired"
                 [] a = "cancel-offboarding-to-active"    -> "active"
                 [] a = "cancel-offboarding-to-suspended" -> "suspended"

(* The rule's securityVersion column: every transition that invalidates a cached context. *)
IncrementsSecurity(a) == a \notin ProvisioningActions

(* silentActions: no event.  Every other action publishes one. *)
Silent(a) == a \in {"provision", "fail"}

(* The Tenant row after a transition: the UPDATE of applyStatement(a). *)
AfterTenant(t, a) ==
    [status  |-> TenantTo(a),
     version |-> t.version + 1,
     sec     |-> IF IncrementsSecurity(a) THEN t.sec + 1 ELSE t.sec]
==============================================================================
