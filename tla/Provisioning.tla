---------------------------- MODULE Provisioning ----------------------------
(***************************************************************************)
(* From an Organization's request for a Tenant to its activation:          *)
(* internal/tenant/intake.go and coordinator.go, Activate of service.go,   *)
(* and the sponsoring Organization of internal/organization.               *)
(*                                                                         *)
(* The provisioning system answers each request early, late, twice, or     *)
(* never.  A Tenant's row and its requests are locked before they are      *)
(* judged; the sponsor's row is only read, by Request and by Activate,     *)
(* which is why each of those is two steps.                                *)
(***************************************************************************)
EXTENDS Lifecycle, Sequences, SequencesExt

CONSTANTS
    Tenants,       \* the Tenants the Organization may ask for
    MaxAttempts    \* bound on the provisioning requests of one Tenant

ASSUME ProvisioningAssumption == MaxAttempts \in Nat

VARIABLES
    parent,       \* organization.organization.status of the sponsor's parent, if it has one
    sponsor,      \* organization.organization.status
    status,       \* tenant.tenant.status of each Tenant
    attempts,     \* tenant.provisioning_request: the states of its requests, oldest first
    asking,       \* requests for a Tenant that have read the sponsor and not yet inserted
    activating    \* activations that have passed their checks and not yet committed

provisioningVars == <<parent, sponsor, status, attempts, asking, activating>>

Outstanding == {"requested", "unresolved"}

ProvisioningInit ==
    /\ parent \in {"none", "active", "retired"}
    /\ sponsor = "none"
    /\ status = [t \in Tenants |-> "none"]
    /\ attempts = [t \in Tenants |-> << >>]
    /\ asking = {} /\ activating = {}

Latest(t) == Last(attempts[t])

(* An activation holds the Tenant's row lock. *)
Unlocked(t) == t \notin activating

-----------------------------------------------------------------------------

(* Register: an Organization is active from the start.  A parent must not be retired;   *)
(* its row is only read, and it may retire once it has a child.                          *)
Register ==
    /\ sponsor = "none"
    /\ parent # "retired"
    /\ sponsor' = "active"
    /\ UNCHANGED <<parent, status, attempts, asking, activating>>

(* Retire, of the parent: it counts Tenants and no child Organizations. *)
RetireParent ==
    /\ parent = "active"
    /\ parent' = "retired"
    /\ UNCHANGED <<sponsor, status, attempts, asking, activating>>

(* Mutant: only active Tenants keep the Organization from retiring. *)
OrganizationTransitionCountingActive(from, to) ==
    /\ sponsor \in from
    /\ to = "retired" => \A t \in Tenants : status[t] # "active"
    /\ sponsor' = to
    /\ UNCHANGED <<parent, status, attempts, asking, activating>>

(* The Organization's transitions; retirement counts the Tenants not retired. *)
OrganizationTransition(from, to) ==
    /\ sponsor \in from
    /\ to = "retired" => \A t \in Tenants : status[t] \in {"none", "retired"}
    /\ sponsor' = to
    /\ UNCHANGED <<parent, status, attempts, asking, activating>>

(* Request: the sponsor is read, without a lock. *)
CheckSponsor(t) ==
    /\ status[t] = "none" /\ t \notin asking
    /\ sponsor \notin {"none", "retired"}
    /\ asking' = asking \cup {t}
    /\ UNCHANGED <<parent, sponsor, status, attempts, activating>>

(* Request: the Tenant and its first provisioning request, together. *)
InsertTenant(t) ==
    /\ t \in asking
    /\ asking' = asking \ {t}
    /\ status' = [status EXCEPT ![t] = "requested"]
    /\ attempts' = [attempts EXCEPT ![t] = << "requested" >>]
    /\ UNCHANGED <<parent, sponsor, activating>>

(* Provision: the dispatch of the outstanding request, or a retry with a new one. *)
Provision(t) ==
    /\ Unlocked(t)
    /\ status[t] \in TenantFrom("provision")
    /\ status' = [status EXCEPT ![t] = TenantTo("provision")]
    /\ \/ /\ status[t] = "failed" /\ Len(attempts[t]) < MaxAttempts
          /\ attempts' = [attempts EXCEPT ![t] = Append(@, "requested")]
       \/ /\ status[t] # "failed"
          /\ \E k \in DOMAIN attempts[t] : attempts[t][k] \in Outstanding
          /\ UNCHANGED attempts
    /\ UNCHANGED <<parent, sponsor, asking, activating>>

(* advance: where the outcome takes the Tenant. *)
AfterOutcome(s, to) ==
    CASE to = "realized" /\ s = "requested"                    -> TenantTo("provision")
      [] to = "failed"   /\ s \in {"requested", "provisioning"} -> TenantTo("fail")
      [] OTHER                                                 -> s

(* Mutant: the last report wins. *)
RecordOverwriting(t, k, to) ==
    /\ Unlocked(t)
    /\ attempts' = [attempts EXCEPT ![t][k] = to]
    /\ status' = [status EXCEPT ![t] = AfterOutcome(@, to)]
    /\ UNCHANGED <<parent, sponsor, asking, activating>>

(* Realize and Fail: correlate finds the request the report is about; one with an       *)
(* outcome keeps it, the same report again changing nothing and another one refused.    *)
Record(t, k, to) ==
    /\ Unlocked(t)
    /\ attempts[t][k] \in Outstanding
    /\ attempts' = [attempts EXCEPT ![t][k] = to]
    /\ status' = [status EXCEPT ![t] = AfterOutcome(@, to)]
    /\ UNCHANGED <<parent, sponsor, asking, activating>>

(* Mutant: a timeout is taken for a failure. *)
SweepUnresolvedFailing(t, k) ==
    /\ attempts[t][k] = "requested"
    /\ attempts' = [attempts EXCEPT ![t][k] = "unresolved"]
    /\ status' = [status EXCEPT ![t] = AfterOutcome(@, "failed")]
    /\ UNCHANGED <<parent, sponsor, asking, activating>>

(* SweepUnresolved: no answer in time is no outcome; the Tenant does not move. *)
SweepUnresolved(t, k) ==
    /\ attempts[t][k] = "requested"
    /\ attempts' = [attempts EXCEPT ![t][k] = "unresolved"]
    /\ UNCHANGED <<parent, sponsor, status, asking, activating>>

(* Activate, up to its commit: the latest request realized, the sponsor active. *)
CheckActivation(t) ==
    /\ Unlocked(t)
    /\ status[t] \in TenantFrom("activate")
    /\ Latest(t) = "realized"
    /\ sponsor = "active"
    /\ activating' = activating \cup {t}
    /\ UNCHANGED <<parent, sponsor, status, attempts, asking>>

(* Activate: the update and its event commit. *)
Activate(t) ==
    /\ t \in activating
    /\ activating' = activating \ {t}
    /\ status' = [status EXCEPT ![t] = TenantTo("activate")]
    /\ UNCHANGED <<parent, sponsor, attempts, asking>>

(* A request or an activation rolls back. *)
Abandon(t) ==
    /\ t \in asking \cup activating
    /\ asking' = asking \ {t} /\ activating' = activating \ {t}
    /\ UNCHANGED <<parent, sponsor, status, attempts>>

(* The Tenant's offboarding, in one step here: module Offboarding has its stages. *)
RetireTenant(t) ==
    /\ status[t] = "active"
    /\ status' = [status EXCEPT ![t] = TenantTo("retire")]
    /\ UNCHANGED <<parent, sponsor, attempts, asking, activating>>

ProvisioningNext ==
    \/ Register \/ RetireParent
    \/ OrganizationTransition({"active"}, "suspended")
    \/ OrganizationTransition({"suspended"}, "active")
    \/ OrganizationTransition({"active", "suspended"}, "retired")
    \/ \E t \in Tenants :
          \/ CheckSponsor(t) \/ InsertTenant(t) \/ Provision(t) \/ CheckActivation(t)
          \/ Activate(t) \/ Abandon(t) \/ RetireTenant(t)
    \/ \E t \in Tenants : \E k \in DOMAIN attempts[t] :
          \/ SweepUnresolved(t, k)
          \/ \E to \in {"realized", "failed"} : Record(t, k, to)

ProvisioningSpec == ProvisioningInit /\ [][ProvisioningNext]_provisioningVars

-----------------------------------------------------------------------------

(* A Tenant's status agrees with its latest provisioning request, whatever reports are  *)
(* repeated or arrive late: none becomes or stays active on a request that is not       *)
(* realized, and none is failed while its request is open (record, advance, Activate).  *)
StatusAgreesWithLatest ==
    \A t \in Tenants :
        /\ status[t] = "requested" => Latest(t) \in Outstanding
        /\ status[t] = "provisioning" => Latest(t) # "failed"
        /\ status[t] = "failed" => Latest(t) = "failed"
        /\ status[t] \in {"active", "retired"} => Latest(t) = "realized"

(* A new attempt is made only once the one before it failed: no two requests for one    *)
(* Tenant are ever outstanding or realized together, so it is not provisioned twice     *)
(* (SweepUnresolved, Provision).                                                        *)
NeverProvisionedTwice ==
    \A t \in Tenants : \A k \in DOMAIN attempts[t] :
        k < Len(attempts[t]) => attempts[t][k] = "failed"

(* A retired Organization sponsors no active Tenant, although its row is read without a *)
(* lock by every request for a Tenant and every activation: a Tenant inserted after the  *)
(* retirement by a request that read the sponsor before it is never activated, and no    *)
(* activation in flight is missed by the count that lets the Organization retire.        *)
RetiredSponsorsNoneActive ==
    sponsor = "retired" => \A t \in Tenants : status[t] # "active"
==============================================================================
