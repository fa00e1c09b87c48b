-------------------------- MODULE MembershipLedger --------------------------
(***************************************************************************)
(* What authority promises the world outside its transactions: the         *)
(* committed Tenant row, the committed Memberships, and the log of events  *)
(* that were committed with them.  Every change is one step, moves a       *)
(* version by one and appends the event that carries the new state.        *)
(*                                                                         *)
(* MembershipAuthority, with its row locks and open transactions, is shown *)
(* to implement this specification, and Projection builds on it: a         *)
(* consumer can observe nothing else.                                      *)
(***************************************************************************)
EXTENDS Lifecycle

CONSTANTS NMemberships, MaxVersion, MaxSecurity

VARIABLES
    tenant,   \* status, version and tenant_security_version
    mem,      \* status and membership_version of each Membership
    log       \* the committed events

ledgerVars == <<tenant, mem, log>>

Memberships == 1..NMemberships

NoMembership == [status |-> "none", version |-> 0]

(* Tenant events have id 0 and are ordered by the pair of their versions; a Membership *)
(* event is ordered by membership_version alone, so its security version is left out.  *)
TenantEvent(t) == [id |-> 0, status |-> t.status, version |-> t.version, sec |-> t.sec]
MembershipEvent(m, r) == [id |-> m, status |-> r.status, version |-> r.version, sec |-> 0]

InitialTenant == [status |-> "active", version |-> 3, sec |-> 1]

LedgerInit ==
    /\ tenant = InitialTenant
    /\ mem = [m \in Memberships |-> NoMembership]
    /\ log = {TenantEvent(InitialTenant)}

(* Mutant: the status changes at the version it had. *)
MembershipChangeSameVersion(m, a) ==
    /\ mem[m].status \in MembershipFrom(a)
    /\ mem[m].version < MaxVersion
    /\ mem' = [mem EXCEPT ![m] = [status |-> MembershipTo(a),
                                  version |-> IF a = "grant" THEN 1 ELSE @.version]]
    /\ log' = log \cup {MembershipEvent(m, mem'[m])}
    /\ UNCHANGED tenant

(* Grant, Suspend, Revoke or Restore of one Membership, committed. *)
MembershipChange(m, a) ==
    /\ mem[m].status \in MembershipFrom(a)
    /\ mem[m].version < MaxVersion
    /\ mem' = [mem EXCEPT ![m] = [status |-> MembershipTo(a), version |-> @.version + 1]]
    /\ log' = log \cup {MembershipEvent(m, mem'[m])}
    /\ UNCHANGED tenant

(* A Tenant transition after activation, committed. *)
TenantChange(a) ==
    /\ tenant.status \in TenantFrom(a)
    /\ tenant.sec < MaxSecurity
    /\ tenant' = AfterTenant(tenant, a)
    /\ log' = log \cup {TenantEvent(tenant')}
    /\ UNCHANGED mem

LedgerNext ==
    \/ \E m \in Memberships, a \in MembershipActions \cup {"grant"} : MembershipChange(m, a)
    \/ \E a \in TenantActions \ ProvisioningActions : TenantChange(a)

LedgerSpec == LedgerInit /\ [][LedgerNext]_ledgerVars
==============================================================================
