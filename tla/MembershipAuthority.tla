------------------------- MODULE MembershipAuthority -------------------------
(***************************************************************************)
(* The authority side of one Tenant: its row, its Memberships and the      *)
(* events the transactional outbox holds.  Row-Level Security confines     *)
(* every Membership transaction to one Tenant, so Tenants do not interact  *)
(* here and one is enough.                                                 *)
(*                                                                         *)
(* A Membership transaction (internal/membership/service.go) is two steps, *)
(* because the Tenant row it reads is not locked: the step that locks the  *)
(* Membership, decides and reads the Tenant's security version, and the    *)
(* step that updates, appends the event and commits.  A Tenant transition  *)
(* holds the Tenant's row lock from its read to its commit, reads nothing  *)
(* else, and is one step.  Transactions are READ COMMITTED.                *)
(***************************************************************************)
EXTENDS Lifecycle

CONSTANTS
    NMemberships,   \* Membership identifiers are 1..NMemberships, in id order
    Callers,        \* administrators and providers, one request each at a time
    MaxVersion,     \* bound on a membership_version
    MaxSecurity     \* bound on the Tenant's security version

ASSUME AuthorityAssumption ==
    /\ NMemberships \in Nat
    /\ MaxVersion \in Nat
    /\ MaxSecurity \in Nat

VARIABLES
    tenant,   \* tenant.tenant: status, version, tenant_security_version
    mem,      \* membership.membership: status and membership_version of each row
    tx,       \* the open transaction that holds a Membership row, if any
    view,     \* the Membership a caller was shown, and will name the version of
    events    \* every event committed to platform.outbox

authorityVars == <<tenant, mem, tx, view, events>>

Memberships == 1..NMemberships

NoMembership == [status |-> "none", version |-> 0]
NoView == [id |-> 0, status |-> "none", version |-> 0]
NoTx == [action |-> "none", by |-> "nobody", sec |-> 0]

(* A Membership event's payload: complete state, the Membership's version and the     *)
(* Tenant's security version.  A Tenant event has id 0 and carries the Tenant's own.  *)
MembershipEvent(m, status, version, sec) ==
    [id |-> m, status |-> status, version |-> version, sec |-> sec]

TenantEvent(t) == [id |-> 0, status |-> t.status, version |-> t.version, sec |-> t.sec]

(* A Tenant that was requested (1), provisioned (2) and activated (3), with its event. *)
InitialTenant == [status |-> "active", version |-> 3, sec |-> 1]

AuthorityInit ==
    /\ tenant = InitialTenant
    /\ mem = [m \in Memberships |-> NoMembership]
    /\ tx = [m \in Memberships |-> NoTx]
    /\ view = [c \in Callers |-> NoView]
    /\ events = {TenantEvent(InitialTenant)}

-----------------------------------------------------------------------------

InFlight(c) == \E m \in Memberships : tx[m].by = c

(* Mutant: decide without the version check. *)
DecideIgnoringVersion(a, current, expected) == current.status \in MembershipFrom(a)

(* Mutant: decide without the state machine. *)
DecideByVersionOnly(a, current, expected) == current.version = expected

(* decide: the state machine first, then the version the caller was shown. *)
Decide(a, current, expected) ==
    /\ current.status \in MembershipFrom(a)
    /\ current.version = expected

(* Mutant: a transition builds its payload from the Membership's row, which has none. *)
TenantSecurityVersionUnread(c) == IF view[c].id # 0 THEN 0 ELSE tenant.sec

(* tenantSecurityVersion: a plain SELECT inside the transaction of caller c. *)
TenantSecurityVersion(c) == tenant.sec

(* Get or List: the caller is shown a Membership and its version. *)
Show(c, m) ==
    /\ ~InFlight(c)
    /\ mem[m].status # "none"
    /\ view' = [view EXCEPT ![c] = [id |-> m, status |-> mem[m].status,
                                    version |-> mem[m].version]]
    /\ UNCHANGED <<tenant, mem, tx, events>>

(* GrantWithin up to its read of the Tenant's security version; the id is fresh. *)
BeginGrant(c, m) ==
    /\ ~InFlight(c)
    /\ mem[m].status = "none" /\ tx[m] = NoTx
    /\ MaxVersion > 0
    /\ tx' = [tx EXCEPT ![m] = [action |-> "grant", by |-> c,
                                sec |-> TenantSecurityVersion(c)]]
    /\ view' = [view EXCEPT ![c] = NoView]
    /\ UNCHANGED <<tenant, mem, events>>

(* TransitionWithin up to the same read: SELECT ... FOR UPDATE, decide, read.  A       *)
(* refused transition ends here and leaves no trace.                                   *)
BeginTransition(c, a) ==
    LET m == view[c].id IN
    /\ ~InFlight(c)
    /\ m # 0 /\ tx[m] = NoTx
    /\ Decide(a, mem[m], view[c].version)
    /\ mem[m].version < MaxVersion
    /\ tx' = [tx EXCEPT ![m] = [action |-> a, by |-> c, sec |-> TenantSecurityVersion(c)]]
    /\ UNCHANGED <<tenant, mem, view, events>>

(* Mutant: the update keeps the version it read. *)
AfterMembershipSameVersion(m) ==
    [status  |-> MembershipTo(tx[m].action),
     version |-> IF mem[m].version = 0 THEN 1 ELSE mem[m].version]

(* The rest of either transaction: INSERT or UPDATE ... membership_version + 1, then   *)
(* appendEvent, then COMMIT.                                                           *)
AfterMembership(m) ==
    [status |-> MembershipTo(tx[m].action), version |-> mem[m].version + 1]

Commit(m) ==
    /\ tx[m] # NoTx
    /\ mem' = [mem EXCEPT ![m] = AfterMembership(m)]
    /\ events' = events \cup {MembershipEvent(m, AfterMembership(m).status,
                                              AfterMembership(m).version, tx[m].sec)}
    /\ tx' = [tx EXCEPT ![m] = NoTx]
    /\ view' = [view EXCEPT ![tx[m].by] = NoView]
    /\ UNCHANGED tenant

(* Mutant: the event is appended outside the transaction and survives its rollback. *)
RollbackAfterAppend(m) ==
    /\ tx[m] # NoTx
    /\ events' = events \cup {MembershipEvent(m, AfterMembership(m).status,
                                              AfterMembership(m).version, tx[m].sec)}
    /\ tx' = [tx EXCEPT ![m] = NoTx]
    /\ view' = [view EXCEPT ![tx[m].by] = NoView]
    /\ UNCHANGED <<tenant, mem>>

(* An error or a crash before COMMIT: the row, the event and the lock all go. *)
Rollback(m) ==
    /\ tx[m] # NoTx
    /\ tx' = [tx EXCEPT ![m] = NoTx]
    /\ view' = [view EXCEPT ![tx[m].by] = NoView]
    /\ UNCHANGED <<tenant, mem, events>>

(* transitionWithin of the Tenant: load FOR UPDATE, Resolve, apply, appendEvent. *)
TenantTransition(a) ==
    /\ tenant.status \in TenantFrom(a)
    /\ tenant.sec < MaxSecurity
    /\ tenant' = AfterTenant(tenant, a)
    /\ events' = IF Silent(a) THEN events ELSE events \cup {TenantEvent(tenant')}
    /\ UNCHANGED <<mem, tx, view>>

AuthorityNext ==
    \/ \E c \in Callers, m \in Memberships : Show(c, m) \/ BeginGrant(c, m)
    \/ \E c \in Callers, a \in MembershipActions : BeginTransition(c, a)
    \/ \E m \in Memberships : Commit(m) \/ Rollback(m)
    \/ \E a \in TenantActions \ ProvisioningActions : TenantTransition(a)

AuthoritySpec == AuthorityInit /\ [][AuthorityNext]_authorityVars

-----------------------------------------------------------------------------

(* Every variable has its type, and a version is never past its bound. *)
AuthorityTypeOK ==
    /\ tenant \in [status : TenantStates, version : Nat, sec : Nat]
    /\ mem \in [Memberships -> [status : MembershipStates \cup {"none"},
                                version : 0..MaxVersion]]
    /\ tx \in [Memberships -> [action : MembershipActions \cup {"grant", "none"},
                               by : Callers \cup {"nobody"}, sec : Nat]]
    /\ view \in [Callers -> [id : Memberships \cup {0},
                             status : MembershipStates \cup {"none"},
                             version : 0..MaxVersion]]
    /\ events \subseteq [id : Memberships \cup {0},
                         status : MembershipStates \cup TenantStates,
                         version : Nat, sec : Nat]

EventsOf(m) == {e \in events : e.id = m}

(* Every version a Membership has held has exactly one event, no event is ahead of the *)
(* row, and the newest event carries the row's status: the outbox and the row commit   *)
(* together (appendEvent) and the increment never reuses a number (updateStatement).   *)
EveryVersionHasItsEvent ==
    \A m \in Memberships :
        /\ \A e \in EventsOf(m) : e.version \in 1..mem[m].version
        /\ \A v \in 1..mem[m].version : \E e \in EventsOf(m) : e.version = v
        /\ \A e, f \in EventsOf(m) : e.version = f.version => e = f
        /\ \A e \in EventsOf(m) : e.version = mem[m].version => e.status = mem[m].status

(* Read in version order, a Membership's events follow the state machine, so nothing   *)
(* ever follows a revocation: what a consumer that applies by version ends up with.    *)
HistoryFollowsTheMachine ==
    \A m \in Memberships : \A e, f \in EventsOf(m) :
        f.version = e.version + 1 =>
            \E a \in MembershipActions :
                e.status \in MembershipFrom(a) /\ f.status = MembershipTo(a)

(* A transition acts on the Membership its caller was shown: while it holds the row,   *)
(* the row is still in the status and version of the caller's view (decide).           *)
ActsOnWhatWasShown ==
    \A m \in Memberships :
        tx[m].action \in MembershipActions =>
            /\ view[tx[m].by].id = m
            /\ view[tx[m].by].status = mem[m].status
            /\ view[tx[m].by].version = mem[m].version

(* A later version of a Membership never carries an older Tenant security version than *)
(* an earlier one: the version is read after the row lock, in the same transaction.    *)
SecurityVersionsFollowVersions ==
    \A m \in Memberships : \A e, f \in EventsOf(m) :
        e.version < f.version => e.sec <= f.sec

(* The detailed specification implements the ledger: an open transaction is a stutter, *)
(* its commit one change with its event, a rollback nothing.  A Membership event's     *)
(* security version is forgotten, since the ledger orders by membership_version.       *)
Committed == {[e EXCEPT !.sec = IF e.id = 0 THEN e.sec ELSE 0] : e \in events}

Ledger == INSTANCE MembershipLedger WITH log <- Committed

(* The authority's transactions implement the ledger of atomic, published changes. *)
ImplementsLedger == Ledger!LedgerSpec
==============================================================================
