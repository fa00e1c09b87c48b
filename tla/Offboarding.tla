---------------------------- MODULE Offboarding ----------------------------
(***************************************************************************)
(* Offboarding one Tenant: internal/offboarding over the Tenant and        *)
(* Membership machines.                                                    *)
(*                                                                         *)
(* Every stage change runs in one transaction under the offboarding's row  *)
(* lock and is one step.  Three things are several steps and interleave    *)
(* with everything else:                                                   *)
(*   - a freeze batch, whose handler reads the stage in one transaction,   *)
(*     and whose own transaction reads the Tenant's status without locking *)
(*     it before it suspends;                                              *)
(*   - a cancellation, whose first transaction moves the Tenant and whose  *)
(*     restorations follow in transactions of their own; the process may   *)
(*     stop between any two, and the request may be sent again;            *)
(*   - an administrator's request, admitted when the Tenant was active and *)
(*     performed later, with no second look at the Tenant.                 *)
(*                                                                         *)
(* expected_version of a Tenant command is the caller's input, held to the *)
(* version under the row lock: a stale one is refused and changes nothing, *)
(* so it is left out.                                                      *)
(***************************************************************************)
EXTENDS Lifecycle, FiniteSets

CONSTANTS
    NMemberships,    \* Membership identifiers are 1..NMemberships
    Principal,       \* the Principal each Membership is for
    NOffboardings,   \* bound on the offboardings of the Tenant
    NObligations,    \* bound on the obligations of one offboarding
    BatchSize,       \* the LIMIT of a freeze and of a restore batch
    Workers,         \* freeze requests that may run at once
    MaxAdmitted      \* administrators' requests in flight at once

ASSUME OffboardingAssumption ==
    /\ NMemberships \in Nat
    /\ NOffboardings \in Nat
    /\ NObligations \in Nat

Memberships  == 1..NMemberships
Offboardings == 1..NOffboardings
Obligations  == 1..NObligations

VARIABLES
    status,       \* tenant.tenant.status
    mem,          \* membership.membership.status of each row, "none" before its grant
    cause,        \* the offboarding whose freeze made the standing suspension, or 0
    off,          \* operation.offboarding: stage, prior_status, legal_hold, and the state
                  \* of the latest deprovisioning request
    obligation,   \* operation.offboarding_obligation.state
    freeze,       \* membership.offboarding_freeze: "none", "frozen", or "restored" (restored_at)
    worker,       \* the freeze batch each worker is running
    admitted      \* the administrator's request in flight on each Membership

offboardingVars == <<status, mem, cause, off, obligation, freeze, worker, admitted>>

Stages == {"freeze", "obligations", "release", "retired", "cancelled"}
InProgress == {"freeze", "obligations", "release"}
ObligationStates == {"open", "completed", "waived", "failed", "cancelled"}
DeprovisioningStates == {"requested", "realized", "failed", "unresolved"}

NoOffboarding == [stage |-> "none", prior |-> "none", hold |-> FALSE, deprov |-> "none"]
Idle == [off |-> 0, at |-> "idle"]

OffboardingInit ==
    /\ status = "active"
    /\ mem \in [Memberships -> {"none", "active", "suspended"}]
    /\ \A m, n \in Memberships :
          mem[m] = "active" /\ mem[n] = "active" /\ Principal[m] = Principal[n] => m = n
    /\ cause = [m \in Memberships |-> 0]
    /\ off = [o \in Offboardings |-> NoOffboarding]
    /\ obligation = [o \in Offboardings |-> [b \in Obligations |-> "none"]]
    /\ freeze = [o \in Offboardings |-> [m \in Memberships |-> "none"]]
    /\ worker = [w \in Workers |-> Idle]
    /\ admitted = [m \in Memberships |-> "none"]

-----------------------------------------------------------------------------
(* Memberships.                                                            *)

(* membership_active_unique: one active Membership per Principal in the Tenant (and     *)
(* Workspace: two Memberships with the same Principal here share it).                   *)
UniqueWith(S) ==
    \A m \in S, n \in Memberships :
        m # n /\ Principal[m] = Principal[n] => n \notin S /\ mem[n] # "active"

(* A row that moved has a new version, so a request that named the old one is refused. *)
Stale(S) == admitted' = [m \in Memberships |-> IF m \in S THEN "none" ELSE admitted[m]]

(* authorize: the administrator's standing holds while the Tenant is active, read in a  *)
(* transaction of its own; an acceptance of an invitation reads the status unlocked in  *)
(* its own.  The request names the version the Membership has now.                      *)
Admit(m, a) ==
    /\ status = "active"
    /\ admitted[m] = "none"
    /\ mem[m] \in MembershipFrom(a)
    /\ Cardinality({n \in Memberships : admitted[n] # "none"}) < MaxAdmitted
    /\ admitted' = [admitted EXCEPT ![m] = a]
    /\ UNCHANGED <<status, mem, cause, off, obligation, freeze, worker>>

(* Grant or transition: nothing here reads the Tenant's status again. *)
Perform(m) ==
    /\ admitted[m] # "none"
    /\ MembershipTo(admitted[m]) = "active" => UniqueWith({m})
    /\ mem' = [mem EXCEPT ![m] = MembershipTo(admitted[m])]
    /\ cause' = [cause EXCEPT ![m] = 0]
    /\ Stale({m})
    /\ UNCHANGED <<status, off, obligation, freeze, worker>>

(* The request fails, or its process stops, before it commits. *)
Drop(m) ==
    /\ admitted[m] # "none"
    /\ Stale({m})
    /\ UNCHANGED <<status, mem, cause, off, obligation, freeze, worker>>

(* ProviderSuspend and ProviderRevoke, at any stage of the Tenant. *)
ProviderWithdraw(m, a) ==
    /\ mem[m] \in MembershipFrom(a)
    /\ mem' = [mem EXCEPT ![m] = MembershipTo(a)]
    /\ cause' = [cause EXCEPT ![m] = 0]
    /\ Stale({m})
    /\ UNCHANGED <<status, off, obligation, freeze, worker>>

-----------------------------------------------------------------------------
(* The freeze.                                                             *)

(* ORDER BY membership_id LIMIT BatchSize FOR UPDATE SKIP LOCKED, over the rows of S,   *)
(* while other transactions hold the rows of L.                                         *)
Batch(S, L) == {m \in S \ L : Cardinality({n \in S \ L : n < m}) < BatchSize}

ActiveMemberships == {m \in Memberships : mem[m] = "active"}

(* A provider suspends or restores the Tenant outside an offboarding. *)
SuspendOrRestoreTenant(a) ==
    /\ status \in TenantFrom(a)
    /\ status' = TenantTo(a)
    /\ UNCHANGED <<mem, cause, off, obligation, freeze, worker, admitted>>

(* Mutant: a record is written whatever the Tenant's state machine says. *)
BeginUnchecked(o, h) ==
    /\ off[o].stage = "none"
    /\ \A p \in 1..(o - 1) : off[p].stage # "none"
    /\ status \in {"active", "suspended", "offboarding"}
    /\ status' = "offboarding"
    /\ off' = [off EXCEPT ![o] = [stage |-> "freeze", prior |-> status, hold |-> h,
                                  deprov |-> "none"]]
    /\ UNCHANGED <<mem, cause, obligation, freeze, worker, admitted>>

(* Begin: the Tenant transition and the record, with the status it moved from. *)
Begin(o, h) ==
    /\ off[o].stage = "none"
    /\ \A p \in 1..(o - 1) : off[p].stage # "none"
    /\ status \in TenantFrom("begin-offboarding")
    /\ status' = TenantTo("begin-offboarding")
    /\ off' = [off EXCEPT ![o] = [stage |-> "freeze", prior |-> status, hold |-> h,
                                  deprov |-> "none"]]
    /\ UNCHANGED <<mem, cause, obligation, freeze, worker, admitted>>

(* freezeOffboarding: the handler reads the stage. *)
StartFreeze(w, o) ==
    /\ worker[w] = Idle
    /\ off[o].stage = "freeze"
    /\ worker' = [worker EXCEPT ![w] = [off |-> o, at |-> "started"]]
    /\ UNCHANGED <<status, mem, cause, off, obligation, freeze, admitted>>

(* FreezeBatch opens its transaction and reads the Tenant's status. *)
CheckFreeze(w) ==
    /\ worker[w].at = "started"
    /\ status = "offboarding"
    /\ worker' = [worker EXCEPT ![w].at = "checked"]
    /\ UNCHANGED <<status, mem, cause, off, obligation, freeze, admitted>>

(* Mutant: the suspensions commit, and the freeze rows are left to a later transaction. *)
FreezeBatchUnrecorded(w, L) ==
    LET o == worker[w].off
        S == Batch(ActiveMemberships, L) IN
    /\ worker[w].at = "checked"
    /\ \A m \in S : freeze[o][m] = "none"
    /\ mem' = [m \in Memberships |-> IF m \in S THEN "suspended" ELSE mem[m]]
    /\ cause' = [m \in Memberships |-> IF m \in S THEN o ELSE cause[m]]
    /\ worker' = [worker EXCEPT ![w] = Idle]
    /\ Stale(S)
    /\ UNCHANGED <<status, off, obligation, freeze>>

(* The rest of FreezeBatch: each row of the batch suspended and recorded.  A row        *)
(* already recorded under this offboarding breaks the primary key of                    *)
(* offboarding_freeze and the whole batch fails.                                        *)
FreezeBatch(w, L) ==
    LET o == worker[w].off
        S == Batch(ActiveMemberships, L) IN
    /\ worker[w].at = "checked"
    /\ \A m \in S : freeze[o][m] = "none"
    /\ mem' = [m \in Memberships |-> IF m \in S THEN "suspended" ELSE mem[m]]
    /\ cause' = [m \in Memberships |-> IF m \in S THEN o ELSE cause[m]]
    /\ freeze' = [freeze EXCEPT ![o] = [m \in Memberships |-> IF m \in S THEN "frozen" ELSE @[m]]]
    /\ worker' = [worker EXCEPT ![w] = Idle]
    /\ Stale(S)
    /\ UNCHANGED <<status, off, obligation>>

(* The batch is refused, fails, or its process stops: its transaction rolls back. *)
AbandonFreeze(w) ==
    /\ worker[w] # Idle
    /\ worker' = [worker EXCEPT ![w] = Idle]
    /\ UNCHANGED <<status, mem, cause, off, obligation, freeze, admitted>>

(* Stage order, and advance: the recorded stage decides under the row lock, not what the *)
(* caller expects; then the gate is checked, and the stage and what it stamps follow.   *)
NextStage == [freeze |-> "obligations", obligations |-> "release", release |-> "retired"]

Advance(o, from, gate) ==
    /\ off[o].stage = from
    /\ gate
    /\ off' = [off EXCEPT ![o].stage = NextStage[from],
                          ![o].deprov = IF from = "obligations" THEN "requested" ELSE @]
    /\ UNCHANGED <<mem, cause, obligation, freeze, worker, admitted>>

(* Mutant: every Membership that is not revoked is counted. *)
CompleteFreezeCountingSuspended(o) ==
    /\ Advance(o, "freeze", \A m \in Memberships : mem[m] \in {"none", "revoked"})
    /\ UNCHANGED status

(* CompleteFreeze: no active Membership is counted. *)
CompleteFreeze(o) ==
    /\ Advance(o, "freeze", ActiveMemberships = {})
    /\ UNCHANGED status

-----------------------------------------------------------------------------
(* Obligations, release and retirement.                                    *)

(* Raise *)
Raise(o, b) ==
    /\ off[o].stage = "obligations"
    /\ obligation[o][b] = "none"
    /\ obligation' = [obligation EXCEPT ![o][b] = "open"]
    /\ UNCHANGED <<status, mem, cause, off, freeze, worker, admitted>>

(* Mutant: any obligation can be reported on, a resolved one too. *)
ResolveAgain(o, b, s) ==
    /\ obligation[o][b] \in {"open", "failed", "completed", "waived"}
    /\ obligation' = [obligation EXCEPT ![o][b] = s]
    /\ UNCHANGED <<status, mem, cause, off, freeze, worker, admitted>>

(* Resolve: an open or a failed obligation, whatever the stage. *)
Resolve(o, b, s) ==
    /\ obligation[o][b] \in {"open", "failed"}
    /\ obligation' = [obligation EXCEPT ![o][b] = s]
    /\ UNCHANGED <<status, mem, cause, off, freeze, worker, admitted>>

(* SetLegalHold *)
SetLegalHold(o, h) ==
    /\ off[o].stage \in InProgress
    /\ off[o].hold # h
    /\ off' = [off EXCEPT ![o].hold = h]
    /\ UNCHANGED <<status, mem, cause, obligation, freeze, worker, admitted>>

(* releaseGates: no legal hold, and nothing outstanding. *)
ReleaseGates(o) ==
    /\ ~off[o].hold
    /\ \A b \in Obligations : obligation[o][b] \notin {"open", "failed"}

(* Release: the gates, the deprovisioning request and the stage. *)
Release(o) ==
    /\ Advance(o, "obligations", ReleaseGates(o))
    /\ UNCHANGED status

(* RecordDeprovisioning: a report, early, late or repeated, lands on the latest request. *)
RecordDeprovisioning(o, s) ==
    /\ off[o].deprov # "none"
    /\ off' = [off EXCEPT ![o].deprov = s]
    /\ UNCHANGED <<status, mem, cause, obligation, freeze, worker, admitted>>

(* SweepUnresolved: a request nobody answered in time. *)
SweepDeprovisioning(o) ==
    /\ off[o].deprov = "requested"
    /\ off' = [off EXCEPT ![o].deprov = "unresolved"]
    /\ UNCHANGED <<status, mem, cause, obligation, freeze, worker, admitted>>

(* ResendDeprovisioning: a new request, which is now the latest. *)
ResendDeprovisioning(o) ==
    /\ off[o].stage = "release"
    /\ ReleaseGates(o)
    /\ off[o].deprov = "failed"
    /\ off' = [off EXCEPT ![o].deprov = "requested"]
    /\ UNCHANGED <<status, mem, cause, obligation, freeze, worker, admitted>>

(* Retire: the gates again, the confirmed outcome, and the Tenant with it. *)
Retire(o) ==
    /\ Advance(o, "release", ReleaseGates(o) /\ off[o].deprov = "realized")
    /\ status \in TenantFrom("retire")
    /\ status' = TenantTo("retire")

-----------------------------------------------------------------------------
(* Cancellation.                                                           *)

CancelAction(o) == IF off[o].prior = "active" THEN "cancel-offboarding-to-active"
                                              ELSE "cancel-offboarding-to-suspended"

(* Mutant: a released offboarding may be cancelled. *)
CancellableUntilRetired(stage) == stage \in InProgress

(* Stage.Cancellable *)
Cancellable(stage) == stage \in {"freeze", "obligations"}

(* The first transaction of Cancel. *)
Cancel(o) ==
    /\ Cancellable(off[o].stage)
    /\ status \in TenantFrom(CancelAction(o))
    /\ status' = TenantTo(CancelAction(o))
    /\ off' = [off EXCEPT ![o].stage = "cancelled"]
    /\ obligation' = [obligation EXCEPT ![o] =
                        [b \in Obligations |-> IF @[b] = "open" THEN "cancelled" ELSE @[b]]]
    /\ UNCHANGED <<mem, cause, freeze, worker, admitted>>

(* Frozen by this offboarding, not yet restored, and still suspended. *)
RestorePending(o) == {m \in Memberships : freeze[o][m] = "frozen" /\ mem[m] = "suspended"}

(* Mutant: the freeze's check of the Tenant, copied: nothing is restored in a Tenant    *)
(* that went back to suspended.                                                         *)
RestoreBatchWhenActive(o, L) ==
    LET S == Batch(RestorePending(o), L) IN
    /\ status = "active"
    /\ off[o].stage = "cancelled"
    /\ S # {} /\ UniqueWith(S)
    /\ mem' = [m \in Memberships |-> IF m \in S THEN "active" ELSE mem[m]]
    /\ cause' = [m \in Memberships |-> IF m \in S THEN 0 ELSE cause[m]]
    /\ freeze' = [freeze EXCEPT ![o] =
                    [m \in Memberships |-> IF m \in S THEN "restored" ELSE @[m]]]
    /\ Stale(S)
    /\ UNCHANGED <<status, off, obligation, worker>>

(* One restoring transaction of a Cancel, the first or one sent again.  It reads        *)
(* neither the Tenant's status nor any other offboarding.  One row that breaks          *)
(* membership_active_unique fails the whole batch.                                      *)
RestoreBatch(o, L) ==
    LET S == Batch(RestorePending(o), L) IN
    /\ off[o].stage = "cancelled"
    /\ S # {} /\ UniqueWith(S)
    /\ mem' = [m \in Memberships |-> IF m \in S THEN "active" ELSE mem[m]]
    /\ cause' = [m \in Memberships |-> IF m \in S THEN 0 ELSE cause[m]]
    /\ freeze' = [freeze EXCEPT ![o] =
                    [m \in Memberships |-> IF m \in S THEN "restored" ELSE @[m]]]
    /\ Stale(S)
    /\ UNCHANGED <<status, off, obligation, worker>>

-----------------------------------------------------------------------------

OffboardingNext ==
    \/ \E m \in Memberships, a \in MembershipActions \cup {"grant"} : Admit(m, a)
    \/ \E m \in Memberships : Perform(m) \/ Drop(m)
    \/ \E m \in Memberships, a \in ProviderMembershipActions : ProviderWithdraw(m, a)
    \/ \E a \in {"suspend", "restore"} : SuspendOrRestoreTenant(a)
    \/ \E o \in Offboardings, h \in BOOLEAN : Begin(o, h) \/ SetLegalHold(o, h)
    \/ \E w \in Workers, o \in Offboardings : StartFreeze(w, o)
    \/ \E w \in Workers : CheckFreeze(w) \/ AbandonFreeze(w)
    \/ \E w \in Workers, L \in SUBSET Memberships : FreezeBatch(w, L)
    \/ \E o \in Offboardings :
          \/ CompleteFreeze(o) \/ Release(o) \/ Retire(o) \/ Cancel(o)
          \/ SweepDeprovisioning(o) \/ ResendDeprovisioning(o)
    \/ \E o \in Offboardings, b \in Obligations : Raise(o, b)
    \/ \E o \in Offboardings, b \in Obligations, s \in {"completed", "waived", "failed"} :
          Resolve(o, b, s)
    \/ \E o \in Offboardings, s \in {"realized", "failed", "unresolved"} :
          RecordDeprovisioning(o, s)
    \/ \E o \in Offboardings, L \in SUBSET Memberships : RestoreBatch(o, L)

OffboardingSpec == OffboardingInit /\ [][OffboardingNext]_offboardingVars

(* One operator, through worker w, drives the freeze batch by batch and sends a cancel   *)
(* that left something pending again; nothing is asked of anybody else.  A request of   *)
(* the operator's ends; a batch may be abandoned, but not every one of them, and no row *)
(* is locked in every one of them.                                                      *)
OffboardingFairness(w) ==
    /\ SF_offboardingVars(\E o \in Offboardings : StartFreeze(w, o))
    /\ SF_offboardingVars(CheckFreeze(w))
    /\ SF_offboardingVars(FreezeBatch(w, {}))
    /\ WF_offboardingVars(AbandonFreeze(w))
    /\ \A o \in Offboardings : /\ WF_offboardingVars(CompleteFreeze(o))
                               /\ SF_offboardingVars(RestoreBatch(o, {}))

-----------------------------------------------------------------------------

OffboardingRecords == [stage : Stages \cup {"none"}, prior : {"none", "active", "suspended"},
                       hold : BOOLEAN, deprov : DeprovisioningStates \cup {"none"}]
WorkerRecords == [off : Offboardings \cup {0}, at : {"idle", "started", "checked"}]

(* Every variable has its type: a Tenant begins offboarding only from active or        *)
(* suspended, the only two statuses Begin may keep to return to.                        *)
OffboardingTypeOK ==
    /\ status \in TenantStates
    /\ mem \in [Memberships -> MembershipStates \cup {"none"}]
    /\ cause \in [Memberships -> Offboardings \cup {0}]
    /\ off \in [Offboardings -> OffboardingRecords]
    /\ obligation \in [Offboardings -> [Obligations -> ObligationStates \cup {"none"}]]
    /\ freeze \in [Offboardings -> [Memberships -> {"none", "frozen", "restored"}]]
    /\ worker \in [Workers -> WorkerRecords]
    /\ admitted \in [Memberships -> MembershipActions \cup {"grant", "none"}]

(* A Tenant is offboarding exactly while one offboarding of it is in progress, and      *)
(* retired exactly when one has retired it: no constraint of the schema says so, only   *)
(* the order of the row locks in Begin, Cancel and Retire.                              *)
OneInProgress ==
    /\ \A o, p \in Offboardings :
          off[o].stage \in InProgress \cup {"retired"} /\ off[p].stage \in InProgress \cup {"retired"}
              => o = p
    /\ status = "offboarding" <=> \E o \in Offboardings : off[o].stage \in InProgress
    /\ status = "retired" <=> \E o \in Offboardings : off[o].stage = "retired"

(* From release on nothing is outstanding, whatever is reported later, and a retired    *)
(* Tenant is under no legal hold: what releaseGates checked stays true.                 *)
SettledAfterRelease ==
    \A o \in Offboardings :
        /\ off[o].stage \in {"release", "retired"} =>
              \A b \in Obligations : obligation[o][b] \notin {"open", "failed"}
        /\ off[o].stage = "retired" => ~off[o].hold
        /\ off[o].stage = "cancelled" => \A b \in Obligations : obligation[o][b] # "open"

(* A suspension a freeze made, while it stands, has its unrestored row, under the       *)
(* offboarding that made it: the cancellation, and only it, will find it.               *)
NothingFrozenIsForgotten ==
    \A m \in Memberships :
        /\ cause[m] # 0 => mem[m] = "suspended" /\ freeze[cause[m]][m] = "frozen"
        /\ \A o \in Offboardings : freeze[o][m] = "restored" => off[o].stage = "cancelled"

(* Once released, an offboarding only retires: release is irreversible, so the Tenant   *)
(* never comes back and no Membership is restored by its cancellation.                  *)
ReleaseIsIrreversible ==
    [][\A o \in Offboardings :
          /\ off[o].stage = "release" => off'[o].stage \in {"release", "retired"}
                                         /\ status' \in {"offboarding", "retired"}
          /\ off[o].stage \in {"retired", "cancelled"} => off'[o].stage = off[o].stage]_offboardingVars

(* A freeze that is driven completes, or the offboarding is cancelled, with two freeze   *)
(* requests running, rows locked by others, and requests admitted before the freeze     *)
(* performed during it.  One thing stops it: such a request gives an access back that   *)
(* this freeze had taken.  Its row of offboarding_freeze stands, and freezing it again  *)
(* breaks the primary key and the whole batch (insertFrozen).                           *)
FreezeCompletes ==
    \A o \in Offboardings : off[o].stage = "freeze"
        ~> \/ off[o].stage # "freeze"
           \/ \E m \in Memberships : freeze[o][m] # "none" /\ mem[m] = "active"

(* Sending the cancel again finishes it: what the freeze of a cancelled offboarding     *)
(* suspended does not stay suspended for it (Cancel's resume).                          *)
CancelFinishes ==
    \A o \in Offboardings, m \in Memberships :
        off[o].stage = "cancelled" /\ cause[m] = o ~> cause[m] # o
==============================================================================
