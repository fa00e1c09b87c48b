--------------------------- MODULE RestoreRecovery ---------------------------
(***************************************************************************)
(* The database restored to an older point while a consumer keeps what it  *)
(* applied: the restore with its bump (internal/restore, tenant/restore.go)*)
(* and its pause (authority/pause.go), the version advance                 *)
(* (membership/advance.go, httpapi/handlers_recovery.go) and the ordinary  *)
(* reconciliation around it.  Delivery is at least once and in any order;  *)
(* dead letters and bootstraps are Projection's.                           *)
(***************************************************************************)
EXTENDS MembershipLedger, ProjectionRules, FiniteSets

CONSTANTS Margin,        \* restore.Margin: larger than any version in use
          MaxBefore,     \* bound on changes before the restore
          MaxAfter       \* bound on changes after the restore

ASSUME MarginAssumption == Margin \in Nat /\ Margin > MaxSecurity + 3

VARIABLES
    rows, ctenant,   \* the consumer's copy
    owed,            \* events owed to the consumer
    backup,          \* the last backup, or NoBackup
    phase,           \* "serving", then "paused" by the restore, then "lifted"
    after,           \* changes made since the restore
    report,          \* a report under way: its use and its rows
    advances,        \* the advances a reconciled report asked for
    advanced,        \* every event an advance published
    repairs          \* findings published and not yet delivered

recoveryVars == <<ledgerVars, rows, ctenant, owed, backup, phase, after, report,
                  advances, advanced, repairs>>

NoBackup == [taken |-> FALSE]
NoReport == [use |-> "none", rows |-> {}]

RecoveryInit ==
    /\ LedgerInit
    /\ rows = [m \in Memberships |-> NoMembership]
    /\ ctenant = InitialTenant
    /\ owed = {}
    /\ backup = NoBackup
    /\ phase = "serving" /\ after = 0
    /\ report = NoReport
    /\ advances = {} /\ advanced = {} /\ repairs = {}

-----------------------------------------------------------------------------
(* Before the restore anything may change.  After it, MaxAfter changes: under the      *)
(* pause a Tenant administrator's command is refused and a provider's is not, and a    *)
(* Membership granted after the restore has a new id, which no consumer has seen.      *)

Serve ==
    /\ phase = "serving"
    /\ Cardinality(log) <= MaxBefore
    /\ LedgerNext
    /\ owed' = owed \cup (log' \ log)
    /\ UNCHANGED <<rows, ctenant, backup, phase, after, report, advances, advanced, repairs>>

(* The latest decision recorded is the state, read for each administrator's command. *)
TenantAdministrationPaused == phase = "paused"

MembershipChangeAfter(m, a) ==
    /\ phase # "serving" /\ after < MaxAfter
    /\ TenantAdministrationPaused => a \in ProviderMembershipActions
    /\ MembershipChange(m, a)
    /\ owed' = owed \cup {MembershipEvent(m, mem'[m])}
    /\ after' = after + 1
    /\ UNCHANGED <<rows, ctenant, backup, phase, report, advances, advanced, repairs>>

TenantChangeAfter(a) ==
    /\ phase # "serving" /\ after < MaxAfter
    /\ tenant.status \in TenantFrom(a)
    /\ tenant' = AfterTenant(tenant, a)
    /\ log' = log \cup {TenantEvent(tenant')}
    /\ owed' = owed \cup {TenantEvent(tenant')}
    /\ after' = after + 1
    /\ UNCHANGED <<mem, rows, ctenant, backup, phase, report, advances, advanced, repairs>>

Deliver(e) ==
    /\ e \in owed
    /\ rows' = [m \in Memberships |-> IF e.id = m /\ Newer(rows[m], e) THEN RowOf(e) ELSE rows[m]]
    /\ ctenant' = IF e.id = 0 /\ TenantNewer(ctenant, e) THEN TenantOf(e) ELSE ctenant
    /\ owed' = owed \ {e}
    /\ UNCHANGED <<ledgerVars, backup, phase, after, report, advances, advanced, repairs>>

TakeBackup ==
    /\ phase = "serving" /\ ~backup.taken
    /\ backup' = [taken |-> TRUE, tenant |-> tenant, mem |-> mem, log |-> log, owed |-> owed]
    /\ UNCHANGED <<ledgerVars, rows, ctenant, owed, phase, after, report, advances, advanced,
                   repairs>>

-----------------------------------------------------------------------------

Withheld == {"suspended", "offboarding", "retired"}

(* Mutant: only the Tenant's version gains the margin. *)
BumpedVersionOnly(t) == [t EXCEPT !.version = @ + Margin]

(* bumpTenants. *)
Bumped(t) == [t EXCEPT !.version = @ + Margin, !.sec = @ + Margin]

(* PublishWithdrawn: a Tenant that withholds access is published, an active one never. *)
PublishWithdrawn(t) == IF t.status \in Withheld THEN {TenantEvent(t)} ELSE {}

(* restore.sh: the backup's rows and outbox replace the database's, then BumpWithin in *)
(* one transaction, and a recorded pause, all before the service serves.               *)
Restore ==
    LET t == Bumped(backup.tenant) IN
    /\ phase = "serving" /\ backup.taken
    /\ tenant' = t
    /\ mem' = backup.mem
    /\ log' = backup.log \cup PublishWithdrawn(t)
    /\ owed' = backup.owed \cup PublishWithdrawn(t)
    /\ phase' = "paused"
    /\ report' = NoReport /\ advances' = {} /\ repairs' = {}
    /\ UNCHANGED <<rows, ctenant, backup, after, advanced>>

LiftPause ==
    /\ phase = "paused"
    /\ phase' = "lifted"
    /\ UNCHANGED <<ledgerVars, rows, ctenant, owed, backup, after, report, advances, advanced,
                   repairs>>

-----------------------------------------------------------------------------

(* The consumer's report, sent to reconcile or to advance-versions. *)
Report(use) ==
    /\ phase # "serving" /\ report = NoReport
    /\ report' = [use |-> use, rows |-> ActiveReport(rows)]
    /\ UNCHANGED <<ledgerVars, rows, ctenant, owed, backup, phase, after, advances, advanced,
                   repairs>>

(* POST /v1/projections/reconcile: compare and publish. *)
Reconcile ==
    /\ report.use = "reconcile"
    /\ repairs' = repairs \cup ({Findings(mem, report.rows)} \ {{}})
    /\ report' = NoReport
    /\ UNCHANGED <<ledgerVars, rows, ctenant, owed, backup, phase, after, advances, advanced>>

DeliverRepair(findings) ==
    /\ findings \in repairs
    /\ rows' = [m \in Memberships |-> Repaired(rows[m], findings, m)]
    /\ repairs' = repairs \ {findings}
    /\ UNCHANGED <<ledgerVars, ctenant, owed, backup, phase, after, report, advances, advanced>>

(* advanceVersions keeps the findings of a Membership authority holds, reported above it. *)
AdvancesOf(findings) ==
    {[id |-> f.id, above |-> f.projected] :
        f \in {g \in findings : g.state # NoRow /\ g.projected > g.state.version}}

ReconcileForAdvance ==
    /\ report.use = "advance" /\ advances = {}
    /\ advances' = AdvancesOf(Findings(mem, report.rows))
    /\ report' = NoReport
    /\ UNCHANGED <<ledgerVars, rows, ctenant, owed, backup, phase, after, advanced, repairs>>

(* Mutant: the version moves to the reported one, not past it. *)
AdvancedToAbove(r, above) == IF r.version > above THEN r ELSE [r EXCEPT !.version = above]

(* advanceWithin: a Membership already past the report is left alone. *)
AdvancedTo(r, above) == IF r.version > above THEN r ELSE [r EXCEPT !.version = above + 1]

(* AdvanceVersions: the Tenant's Memberships in one transaction. *)
AdvanceVersions ==
    LET next == [m \in Memberships |->
                    IF \E a \in advances : a.id = m
                    THEN AdvancedTo(mem[m], (CHOOSE a \in advances : a.id = m).above)
                    ELSE mem[m]]
        published == {MembershipEvent(m, next[m]) : m \in {k \in Memberships : next[k] # mem[k]}}
    IN  /\ advances # {}
        /\ mem' = next
        /\ log' = log \cup published
        /\ owed' = owed \cup published
        /\ advanced' = advanced \cup published
        /\ advances' = {}
        /\ UNCHANGED <<tenant, rows, ctenant, backup, phase, after, report, repairs>>

-----------------------------------------------------------------------------

RecoveryNext ==
    \/ Serve
    \/ \E e \in log : Deliver(e)
    \/ TakeBackup \/ Restore \/ LiftPause
    \/ \E m \in Memberships, a \in MembershipActions : MembershipChangeAfter(m, a)
    \/ \E a \in TenantActions \ ProvisioningActions : TenantChangeAfter(a)
    \/ \E use \in {"reconcile", "advance"} : Report(use)
    \/ Reconcile \/ ReconcileForAdvance \/ AdvanceVersions
    \/ \E findings \in repairs : DeliverRepair(findings)

RecoverySpec == RecoveryInit /\ [][RecoveryNext]_recoveryVars

(* Deliveries are retried.  The runbook's steps 1 to 5 are repeated until they settle: *)
(* reports are sent for both uses again and again, and each request is carried out.    *)
RecoveryFairness ==
    /\ WF_recoveryVars(\E e \in log : Deliver(e))
    /\ SF_recoveryVars(Report("reconcile"))
    /\ SF_recoveryVars(Report("advance"))
    /\ WF_recoveryVars(Reconcile)
    /\ WF_recoveryVars(ReconcileForAdvance)
    /\ WF_recoveryVars(AdvanceVersions)
    /\ WF_recoveryVars(\E findings \in repairs : DeliverRepair(findings))

RecoveryFairSpec == RecoverySpec /\ RecoveryFairness

-----------------------------------------------------------------------------

(* advance.go: "what it publishes is never wider than what the consumer holds".  No    *)
(* advance ever gives access the consumer was withholding when the event arrived.      *)
AdvanceNeverWidens ==
    [][\A m \in Memberships :
          rows[m].status # "active" /\ rows'[m].status = "active"
              => MembershipEvent(m, rows'[m]) \notin advanced]_recoveryVars

(* restore.go: after the bump "no version a consumer holds can equal a new one", so a  *)
(* Tenant withdrawal made or kept after the restore reaches the consumer, whatever it  *)
(* had applied before it.                                                              *)
TenantWithdrawalArrives ==
    <>[](phase # "serving" /\ tenant.status \in Withheld => ctenant.status \in Withheld)

(* The same, but for a Membership authority withdrew after the restore and thereby     *)
(* brought to the very version the consumer holds it active at.  Every other way a     *)
(* restored Membership can stand below, above or beside the consumer's is repaired.    *)
WithdrawalArrivesUnlessTied ==
    <>[](phase # "serving" =>
            \A m \in Memberships : mem[m].status # "active" =>
                \/ rows[m].status # "active"
                \/ rows[m].version = mem[m].version /\ after > 0)
==============================================================================
