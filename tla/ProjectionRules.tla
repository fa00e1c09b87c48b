--------------------------- MODULE ProjectionRules ---------------------------
(***************************************************************************)
(* The rules both ends of a projection share: how a consumer decides which *)
(* of two states is newer (the contract TDD-organization-control-002 gives *)
(* every consumer; the consumers are other programs), and how authority    *)
(* compares a consumer's report with its own rows (projection/reconcile.go).*)
(* A Membership row is a status and a version; "none" at version 0 is a    *)
(* row nobody holds.                                                       *)
(***************************************************************************)
EXTENDS Naturals

NoRow == [status |-> "none", version |-> 0]

(* Mutant: any other version replaces the row. *)
NewerDifferent(r, e) == e.version # r.version

(* A higher membership_version replaces a lower one; nothing else does. *)
Newer(r, e) == e.version > r.version

(* A Tenant is ordered by the pair of its security version and its version. *)
TenantNewer(t, e) == e.sec > t.sec \/ (e.sec = t.sec /\ e.version > t.version)

RowOf(e) == [status |-> e.status, version |-> e.version]
TenantOf(e) == [status |-> e.status, version |-> e.version, sec |-> e.sec]

(* Mutant: withdrawn rows are reported too. *)
WholeReport(copy) ==
    {[id |-> m, version |-> copy[m].version] : m \in {k \in DOMAIN copy : copy[k].status # "none"}}

(* A consumer reports the rows it holds active, at their versions. *)
ActiveReport(copy) ==
    {[id |-> m, version |-> copy[m].version] : m \in {k \in DOMAIN copy : copy[k].status = "active"}}

ReportedVersion(report, m) ==
    IF \E r \in report : r.id = m THEN (CHOOSE r \in report : r.id = m).version ELSE 0

(* Mutant: only the active set is compared, so an extra row is left to its event. *)
DivergentActiveOnly(held, report) ==
    {m \in DOMAIN held : held[m].status = "active" /\ ReportedVersion(report, m) # held[m].version}

(* missing, mismatch and extra: an active Membership reported at no version or at      *)
(* another, and a reported one that authority does not hold as active.                 *)
Divergent(held, report) ==
    {m \in DOMAIN held :
        \/ held[m].status = "active" /\ ReportedVersion(report, m) # held[m].version
        \/ held[m].status # "active" /\ ReportedVersion(report, m) # 0}

(* Each finding carries authority's state; NoRow tells the consumer to remove its own. *)
Findings(held, report) ==
    {[id |-> m, state |-> held[m], projected |-> ReportedVersion(report, m)] :
        m \in Divergent(held, report)}

(* A finding is applied by the rule an event is applied by. *)
Repaired(r, findings, m) ==
    LET mine == {f \in findings : f.id = m} IN
    IF mine = {} THEN r
    ELSE LET f == CHOOSE g \in mine : TRUE IN
         IF f.state = NoRow THEN NoRow ELSE IF Newer(r, f.state) THEN f.state ELSE r
==============================================================================
