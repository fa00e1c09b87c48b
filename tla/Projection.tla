----------------------------- MODULE Projection -----------------------------
(***************************************************************************)
(* One registered consumer's copy of authority, and everything that keeps  *)
(* it current: at-least-once delivery from the outbox, dead letters with   *)
(* their replay and their evidence-based closure (replay.go, resolve.go),  *)
(* reconciliation (reconcile.go), and the paged snapshot bootstrap         *)
(* (snapshot.go).  The dispatcher and the consumer are other programs and  *)
(* are modelled from how this code uses them: the dispatcher delivers each *)
(* owed event any number of times and in any order, or abandons it as a    *)
(* dead letter; the consumer handles an event_id once, replaces a row only *)
(* by a higher version and the Tenant only by a higher pair of versions.   *)
(***************************************************************************)
EXTENDS MembershipLedger, ProjectionRules, FiniteSets

CONSTANTS MaxBootstraps,   \* bound on snapshot bootstraps
          MaxRepairs,      \* bound on repair events in flight
          MaxIncidents,    \* bound on dead letters, open and closed
          PageSize         \* rows of one snapshot page

ASSUME ProjectionAssumption ==
    /\ NMemberships \in Nat
    /\ PageSize \in Nat \ {0}

VARIABLES
    rows,      \* consumer: the Membership rows it projects
    ctenant,   \* consumer: the Tenant as it holds it
    inbox,     \* consumer: the event identifiers it has handled
    owed,      \* outbox: events with a delivery owed to this consumer
    receipts,  \* platform.delivery_receipt: events with consumer_applied evidence
    dead,      \* platform.dead_letter: unresolved incidents
    closed,    \* platform.dead_letter: incidents closed REPLAYED or SUPERSEDED
    sweep,     \* the reconciliation under way
    repairs,   \* published repair events not yet delivered
    boot       \* the bootstrap under way; count stands for the mark of the last one

deliveryVars == <<owed, receipts, dead, closed>>
consumerVars == <<rows, ctenant, inbox>>
projectionVars == <<ledgerVars, deliveryVars, consumerVars, sweep, repairs, boot>>

NoTenant == [status |-> "none", version |-> 0, sec |-> 0]
NoSweep == [phase |-> "idle", mark |-> 0, report |-> {}, findings |-> {}]
NoBoot(n) == [phase |-> "none", cursor |-> 0, page |-> {}, tenant |-> NoTenant,
              buffer |-> {}, count |-> n]

(* A consumer that registered, and holds the Tenant as its activation published it. *)
ProjectionInit ==
    /\ LedgerInit
    /\ rows = [m \in Memberships |-> NoMembership]
    /\ ctenant = InitialTenant
    /\ inbox = log /\ receipts = log
    /\ owed = {} /\ dead = {} /\ closed = {}
    /\ sweep = NoSweep
    /\ repairs = {}
    /\ boot = NoBoot(0)

-----------------------------------------------------------------------------
(* Authority commits; the append owes every subscribed consumer a delivery. *)

(* Mutant: a withdrawal is committed without the append that owes its delivery. *)
AuthorityStepUnowed ==
    /\ LedgerNext
    /\ owed' = owed \cup {e \in log' \ log : e.status = "active"}
    /\ UNCHANGED <<receipts, dead, closed, consumerVars, sweep, repairs, boot>>

AuthorityStep ==
    /\ LedgerNext
    /\ owed' = owed \cup (log' \ log)
    /\ UNCHANGED <<receipts, dead, closed, consumerVars, sweep, repairs, boot>>

-----------------------------------------------------------------------------
(* The consumer. *)

(* The newest of a row and a set of events for it. *)
NewestRow(r, es) ==
    LET best == {e \in es : Newer(r, e) /\ \A f \in es : f.version <= e.version}
    IN  IF best = {} THEN r ELSE RowOf(CHOOSE e \in best : TRUE)

NewestTenant(t, es) ==
    LET best == {e \in es : TenantNewer(t, e) /\ \A f \in es : f = e \/ ~TenantNewer(TenantOf(e), f)}
    IN  IF best = {} THEN t ELSE TenantOf(CHOOSE e \in best : TRUE)

ApplyAll(copy, t, es) ==
    /\ rows' = [m \in Memberships |-> NewestRow(copy[m], {e \in es : e.id = m})]
    /\ ctenant' = NewestTenant(t, {e \in es : e.id = 0})

(* The consumer accepts a delivery: an event_id it has handled changes nothing, one    *)
(* that arrives during a bootstrap is buffered, any other is applied by its version.   *)
Accept(e) ==
    IF e \in inbox THEN UNCHANGED <<consumerVars, boot>>
    ELSE IF boot.phase # "none"
         THEN /\ boot' = [boot EXCEPT !.buffer = @ \cup {e}]
              /\ UNCHANGED consumerVars
         ELSE /\ ApplyAll(rows, ctenant, {e})
              /\ inbox' = inbox \cup {e}
              /\ UNCHANGED boot

(* Delivered and acknowledged as applied: the dispatcher records the receipt. *)
Deliver(e) ==
    /\ e \in owed
    /\ Accept(e)
    /\ owed' = owed \ {e}
    /\ receipts' = IF boot.phase = "none" \/ e \in inbox THEN receipts \cup {e} ELSE receipts
    /\ UNCHANGED <<ledgerVars, dead, closed, sweep, repairs>>

(* Delivered, but the acknowledgement is lost: the delivery stays owed. *)
DeliverUnacknowledged(e) ==
    /\ e \in owed
    /\ Accept(e)
    /\ UNCHANGED <<ledgerVars, deliveryVars, sweep, repairs>>

(* The dispatcher gives up on an event the consumer keeps refusing. *)
Abandon(e) ==
    /\ e \in owed /\ e \notin closed
    /\ Cardinality(dead \cup closed \cup {e}) <= MaxIncidents
    /\ owed' = owed \ {e}
    /\ dead' = dead \cup {e}
    /\ UNCHANGED <<ledgerVars, receipts, closed, consumerVars, sweep, repairs, boot>>

-----------------------------------------------------------------------------
(* Dead letters. *)

(* Replay: the event is owed again under its own id; the incident stays open. *)
Replay(e) ==
    /\ e \in dead
    /\ owed' = owed \cup {e}
    /\ UNCHANGED <<ledgerVars, receipts, dead, closed, consumerVars, sweep, repairs, boot>>

(* replayedEvidence: this consumer's applied receipt for the event itself. *)
ReplayedEvidence(e) == e \in receipts

(* Mutant: a newer committed event is taken for a newer applied one. *)
SupersededEvidenceUnapplied(e) ==
    \E f \in log : f.id = e.id /\ IF e.id = 0 THEN f.sec > e.sec ELSE f.version > e.version

(* supersededEvidence: it applied a newer event of the same Membership or Tenant; a    *)
(* Tenant's history is kept by security version.                                       *)
SupersededEvidence(e) ==
    \E f \in receipts : f.id = e.id /\ IF e.id = 0 THEN f.sec > e.sec ELSE f.version > e.version

(* Resolve and Supersede: the incident is closed on evidence and never reopens. *)
Close(e, evidence) ==
    /\ e \in dead /\ evidence
    /\ dead' = dead \ {e}
    /\ closed' = closed \cup {e}
    /\ UNCHANGED <<ledgerVars, owed, receipts, consumerVars, sweep, repairs, boot>>

Resolve(e) == Close(e, ReplayedEvidence(e))
Supersede(e) == Close(e, SupersededEvidence(e))

-----------------------------------------------------------------------------
(* The enforcement read: how far a Membership's latest change has reached, from what   *)
(* is recorded of its delivery.                                                        *)

LatestEvent(m) == MembershipEvent(m, mem[m])

(* Mutant: a delivery that was taken over is taken for an applied one. *)
EvidenceOfTransport(e) == IF e \in dead \cup owed THEN "pending" ELSE "consumer_applied"

(* Applied outranks an open incident, which outranks an acceptance by the transport. *)
Evidence(e) ==
    CASE e \in receipts -> "consumer_applied"
      [] e \in dead \ receipts -> "dead_lettered"
      [] e \in owed \ (dead \cup receipts) -> "pending"
      [] OTHER -> "transport_accepted"

(* overdue: the propagation budget has passed since the change was accepted. *)
Derived(evidence, overdue) ==
    CASE evidence = "consumer_applied" -> "enforced"
      [] evidence = "dead_lettered" \/ (overdue /\ evidence # "consumer_applied") -> "over_budget"
      [] evidence = "transport_accepted" /\ ~overdue -> "propagating"
      [] evidence = "pending" /\ ~overdue -> "accepted"

(* A Membership nobody was granted has no event and no report. *)
Enforcement(m, overdue) ==
    IF LatestEvent(m) \in log THEN Derived(Evidence(LatestEvent(m)), overdue) ELSE "none"

-----------------------------------------------------------------------------
(* Reconciliation: the consumer reports its active rows, authority compares the report *)
(* with one snapshot of its own, and publishes what it found in a later transaction.   *)

Report ==
    /\ sweep.phase = "idle" /\ boot.phase = "none"
    /\ Cardinality(repairs) < MaxRepairs
    /\ sweep' = [phase |-> "reported", findings |-> {}, mark |-> boot.count,
                 report |-> ActiveReport(rows)]
    /\ UNCHANGED <<ledgerVars, deliveryVars, consumerVars, repairs, boot>>

(* Reconcile: authority as it is now against the report, in one snapshot. *)
Compare ==
    /\ sweep.phase = "reported"
    /\ sweep' = [sweep EXCEPT !.phase = "compared", !.findings = Findings(mem, sweep.report)]
    /\ UNCHANGED <<ledgerVars, deliveryVars, consumerVars, repairs, boot>>

(* PublishReconciled: one event per sweep that found something. *)
PublishReconciled ==
    /\ sweep.phase = "compared"
    /\ repairs' = IF sweep.findings = {} THEN repairs ELSE repairs \cup {[mark |-> sweep.mark, findings |-> sweep.findings]}
    /\ sweep' = NoSweep
    /\ UNCHANGED <<ledgerVars, deliveryVars, consumerVars, boot>>

(* A crash between the comparison and its publication: nothing was recorded. *)
LoseSweep ==
    /\ sweep.phase # "idle"
    /\ sweep' = NoSweep
    /\ UNCHANGED <<ledgerVars, deliveryVars, consumerVars, repairs, boot>>

(* Applied by the rule events are applied by; one reported before the model was last   *)
(* replaced has an older mark and is discarded.                                        *)
DeliverRepair(r) ==
    /\ r \in repairs
    /\ boot.phase = "none"
    /\ rows' = IF r.mark < boot.count THEN rows
               ELSE [m \in Memberships |-> Repaired(rows[m], r.findings, m)]
    /\ repairs' = repairs \ {r}
    /\ UNCHANGED <<ledgerVars, deliveryVars, ctenant, inbox, sweep, boot>>

-----------------------------------------------------------------------------
(* Bootstrap: pages of the active set, each read in a snapshot of its own, then the    *)
(* local model is replaced and every buffered event applied by version.                *)

BeginBootstrap ==
    /\ boot.phase = "none" /\ boot.count < MaxBootstraps
    /\ boot' = [NoBoot(boot.count + 1) EXCEPT !.phase = "reading"]
    /\ UNCHANGED <<ledgerVars, deliveryVars, consumerVars, sweep, repairs>>

(* The first PageSize active Memberships past the cursor, in id order (selectRows). *)
PageAfter(cursor) ==
    {m \in Memberships :
        /\ m > cursor /\ mem[m].status = "active"
        /\ PageSize > Cardinality({k \in (cursor + 1)..(m - 1) : mem[k].status = "active"})}

(* A short page ends the snapshot (endPage).  A row carries its Tenant's state too. *)
ReadPage ==
    LET page == PageAfter(boot.cursor) IN
    /\ boot.phase = "reading"
    /\ boot' = [boot EXCEPT
                 !.page = @ \cup {MembershipEvent(m, mem[m]) : m \in page},
                 !.tenant = IF page = {} THEN @ ELSE tenant,
                 !.cursor = IF page = {} THEN @ ELSE CHOOSE m \in page : \A k \in page : k <= m,
                 !.phase = IF Cardinality(page) = PageSize THEN "reading" ELSE "read"]
    /\ UNCHANGED <<ledgerVars, deliveryVars, consumerVars, sweep, repairs>>

(* Mutant: what arrived while the snapshot was read counts as represented by it. *)
ReplaceModelDroppingBuffer ==
    /\ boot.phase = "read"
    /\ ApplyAll([m \in Memberships |-> NoMembership], boot.tenant, boot.page)
    /\ inbox' = inbox \cup boot.buffer
    /\ receipts' = receipts \cup boot.buffer
    /\ boot' = NoBoot(boot.count)
    /\ UNCHANGED <<ledgerVars, owed, dead, closed, sweep, repairs>>

ReplaceModel ==
    /\ boot.phase = "read"
    /\ ApplyAll([m \in Memberships |-> NoMembership],
                IF boot.tenant = NoTenant THEN ctenant ELSE boot.tenant,
                boot.page \cup boot.buffer)
    /\ inbox' = inbox \cup boot.buffer
    /\ receipts' = receipts \cup boot.buffer
    /\ boot' = NoBoot(boot.count)
    /\ UNCHANGED <<ledgerVars, owed, dead, closed, sweep, repairs>>

-----------------------------------------------------------------------------

ConsumerNext ==
    \/ \E e \in log : \/ Deliver(e) \/ DeliverUnacknowledged(e) \/ Abandon(e)
                      \/ Replay(e) \/ Resolve(e) \/ Supersede(e)
    \/ Report \/ Compare \/ PublishReconciled \/ LoseSweep
    \/ \E r \in repairs : DeliverRepair(r)
    \/ BeginBootstrap \/ ReadPage \/ ReplaceModel

ProjectionNext == AuthorityStep \/ ConsumerNext

ProjectionSpec == ProjectionInit /\ [][ProjectionNext]_projectionVars

(* The dispatcher retries an owed delivery until it is acknowledged or abandoned, and  *)
(* the consumer reconciles itself on the interval it registered: each sweep it starts  *)
(* may be lost, but not every one.  Nobody has to replay, close or bootstrap, but a    *)
(* bootstrap that has begun is finished.                                               *)
ProjectionFairness ==
    /\ WF_projectionVars(\E e \in log : Deliver(e))
    /\ WF_projectionVars(Report)
    /\ SF_projectionVars(Compare)
    /\ SF_projectionVars(PublishReconciled)
    /\ WF_projectionVars(\E r \in repairs : DeliverRepair(r))
    /\ WF_projectionVars(ReadPage)
    /\ WF_projectionVars(ReplaceModel)

ProjectionFairSpec == ProjectionSpec /\ ProjectionFairness

-----------------------------------------------------------------------------

(* The consumer never holds a Membership that authority has not committed: it is never *)
(* ahead of authority, and at authority's version it holds authority's status.  This   *)
(* is what lets a version comparison decide which of two states is newer.              *)
AgreesAtSameVersion ==
    \A m \in Memberships :
        /\ rows[m].version <= mem[m].version
        /\ rows[m].version = mem[m].version => rows[m].status = mem[m].status

(* A difference between authority and the consumer is always on its way or on record:  *)
(* the event of authority's current version is owed or dead-lettered.  Once the model  *)
(* has been replaced, which forgets withdrawn rows, the only difference that can go    *)
(* unrecorded is a withdrawal: an active Membership is never lost.                     *)
NothingLost ==
    boot.phase = "none" =>
        \A m \in Memberships :
            \/ rows[m] = mem[m]
            \/ MembershipEvent(m, mem[m]) \in owed \cup dead
            \/ boot.count > 0 /\ mem[m].status # "active"

(* The Tenant has no reconciliation: if the consumer's copy is behind, the event that  *)
(* would bring it forward is owed, buffered, or an incident an operator can replay.    *)
TenantNeverSilentlyStale ==
    ctenant = tenant \/ TenantEvent(tenant) \in owed \cup dead \cup boot.buffer

(* The replacement of a model forgets the rows authority no longer holds active.  Until *)
(* a newer version brings one back, the row is absent, or is what a delivery of an event*)
(* the consumer handled since then made of it: no page and no repair is that old.       *)
Forgotten(m) ==
    boot.count > 0 /\ (rows[m] = NoMembership \/ MembershipEvent(m, rows[m]) \in inbox)

(* A dead letter is closed only when the consumer's state is at or past it, so closing  *)
(* an incident never ends the only trace of an access the consumer still grants.  Of a  *)
(* Tenant this holds whatever happens; of a Membership, whatever but a bootstrap, which *)
(* forgets the version it was at: then a late delivery of an older event, and nothing   *)
(* else, can leave the row behind the closed one.                                       *)
ClosedIsReflected ==
    \A e \in closed :
        IF e.id = 0 THEN ~TenantNewer(ctenant, e)
        ELSE rows[e.id].version >= e.version \/ Forgotten(e.id)

(* A change the enforcement read calls enforced is what the consumer holds: whatever    *)
(* was delivered twice, buffered, abandoned or repaired, the consumer has exactly        *)
(* authority's state of that Membership, unless a later bootstrap has left a withdrawn    *)
(* row out, and then the row is absent or an older event's.                              *)
EnforcedIsReflected ==
    \A m \in Memberships : \A overdue \in BOOLEAN :
        Enforcement(m, overdue) = "enforced" =>
            \/ rows[m] = mem[m]
            \/ Forgotten(m) /\ mem[m].status # "active"

(* Once applied, a withdrawal is undone only by a later version of authority's, and a  *)
(* revocation by nothing: not by a late or repeated event, nor by a repair computed    *)
(* from an old report.  Only the replacement of the whole model forgets versions.      *)
WithdrawalHolds ==
    [][\A m \in Memberships :
          (rows[m].status \in {"suspended", "revoked"} /\ rows'[m].status = "active")
              => \/ rows'[m].version > rows[m].version /\ rows[m].status # "revoked"
                 \/ boot.phase = "read" /\ boot'.phase = "none"]_projectionVars

(* Once authority stops changing a Membership, the consumer ends up granting exactly   *)
(* what authority grants, whatever was lost, duplicated, abandoned or replayed.        *)
Converges ==
    <>[](\A m \in Memberships :
            rows[m] = mem[m] \/ (rows[m].status # "active" /\ mem[m].status # "active"))
==============================================================================
