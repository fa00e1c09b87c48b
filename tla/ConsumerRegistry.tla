--------------------------- MODULE ConsumerRegistry ---------------------------
(***************************************************************************)
(* The registry of projection consumers (internal/projection/consumer.go): *)
(* registration, which is the subscription, retirement, the snapshot mark a*)
(* consumer bootstrapped from and the position it reports, the frontier    *)
(* each consumer reads (frontier.go), and the waiver of a dead letter      *)
(* (waive.go).  Projection.tla follows the content of one consumer's model;*)
(* here an event is only in the model or not, and consumers come and go.   *)
(*                                                                         *)
(* A position in the stream is taken before its transaction commits, so    *)
(* events commit out of order and some never do.  A progress report and a  *)
(* bootstrap read the consumer's row without a lock and then write it; the *)
(* first registration of a consumer finds no row to lock; a waiver reads   *)
(* the dead letter and the consumer, and then writes.  Each is two steps,  *)
(* and a snapshot is a step for every page.                                *)
(*                                                                         *)
(* There are two snapshots, each earned by a subscription of its own, and  *)
(* one mark for both.  The organization's has the active Memberships and,  *)
(* with them, their Tenants: a Tenant without an active Membership is not  *)
(* in it.  The provider's has the unrevoked grants.                        *)
(*                                                                         *)
(* An append and a change of subscription are ordered by the outbox's own  *)
(* lock, so an event's deliveries are decided when it commits.             *)
(***************************************************************************)
EXTENDS Naturals, FiniteSets, FiniteSetsExt

CONSTANTS
    Consumers,       \* consumer identifiers
    Types,           \* event types a registration may name, by what they are about
    Requests,        \* requests in flight at one time
    MaxSequence,     \* bound on the positions of the stream
    MaxWritings,     \* bound on the times a consumer's subscription is written
    MaxIncidents,    \* bound on dead letters, open and closed
    NoOne            \* no consumer or type

ASSUME RegistryAssumption ==
    /\ MaxSequence \in Nat /\ MaxWritings \in Nat /\ MaxIncidents \in Nat
    /\ Types \subseteq {"membership", "tenant", "provider", "repair"}
    /\ NoOne \notin Consumers \cup Types

VARIABLES
    stream,      \* platform.outbox by position: the type of a committed event
    consumer,    \* projection.consumer, with its platform.subscription
    model,       \* each consumer's own model: the events it represents
    owed,        \* platform.outbox_delivery: unpublished deliveries
    dead,        \* platform.dead_letter: each incident, its waiver, and whether the
                 \* consumer's receipt for the event has been filed since
    request      \* reports, bootstraps, registrations and waivers in flight

registryVars == <<stream, consumer, model, owed, dead, request>>

Positions == 1..MaxSequence

(* A mark is a position of the stream, 0 before the first; stored marks may be NULL,   *)
(* which is {} here.                                                                   *)
NoMark == {}

(* Besides its columns, a row keeps three facts the properties speak of: what had been *)
(* committed when the subscription was last written, the snapshots recorded under its  *)
(* mark, and which of its marks a request wrote that had read an older subscription.   *)
NoConsumer == [state |-> "none", types |-> {}, mark |-> NoMark, reported |-> NoMark,
               writings |-> 0, before |-> {}, kinds |-> {}, overlapped |-> {}]
NoIncident == [state |-> "none", applied |-> FALSE, waived |-> FALSE, read |-> 0]
Idle == [step |-> "idle", of |-> NoOne, types |-> {}, mark |-> 0, kind |-> "none",
         holds |-> {}, writings |-> 0]

RegistryInit ==
    /\ stream = [p \in Positions |-> NoOne]
    /\ consumer = [c \in Consumers |-> NoConsumer]
    /\ model = [c \in Consumers |-> {}]
    /\ owed = {}
    /\ dead = [d \in Consumers \X Positions |-> NoIncident]
    /\ request = [r \in Requests |-> Idle]

Committed == {p \in Positions : stream[p] # NoOne}
IsActive(c) == consumer[c].state = "active"
Free(r) == request[r].step = "idle"

(* The largest committed position (markStatement, frontierStatement). *)
HighestCommitted == Max(Committed \cup {0})

(* The types that earn each snapshot, and the ones whose dead letters are debt: every  *)
(* type a projection's authority depends on, and not the repair.                       *)
OrganizationSnapshotTypes == {"membership", "tenant"}
ProviderEventTypes == {"provider"}
AuthorityEventTypes == OrganizationSnapshotTypes \cup ProviderEventTypes

-----------------------------------------------------------------------------
(* The outbox and the dispatcher, as this code uses them. *)

(* The transaction that took a position commits, owing every consumer that subscribes  *)
(* to its type a delivery.  Another may take a later position and commit before it, and*)
(* one that rolls back never does.                                                     *)
CommitEvent(p, t) ==
    /\ stream[p] = NoOne
    /\ stream' = [stream EXCEPT ![p] = t]
    /\ owed' = owed \cup {<<c, p>> : c \in {d \in Consumers : t \in consumer[d].types}}
    /\ UNCHANGED <<consumer, model, dead, request>>

(* The consumer applies a delivery, and the dispatcher files its receipt, which *)
(* matters where an incident is open.                                                 *)
Deliver(c, p) ==
    /\ <<c, p>> \in owed
    /\ owed' = owed \ {<<c, p>>}
    /\ model' = [model EXCEPT ![c] = @ \cup {p}]
    /\ dead' = [dead EXCEPT ![<<c, p>>].applied = @ \/ dead[<<c, p>>].state = "open"]
    /\ UNCHANGED <<stream, consumer, request>>

(* The dispatcher gives up: one incident for an event and a consumer. *)
DeadLetter(c, p) ==
    /\ <<c, p>> \in owed
    /\ dead[<<c, p>>].state # "closed"
    /\ Cardinality({d \in Consumers \X Positions : dead[d] # NoIncident} \cup {<<c, p>>}) <= MaxIncidents
    /\ owed' = owed \ {<<c, p>>}
    /\ dead' = [dead EXCEPT ![<<c, p>>].state = "open"]
    /\ UNCHANGED <<stream, consumer, model, request>>

-----------------------------------------------------------------------------
(* Registration and retirement. *)

(* Mutant: a written subscription keeps the progress of the one before it. *)
ResetProgressNever(row) == row

(* resetProgressStatement. *)
ResetProgress(row) == [row EXCEPT !.mark = NoMark, !.reported = NoMark,
                                  !.kinds = {}, !.overlapped = {}]

(* upsertStatement and outbox.Subscribe. *)
Subscribed(row, types) ==
    [row EXCEPT !.state = "active", !.types = types, !.writings = @ + 1, !.before = Committed]

(* Register, of a consumer that has a row: it is locked from the read of what it       *)
(* replaces.  The same types for an active consumer change its terms only.             *)
Register(c, types) ==
    /\ consumer[c].state # "none"
    /\ ~(IsActive(c) /\ consumer[c].types = types)
    /\ consumer[c].writings < MaxWritings
    /\ consumer' = [consumer EXCEPT ![c] = ResetProgress(Subscribed(@, types))]
    /\ UNCHANGED <<stream, model, owed, dead, request>>

(* Register, of a consumer without one: nothing is locked. *)
RegisterRead(r, c, types) ==
    /\ Free(r)
    /\ consumer[c].state = "none"
    /\ request' = [request EXCEPT ![r] = [Idle EXCEPT !.step = "registering", !.of = c,
                                                      !.types = types]]
    /\ UNCHANGED <<stream, consumer, model, owed, dead>>

(* The row it inserts may be there by now: then its terms and its subscription are     *)
(* replaced and its progress is kept.                                                  *)
RegisterWrite(r) ==
    LET q == request[r] row == consumer[request[r].of] IN
    /\ q.step = "registering"
    /\ consumer' = [consumer EXCEPT ![q.of] =
                      [Subscribed(row, q.types) EXCEPT
                         !.overlapped = IF row.state = "none" THEN {} ELSE {"mark", "report"}]]
    /\ request' = [request EXCEPT ![r] = Idle]
    /\ UNCHANGED <<stream, model, owed, dead>>

(* Retire: the row, its subscription and every delivery still owed to it, at once.     *)
(* Repeating it does it again.                                                         *)
Retire(c) ==
    /\ consumer[c].state # "none"
    /\ consumer' = [consumer EXCEPT ![c].state = "retired", ![c].types = {}]
    /\ owed' = {d \in owed : d[1] # c}
    /\ UNCHANGED <<stream, model, dead, request>>

-----------------------------------------------------------------------------
(* Bootstrap and progress. *)

(* The committed events of some types. *)
CommittedOf(types) == {p \in Committed : stream[p] \in types}

(* subscribesToAny. *)
SubscribesToAny(c, types) == consumer[c].types \cap types # {}

(* The first page of a snapshot, under the mark of its own instant. *)
FirstPage(r, c, kind, holds) ==
    /\ Free(r)
    /\ IsActive(c)
    /\ request' = [request EXCEPT ![r] =
                     [Idle EXCEPT !.step = "snapshot", !.of = c, !.kind = kind, !.holds = holds,
                                  !.mark = HighestCommitted, !.writings = consumer[c].writings]]
    /\ UNCHANGED <<stream, consumer, model, owed, dead>>

(* Snapshot: the active Memberships, which show every change of one, and the Tenants   *)
(* that have an active one.                                                            *)
Snapshot(r, c, tenants) ==
    /\ SubscribesToAny(c, OrganizationSnapshotTypes)
    /\ tenants \subseteq CommittedOf({"tenant"})
    /\ FirstPage(r, c, "organization", CommittedOf({"membership"}) \cup tenants)

(* ProviderSnapshot: the unrevoked grants, which show every change of one. *)
ProviderSnapshot(r, c) ==
    /\ SubscribesToAny(c, ProviderEventTypes)
    /\ FirstPage(r, c, "provider", CommittedOf(ProviderEventTypes))

(* What a snapshot may show. *)
SnapshotTypes(kind) ==
    IF kind = "organization" THEN OrganizationSnapshotTypes ELSE ProviderEventTypes

(* Another page, read later than the mark it continues: it may show what committed     *)
(* since.  A consumer that no longer enforces or subscribes is refused.                *)
NextPage(r, more) ==
    LET q == request[r] IN
    /\ q.step = "snapshot"
    /\ more \subseteq CommittedOf(SnapshotTypes(q.kind))
    /\ request' = [request EXCEPT ![r] =
                     IF IsActive(q.of) /\ SubscribesToAny(q.of, SnapshotTypes(q.kind))
                     THEN [q EXCEPT !.holds = @ \cup more] ELSE Idle]
    /\ UNCHANGED <<stream, consumer, model, owed, dead>>

(* A mark below a stored one is refused. *)
NotBelow(mark, stored) == \A s \in stored : mark >= s

(* The consumer replaces its model, keeping what was delivered meanwhile, and calls    *)
(* Bootstrap, which reads its row.                                                     *)
BootstrapRead(r) ==
    LET q == request[r] IN
    /\ q.step = "snapshot"
    /\ model' = [model EXCEPT ![q.of] = @ \cup q.holds]
    /\ request' = [request EXCEPT ![r] =
                     IF IsActive(q.of) /\ NotBelow(q.mark, consumer[q.of].mark)
                     THEN [q EXCEPT !.step = "bootstrap"]
                     ELSE Idle]
    /\ UNCHANGED <<stream, consumer, owed, dead>>

(* Whether the subscription was written since the request read what it rests on. *)
Overlapped(q, what, row) ==
    IF q.writings = row.writings THEN row.overlapped \ {what} ELSE row.overlapped \cup {what}

(* The snapshots recorded under the row's mark, with this one. *)
Recorded(q, row) ==
    CASE q.writings # row.writings -> row.kinds
      [] q.writings = row.writings /\ "mark" \in row.overlapped -> {q.kind}
      [] OTHER -> row.kinds \cup {q.kind}

(* recordSnapshotMark: by consumer_id, whatever the row has become. *)
BootstrapWrite(r) ==
    LET q == request[r] row == consumer[request[r].of] IN
    /\ q.step = "bootstrap"
    /\ consumer' = [consumer EXCEPT ![q.of] =
                      [row EXCEPT !.mark = {q.mark}, !.kinds = Recorded(q, row),
                                  !.overlapped = Overlapped(q, "mark", row)]]
    /\ request' = [request EXCEPT ![r] = Idle]
    /\ UNCHANGED <<stream, model, owed, dead>>

(* The highest position of a consumer's model. *)
Applied(c) == Max(model[c] \cup {0})

(* RecordProgress reads the row: a consumer with a snapshot mark reports its position, *)
(* or, in a report that was delayed, the mark it started from.                         *)
ReportRead(r, c, mark) ==
    /\ Free(r)
    /\ IsActive(c)
    /\ mark \in consumer[c].mark \cup {Applied(c)}
    /\ consumer[c].mark # NoMark
    /\ NotBelow(mark, consumer[c].reported)
    /\ request' = [request EXCEPT ![r] =
                     [Idle EXCEPT !.step = "report", !.of = c, !.mark = mark,
                                  !.writings = consumer[c].writings]]
    /\ UNCHANGED <<stream, consumer, model, owed, dead>>

(* recordProgress: by consumer_id, whatever the row has become. *)
ReportWrite(r) ==
    LET q == request[r] IN
    /\ q.step = "report"
    /\ consumer' = [consumer EXCEPT ![q.of] =
                      [@ EXCEPT !.reported = {q.mark},
                                !.overlapped = Overlapped(q, "report", consumer[q.of])]]
    /\ request' = [request EXCEPT ![r] = Idle]
    /\ UNCHANGED <<stream, model, owed, dead>>

-----------------------------------------------------------------------------
(* Dead letters: replay, closure on evidence, and the waiver. *)

(* Replay: owed again to the consumer that refused it, if it still subscribes. *)
Replay(c, p) ==
    /\ dead[<<c, p>>].state = "open"
    /\ stream[p] \in consumer[c].types
    /\ owed' = owed \cup {<<c, p>>}
    /\ UNCHANGED <<stream, consumer, model, dead, request>>

(* Resolve: closed on the consumer's own receipt; its waiver matters no more. *)
Resolve(c, p) ==
    /\ dead[<<c, p>>].state = "open"
    /\ dead[<<c, p>>].applied
    /\ dead' = [dead EXCEPT ![<<c, p>>] = [NoIncident EXCEPT !.state = "closed"]]
    /\ UNCHANGED <<stream, consumer, model, owed, request>>

(* Mutant: an enforcing consumer's incident may be waived. *)
MayWaiveAny(c) == TRUE

(* consumerActive: a live outage is not waived. *)
MayWaive(c) == ~IsActive(c)

(* Waive reads the dead letter and then its consumer. *)
WaiveRead(r, c, p) ==
    /\ Free(r)
    /\ dead[<<c, p>>].state = "open" /\ ~dead[<<c, p>>].waived
    /\ MayWaive(c)
    /\ request' = [request EXCEPT ![r] = [Idle EXCEPT !.step = "waiving", !.of = c, !.mark = p,
                                                      !.writings = consumer[c].writings]]
    /\ UNCHANGED <<stream, consumer, model, owed, dead>>

(* waiveDeadLetter: unless it was closed meanwhile; the waiver never resolves. *)
WaiveWrite(r) ==
    LET q == request[r] IN
    /\ q.step = "waiving"
    /\ dead' = IF dead[<<q.of, q.mark>>].state = "open"
               THEN [dead EXCEPT ![<<q.of, q.mark>>] = [@ EXCEPT !.waived = TRUE, !.read = q.writings]]
               ELSE dead
    /\ request' = [request EXCEPT ![r] = Idle]
    /\ UNCHANGED <<stream, consumer, model, owed>>

(* A waiver's time is up, and the incident alerts again. *)
WaiverExpires(c, p) ==
    /\ dead[<<c, p>>].waived
    /\ dead' = [dead EXCEPT ![<<c, p>>] = [@ EXCEPT !.waived = FALSE, !.read = 0]]
    /\ UNCHANGED <<stream, consumer, model, owed, request>>

-----------------------------------------------------------------------------

RegistryNext ==
    \/ \E p \in Positions, t \in Types : CommitEvent(p, t)
    \/ \E c \in Consumers, p \in Positions :
          Deliver(c, p) \/ DeadLetter(c, p) \/ Replay(c, p) \/ Resolve(c, p) \/ WaiverExpires(c, p)
    \/ \E c \in Consumers :
          \/ Retire(c)
          \/ \E types \in SUBSET Types \ {{}} :
                \/ Register(c, types)
                \/ \E r \in Requests : RegisterRead(r, c, types)
    \/ \E r \in Requests : RegisterWrite(r) \/ BootstrapRead(r) \/ BootstrapWrite(r)
                           \/ ReportWrite(r) \/ WaiveWrite(r)
    \/ \E r \in Requests, more \in SUBSET Positions : NextPage(r, more)
    \/ \E r \in Requests, c \in Consumers :
          \/ \E tenants \in SUBSET Positions : Snapshot(r, c, tenants)
          \/ ProviderSnapshot(r, c)
          \/ \E mark \in Positions \cup {0} : ReportRead(r, c, mark)
          \/ \E p \in Positions : WaiveRead(r, c, p)

RegistrySpec == RegistryInit /\ [][RegistryNext]_registryVars

-----------------------------------------------------------------------------
(* FrontierFor: the deliveries a consumer is owed, and the debt that is its own: a dead *)
(* letter of an authority type.                                                         *)
FrontierFor(c) == [owed |-> {p \in Positions : <<c, p>> \in owed},
                   debt |-> {p \in CommittedOf(AuthorityEventTypes) : dead[<<c, p>>].state = "open"}]

(* The events a consumer's model shows or its frontier names. *)
Accounted(c) == model[c] \cup FrontierFor(c).owed \cup FrontierFor(c).debt

(* The types a snapshot shows whole. *)
ShownWhole(kinds) ==
    (IF "organization" \in kinds THEN {"membership"} ELSE {})
        \cup (IF "provider" \in kinds THEN ProviderEventTypes ELSE {})

(* What the registry believes of a consumer's model is true of it, whatever was retired,*)
(* revived, resubscribed, committed late, dead-lettered, replayed or read in pages.     *)
(* Every authority event of its types that committed under its subscription is in its   *)
(* model, owed to it or its debt.  Beside a snapshot mark the same holds of every       *)
(* Membership event, or provider event, before the subscription too, if the snapshot    *)
(* recorded was the one that shows them; nothing is said of earlier Tenant events, as   *)
(* the snapshot leaves out a Tenant without an active Membership, nor of a type whose   *)
(* snapshot was not the one taken, though the mark is the same.  A reported position    *)
(* stands only beside a mark.  The exceptions are a mark, or a report, written by a     *)
(* request that had read its ground before another registration wrote the subscription  *)
(* (TDD-organization-control-002: "the consumer bootstraps again before a progress      *)
(* report is accepted").                                                                *)
BelievedOnlyWhenComplete ==
    \A c \in Consumers : IsActive(c) =>
        LET row == consumer[c]
            mine == CommittedOf(row.types \cap AuthorityEventTypes) IN
        /\ mine \ row.before \subseteq Accounted(c)
        /\ row.mark # NoMark /\ "mark" \notin row.overlapped
              => /\ row.kinds # {}
                 /\ mine \cap CommittedOf(ShownWhole(row.kinds)) \subseteq Accounted(c)
        /\ row.reported # NoMark /\ "report" \notin row.overlapped => row.mark # NoMark

(* "A re-bootstrap is permitted and must move the mark forward only. A lower mark would *)
(* claim the consumer rebuilt from an older instant than one it already reported        *)
(* progress against, which no sequence of correct operations produces" (bootstrapIn,    *)
(* snapshot.go:302-304).                                                                *)
MarkMovesForwardOnly ==
    [][\A c \in Consumers :
          \A old \in consumer[c].mark, new \in consumer'[c].mark : old <= new]_registryVars

(* The incident of an enforcing consumer stands under a waiver only if the consumer was *)
(* registered again after the waiver was decided: retired then, it is a live outage now,*)
(* and its alert is silent until the waiver expires.                                    *)
WaivedOnlyIfRevived ==
    \A c \in Consumers, p \in Positions :
        dead[<<c, p>>].waived /\ IsActive(c) => consumer[c].writings > dead[<<c, p>>].read
==============================================================================
