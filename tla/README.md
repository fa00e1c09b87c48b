# TLA+ models of organization-control

organization-control is the control plane that decides who holds access to a Tenant. It keeps
Organizations, Tenants, Memberships and their lifecycles in PostgreSQL, publishes every change as an
event through a transactional outbox, and answers for the copies ("projections") that consumers
keep of it. This directory models the parts of it whose correctness depends on how transactions,
deliveries, retries and operators interleave. It checks them with TLC on small instances and proves
the central safety properties with TLAPS for every size.

## Inventory

| Part | State | Operations | What is hard |
|---|---|---|---|
| Membership (`internal/membership`) | rows with status and version, `membership_event`, outbox | grant, suspend, revoke, restore, a provider's suspend and revoke | two callers on one row; an event per version; the Tenant's security version is read without a lock |
| Tenant (`internal/tenant`) | status, version, security version, `tenant_event`, provisioning requests | request, provision, record an outcome, activate, suspend, restore | outcomes repeated or late; retry beside a live attempt; sponsor read without a lock |
| Organization (`internal/organization`) | status | register, suspend, restore, retire | retirement counts Tenants that are being created |
| Enforcement read (`membership/enforcement.go`) | none | derive what an administrator is told of a change | the evidence of a delivery that was taken over, repeated or dead-lettered |
| Projection (`internal/projection`) | dead letters, delivery receipts, reconciliation runs | snapshot and bootstrap, reconcile, replay, resolve, supersede | reordering, duplicates, abandonment, a snapshot read while authority moves |
| Consumer registry (`projection/consumer.go`, `provider_snapshot.go`, `frontier.go`, `waive.go`) | consumers with their subscription, snapshot mark and reported position; waivers | register, retire, two snapshots, bootstrap, report, frontier, waive | positions that commit out of order; reports and bootstraps that read without a lock; a subscription replaced under them |
| Recovery (`internal/restore`, `membership/advance.go`, `authority/pause.go`) | bumped versions, the pause | bump, publish withdrawals, pause and lift, advance versions | consumers are ahead of a restored database |
| Offboarding (`internal/offboarding`) | stage, prior status, legal hold, freeze records, obligations, deprovisioning requests | begin, freeze batches, complete, raise and resolve, hold, release, record, resend, retire, cancel, restore batches | several transactions per operation; requests admitted before it began |
| Membership batches (`membership/batch.go`, `db/idempotency.go`) | batch, items, lease, idempotency claim | preview, execute, resume, complete | crash between items, lost commit answers, lease taken over from a request that still runs |
| Provider authority (`internal/authority`) | provider grants, activations, their event stream | first grant, grant, revoke, request, decide, end | the last grant; a second person's decision without the grant's lock; events built beside a revocation |
| Tenant administrators (`authority/tenantadmin.go`) | administration grants | grant, revoke | rests on a Membership that may be going |
| Invitations (`internal/invitation`) | invitations, token hashes | issue, accept, revoke, expire | an acceptance spans two transactions and a remote call; its retry |
| Workspaces (`internal/workspace`) | status, version | create, archive, restore, retire | retirement against a grant in flight |
| Reviews, emergency use, reporters (`authority/review.go`, `emergency.go`, `reporter.go`) | one row each | record, register, retire | a review covers an access that commits after it counted |
| Context, access, identity, HTTP | none of their own but rate counters | verify, authorize, match | a request is admitted before the state it relies on changes |
| Sweeps, delivery, posture, configuration, telemetry, commands, migrations | none of the protocol | | |

Components meet in three places: a transaction that writes a row and its event together; the outbox,
which a dispatcher (foundation-platform, external) delivers to each consumer at least once and
without order between lanes; and the Tenant's status, which some operations lock, some read without
locking and some only look at when the request is admitted.

Everything in the code that is hard to test is listed, at its line, under `hazards` in
`PROJECT.json`, with the properties that would catch it.

## Modules

| Module | Models | State and actions |
|---|---|---|
| `Lifecycle` | `membership/state.go`, `tenant/state.go` | the two transition tables, which Tenant actions raise the security version and which publish nothing |
| `MembershipLedger` | abstract specification | Memberships and the Tenant change atomically; each change is in the log |
| `MembershipAuthority` | `membership/service.go`, `tenant/service.go` | `Show` is a read; `BeginGrant`/`BeginTransition` lock the row, decide and read the security version; `Commit` and `Rollback` end it; `TenantTransition` runs beside them |
| `ProjectionRules` | `projection/reconcile.go`, and the consumer's ordering rules (external) | when an event replaces a row; what a report lists; findings; repair |
| `Projection` | `projection/*.go` over `MembershipLedger` | the consumer's copy, what it is owed, dead letters, receipts, a sweep in progress, a bootstrap in progress; `Enforcement` is the read of `membership/enforcement.go` |
| `RestoreRecovery` | `restore`, `membership/advance.go`, `authority/pause.go`, the restore runbook | a backup, changes after it, the restore with its bump, the pause, reports, repairs and advances |
| `Offboarding` | `offboarding/*.go` | one Tenant, its Memberships, offboardings with obligations and freeze records, freeze workers, requests admitted earlier; `Advance` is the one way a stage moves forward, `Cancel` the one way out |
| `BatchContract` | abstract specification | each item is settled once, on the version its preview read |
| `MembershipBatch` | `membership/batch.go`, `db/idempotency.go` | the batch, its lease, requests at each point of `ExecuteBatch`, the claim of the key |
| `Provisioning` | `tenant/intake.go`, `tenant/coordinator.go`, `tenant/service.go` (activation), `organization` | the sponsor, `Register`ed under a parent, Tenants, the list of attempts, intake and activation in two steps |
| `ProviderAuthority` | `authority/authority.go`, `administration.go`, `activation.go`, `publication.go`, `httpapi/authentication.go` | grants, activations, published events, and requests: `Admit` reads the standing; `RevokeLock`, `RequestLock`, `DecideLock` take the locks and judge; the `Commit` steps write and publish; `Grant` and `End` are one step |
| `Admission` | `invitation`, `workspace`, `authority/tenantadmin.go`, `db/idempotency.go` | the ways into one Tenant: an acceptance as `ReadByToken`, `Match`, then `Replay` or `AcceptLock` and `AcceptCommit`, with `Revoke` and `ExpireLapsed` beside it; direct grants; a Workspace's retirement and the appointment of an administrator, each a lock and a commit |
| `ConsumerRegistry` | `projection/consumer.go`, `snapshot.go`, `provider_snapshot.go`, `frontier.go`, `waive.go`, `replay.go`, `resolve.go` | the stream by position, each consumer's row and model, deliveries owed, dead letters, the two snapshots page by page (`Snapshot`, `ProviderSnapshot`, `NextPage`), and reports, bootstraps, first registrations and waivers between their read and their write |
| `MembershipAuthorityProofs`, `OffboardingProofs`, `ProjectionProofs`, `MembershipBatchProofs`, `ProvisioningProofs`, `ProviderAuthorityProofs`, `AdmissionProofs`, `ConsumerRegistryProofs` | | the theorems, each about the module it is named after |
| `MC*` | | values of the constants for TLC |

A transaction that holds the lock of every row it reads is one step. A read that takes no lock, a
read in an earlier transaction, and a call to something else are steps of their own. Whatever may
cut a request short between two transactions (a crash, a cancelled context, a lost answer) is an
action too.

What the models leave out, throughout: wording, formatting, paging of lists, telemetry, the
recorded reasons, timestamps other than those something is decided by, and input validation that
refuses before anything is read. Tenants are independent of each other because row-level security
confines each transaction to one, so each model has one Tenant (`Provisioning` has two, under one
sponsor).

### Assumptions by module

* **Consumer** (`ProjectionRules`, `Projection`, `RestoreRecovery`). It is not part of this
  repository. It is modelled from the contract the code here relies on: it handles an event
  identifier once; a higher `membership_version` replaces a row; a Tenant row is ordered by security
  version and then version; it buffers events while it bootstraps and replaces its model at once; it
  keeps a Tenant the snapshot has no row for; its report lists its active rows; it ignores a repair
  whose mark is older than its last bootstrap. It does not compare the Tenant security version in a
  Membership event with the one it holds: the comment at `membership/service.go:663-667`,
  TDD-002:1126-1129 and TDD-004:882-886 speak of a consumer that discards the older, while
  TDD-002:1179 has it apply by Membership version alone, and the models follow the latter. A
  consumer that does discard would lose changes that the properties here promise it. A delivery
  accepted while the consumer bootstraps leaves no receipt until the model is replaced; that is the
  `transport_accepted` of the enforcement read, which is modelled for one consumer. A
  `projection.reconciled` event is delivered or not, and is not dead-lettered: the next sweep finds
  the same.
* **`RestoreRecovery`**. The restore, the bump and the pause are one step (`restore.sh` runs them
  before the service serves). The operator repeats the runbook's steps until they settle. Grants
  made after a restore have new identifiers and cannot meet an old version, so only withdrawals
  follow it.
* **`Offboarding`**. `expected_version` is the caller's and a stale one changes nothing, so it is
  left out, and a request admitted on a row that has moved is dropped. `SKIP LOCKED` is any set `L`
  of rows held by others. A cancel may be sent again at any time, so a restore batch needs only the
  stage `cancelled`. Offboardings recorded before `prior_status` existed are not modelled.
* **`MembershipBatch`**. Each transaction of a request locks the batch row and is one step. A lease
  may go stale at any time, also under a request that still runs. `fail_on_errors` absent is the
  number of items, which failures cannot exceed. The requests that share a key send the same body.
  An item whose commit succeeded and whose answer was lost is the `"failing"` branch of `ApplyItem`.
* **`ProviderAuthority`**. Transactions are READ COMMITTED: a statement sees what is committed when
  it starts, and only locked rows stay as they were read. `now()` is the time of a transaction's
  first step, and the process's clock agrees with the database's. Processes may run with and without
  `ApprovalRequired` at once, so each request picks. A second scope stands for every published one.
  Which commands an eligible holder may send is in the guards (`inForce`), the access evidence that
  each scope records is not.
* **`Admission`**. The Identity Control API may answer yes, no or not at all. An acceptance judges
  expiry by the time it began with, as the code does. Who may send a grant, a Workspace command or
  a revocation is decided elsewhere. A foreign key's share lock waits for a retirement's row lock.
* **`ConsumerRegistry`**. The outbox orders an append and a change of subscription by its own lock,
  so what an event is owed to is decided when it commits. A consumer applies what is delivered and
  keeps, across a bootstrap, what it applied before. An event is in a model or not: the organization's
  snapshot shows every Membership event committed when it is read (an active row shows the latest, an
  absent one the withdrawal) and any of the Tenant events, because a Tenant without an active
  Membership is not in it; the provider's shows the events of grants and activations. A repair is in
  neither. A page read later than the mark may show more. Both snapshots record the one mark of the
  consumer. Closure is by the consumer's receipt only; the closure by a superseding event needs
  versions and is in `Projection`. The principal a consumer is bound to is not modelled: a conflict
  refuses before anything is written. `before`, `kinds`, `overlapped`, `writings` and `read` are
  history: no guard but the bound `MaxWritings` looks at them.
* **`Provisioning`**. Activation holds the Tenant's lock while it reads its sponsor. Offboarding is
  the single step `RetireTenant`. The parent of the sponsor is an Organization with no other child;
  its own registration, and what it sponsors, are not modelled.

## Runs

| Run | Instance | Result |
|---|---|---|
| `authority` | 2 callers, 2 Memberships, versions to 4, security versions to 2 | The history has one event per version and follows the machine, no decision is made on a row its caller did not see, security versions rise with versions, and the ledger is implemented. |
| `projection` | 2 Memberships, versions to 3, 1 bootstrap in pages of 1, 1 repair, 3 incidents | A difference between authority and the copy is always owed or on record, a closed incident is reflected in the copy, withdrawals stay, and what the enforcement read calls enforced is what the copy holds. After a bootstrap, which forgets withdrawn rows, the properties of a Membership are weaker, each by the exception it states. |
| `projection_converges` | 1 Membership, 1 bootstrap, 1 repair, 1 incident, fair | Sweeps alone bring the copy to authority. |
| `recovery` | 1 Membership, 3 changes before and 1 after the restore, fair | Withdrawals arrive unless tied; the Tenant's always; no advance widens. |
| `offboarding` | 2 offboardings, 2 Memberships, 2 workers, batches of 1, 1 obligation, 1 admitted request, in two scopes; fair | One offboarding at a time, release settles and is final, every freeze suspension is on record; a freeze somebody drives ends or meets a Membership it had frozen active again; a repeated cancel gives all back. |
| `batch` | 2 items, 3 requests, 2 of them with one key, fair | Items once, allowance across resumes, an answer only of the end, every key answered. |
| `provisioning` | 2 Tenants, 3 attempts | Status follows the latest attempt; no attempt beside a live one; no active Tenant under a retired sponsor. |
| `provider` | 2 principals, 3 grants, 2 activations, 2 requests, time to 2, both policies | Two revocations never take the last governing grant; a published grant's latest event says what it confers, to the end of its activation; it has one activation in force. |
| `admission` | 2 principals, 1 invitation, 2 Memberships, 1 Workspace, 2 requests, 2 keys, the Tenant suspended and restored | An invitation is accepted with exactly one Membership and one key; a retired Workspace keeps no earlier Membership; an administrator is a member when appointed. |
| `admission_replay` | as above | **Violation**: the retry of a committed acceptance is refused. |
| `registry` | 1 consumer, 4 event types, 2 positions, 2 subscriptions, 2 requests, 1 incident, in four scopes | A consumer holds, is owed or is in debt of every event committed under its subscription; beside a snapshot mark also of the earlier events of the types its snapshots show whole; a position stands only beside a mark; only a revived consumer's incident stays waived; each but for the overlaps it names. |
| `consumer_marks` | 1 consumer, 1 event type, 1 position, 2 requests | **Violation**: two bootstraps that overlap move the snapshot mark back. |

The type invariants are proved (below), those of `MembershipAuthority` and `Offboarding` as theorems
and the others as conjuncts of the inductive invariants, and no run repeats them.

Every run has `CHECK_DEADLOCK FALSE`: versions, attempts and incidents are bounded, and at the bound
nothing is left to do.

**Bounds.** Each counter has a named bound in a guard (`MaxVersion`, `MaxSecurity`, `MaxBootstraps`,
`MaxRepairs`, `MaxIncidents`, `MaxBefore`, `MaxAfter`, `MaxAttempts`, `MaxAdmitted`, `NOffboardings`,
`MaxClock`, `MaxSequence`, `MaxWritings`). Three versions are enough for an old event, its successor and
a late repair to meet; two Memberships and pages of one for a change behind and ahead of a cursor; two
offboardings for a record of the first to meet the second; two items and three requests for a lease
taken over twice; two requests, each a lock and a commit, for every overlap of two commands of a
provider, of an acceptance with another, and of a report or a bootstrap with a registration; three
grants for two governing ones and a published one; two positions for a later one that commits first.
Three runs are restricted to a union of scopes by a constraint `MCScope`, because the product is out of
reach: `MCProjection` to delivery, Tenant with bootstrap, and paging; `MCOffboarding` to two workers at
one offboarding's two Memberships, and two offboardings one after the other with an obligation;
`MCConsumerRegistry` to events out of order with one request, overlapping requests around one event and
two subscriptions, dead letters and waivers, and overlapping requests around two events. A constraint
can hide a liveness violation, if a fair behaviour leaves it: in `MCOffboarding` no step that the
fairness demands leaves its scope. `Margin` only has to exceed what can happen before the restore, as it
does in the code by orders of magnitude. Symmetry is used only in runs without liveness.

**Fairness.** `projection_converges`: the dispatcher retries, the consumer reports on its registered
interval, and not every sweep dies between comparing and publishing (strong fairness of the two).
Nobody has to replay, close or bootstrap. `recovery`: the operator repeats the runbook.
`offboarding`: one operator, the worker `w1`, drives the freeze and repeats a cancel, not every batch is
cut short and no row is locked in all of them; the other worker, the admitted request and the
provider may do anything or nothing. `batch`: every request ends, a lease with no heartbeat goes
stale, and one client repeats its keyed request, cut short at any place but not always at the same
one; nothing is assumed of the other requests.

## Where the code and its documents disagree

Two runs show a promise the code does not keep (`findings` in `PROJECT.json`). `admission_replay`: an
acceptance reads its invitation before the transaction that looks at the key, so the retry of an
acceptance that committed finds the invitation accepted and is refused; the response recorded with
the effect is never read. `consumer_marks`: `bootstrapIn` compares the mark with the stored one by a
read that takes no lock, so of two bootstraps of one consumer that overlap the lower may be written
last, although `snapshot.go:302-304` and TDD-002:363 say the mark moves forward only. `recordProgressIn`
compares and writes the reported position in the same way.

The models reach others, which the properties above name as their exception or which the runs leave
out; each is a short trace when the exception is dropped:

* **Version tie after a restore** (`WithdrawalArrivesUnlessTied`). The advance skips a Membership
  the consumer holds at exactly authority's version. The runbook re-applies lost withdrawals before
  it advances, which is what makes the two equal; it lists the tie as a gap, but as something a
  provider's change causes.
* **Requests admitted before an offboarding** (`FreezeCompletes`). Grants and restores look at the
  Tenant's status only when the request is admitted. One performed after the freeze has counted
  leaves an active Membership that nothing looks at again, although the freeze is meant to end in
  agreement (TDD-004:838, `offboarding/service.go:297-301`): no property says that it cannot happen, and
  the properties of the run hold beside it. One performed during the freeze can make a frozen
  Membership active again, which cannot be recorded a second time (`offboarding_id, membership_id`), so
  every later batch that selects it fails; that is the exception of `FreezeCompletes`.
* **Sponsor** (`RetiredSponsorsNoneActive`). The sponsor is read without a lock, so a Tenant that is
  not active yet may be inserted under an Organization that retires.
* **Resubscribed consumer** (`BelievedOnlyWhenComplete`). A consumer takes a snapshot; an event of a
  type it does not have commits; a provider registers it again with that type, which resets its
  progress; the bootstrap from the old snapshot is then recorded and progress accepted, although the
  event is in no snapshot and no delivery. TDD-002:380-383 and 1037-1042 exclude the gap. Retiring and
  reviving it, and two first registrations at once, do the same; and a report read before a
  registration leaves a position beside no mark.
* **One mark for two snapshots** (`BelievedOnlyWhenComplete`). The two snapshots record the same mark. A
  consumer of both kinds of event that took only one of them may report progress; the events of the
  other kind that committed before it subscribed are in no snapshot and no delivery. In the same
  way a Tenant withdrawal that a consumer missed while it was retired is in no snapshot when the
  Tenant has no active Membership (TDD-002:1037-1042 reads otherwise).
* **Waived, then revived** (`WaivedOnlyIfRevived`). The incident of a consumer registered again keeps
  its waiver, and its alert stays silent until that expires; the frontier counts the debt throughout.
* **Two activations in force** (`OneInForceWhenPublished`). For a scope that is not published an
  approval takes no lock on the grant, so beside an approval, a request that needs none is approved
  too, although `standingStatement` says that at most one is in force. Harmless to what is decided.
* **No one in force**. The last governing grant is kept, but it may be eligible only, and where
  approval is required its single holder cannot be approved by anybody. TDD-001:610 keeps the last
  grant so that the estate has a way back to a provider; this one is none.
* **Grants into a retired Workspace** (`late` in `RetirementLeavesNoneBehind`). A grant and an
  acceptance look at no Workspace status.

And, as before: the
security version in a Membership event may be older than the Tenant's at commit (TDD-002:1126, which
`SecurityVersionsFollowVersions` shows to be harmless to the order of one Membership's events); a
sweep does report ordinary progress (`reconcile.go:89`); a re-bootstrap alone does not repair a
missed Tenant withdrawal (`projection-drift-repair.md:104`); a cancel may restore a suspension
somebody else decided, may be blocked by a twin Membership, and may run during a later offboarding;
a provider can change a frozen Membership (TDD-004:893).

## Proofs

`MembershipAuthorityProofs` proves, for any number of Memberships and callers and any bounds:

* the inductive invariant `AuthorityInv`: the types; an open transaction holds its row
  (`TransactionsHold`), and a caller has one at a time (`OneTransactionEach`); what a caller was
  shown is a version the row has held, with its status then (`ViewsAreHistory`); no event carries a
  security version above the Tenant's (`SecurityBound`); and the four safety properties of the run. The
  extra conjuncts are what the properties lack to be inductive: a commit writes what its
  transaction read earlier, and only the lock says that the row is still what was read, and only
  the bound that the next reader of the security version reads at least as much;
* from it `AuthorityTypes`, `OutboxIsComplete`, `HistoryIsLegal`, `SecurityIsMonotone`,
  `NoLostDecision`;
* `AuthorityImplementsLedger`: the refinement. Initial states map to initial states, a commit or a
  Tenant transition to one change, every other step to a stutter.

`OffboardingProofs` proves, for any number of Memberships, offboardings, obligations and workers and
any batch size:

* the inductive invariant `OffboardingInv`: the types, workers that name an offboarding that exists,
  and the three safety invariants. `StageMoves` first sorts every action by what it does to stages
  and the Tenant, so that "one in progress" is proved for the few kinds of move and not action by
  action;
* from it `OffboardingTypes`, `OneOffboarding`, `ReleaseSettles`, `FreezeIsRemembered`, and the
  action property `ReleaseIsFinal`.

`ProjectionProofs` proves the six safety properties of `Projection` for any number of Memberships,
any page size and any bounds (TLC's run is restricted to `MCScope`; the proof is not). The inductive
invariant `ProjectionInv` adds two ideas. Whatever the consumer holds, was sent, buffered, read from a
page or was told by a repair was committed (`CopiesAreCommitted`, `FindingsAreCommitted`), and the log
has authority's current states and otherwise only older ones (`LogIsHistory`), so a comparison of
versions decides; among its consequences, a repair never tells a consumer to remove a row. And the
event of a current state is owed, dead-lettered, buffered or handled (`CurrentIsTraced`); one that was
handled shows in the rows, or while a bootstrap runs in the pages read so far (`HandledShows`), and
that is all most properties need. What an incident was closed on, and what was enforced, need to last,
which is a second invariant, `ReflectionInv`: the Tenant's copy is at or past every event handled, and
a Membership's row too, or it was forgotten by a replacement and only an older delivery wrote it since
(`HandledIsReflected`); a page in progress is at or past all that was handled before (`PageIsAhead`), and
so is a repair of the model the consumer holds now (`RepairsAreCurrent`). The
step that reads a page needs `PageIs`: a page is a prefix of the active Memberships past the cursor,
and one that is not full has all of them.

`MembershipBatchProofs` proves the safety properties of `MembershipBatch`, and `BatchImplementsContract`,
the refinement to `BatchContract`. `BatchInv` says nothing of a request that lost its lease, because
the fence stops it whatever it believes; of the holder it says that the items it has still to try are
open and that it has counted at least the failures recorded (`HolderKnows`). That is what makes the
allowance hold across a take-over.

`ProvisioningProofs`: `ProvisioningInv` adds to the three properties what the two requests that span
steps still know when they commit: an asked-for Tenant is not there yet, although its sponsor may have
retired meanwhile, and one being activated is still provisioning on a realized request under a sponsor
that has not retired.

`ProviderAuthorityProofs`: `LocksInv` says for each kind of request in flight what its locks keep: a
revocation of a governing grant still holds that grant and another governing one, both unrevoked, a
decision its pending activation, and no two requests hold the same row. Two more invariants rest on
it. `OneAtATime` (for `OneInForceWhenPublished`) says besides that a published grant has at most one
activation in force or pending, and none in force at the time a request between its steps judges by.
`EventsTell` (for `LatestEventTellsTheGrant`) says that no event is newer than its grant, one is as
new, and the one as new tells until when the grant confers.

`AdmissionProofs`: `AdmissionInv` gives each command that locks first and commits later what its lock
keeps: an acceptance its pending invitation and its unused key, a retirement an empty Workspace, an
appointment the Membership it read. `AdministratorsAreMembers` is an action property.

`ConsumerRegistryProofs`: a request that reads a row without a lock carries the count of the writings of
its subscription; `RegistryInv` says what is still true of the row when that count has not moved (a
snapshot covers the stream, a report has its mark, a waiver its retired consumer), and says nothing
otherwise, which is exactly the exception the properties name. Every event
committed under a subscription, and every event of the types the snapshot shows whole, is in the
snapshot in hand, or in the model, owed, or debt (`Covered`).

All rest only on the named assumptions on constants (`AuthorityAssumption`, `OffboardingAssumption`,
`ProjectionAssumption`, `BatchAssumption`, `ProvisioningAssumption`, `ProviderAssumption`,
`AdmissionAssumption`, `RegistryAssumption`: sizes and bounds are natural numbers, a page has at least
one row, and what else the constants' comments say), which TLC evaluates in the runs. Where a proof
needs induction over natural numbers or finite sets (the first open item, the last Membership of a
page) it takes the least element of a set of naturals, from the well-foundedness of `<`. TLC
finds each inductive invariant true on the instance of its run too.

Only model-checked: every liveness property (`Converges`, `FreezeCompletes`, `CancelFinishes`,
`ExecutionEnds`, `KeyIsAnswered`, `TenantWithdrawalArrives`, `WithdrawalArrivesUnlessTied`: fairness and
`ENABLED` are out of the prover's reach), and, so far, `AdvanceNeverWidens` of `RestoreRecovery`.
`RetryIsReplayed` is what a run refutes.

## Not modelled, and the plan

Modelled in part, and what is left of it:

* provider events: `PublishWithdrawnGrants`, which a restore uses, and the content of a provider
  projection, whose consumer would be a second `Projection`;
* idempotency: the routes other than batches and acceptance, and the purge of old keys;
* the registry: the principal a consumer is bound to, ages and alerts;
* Organizations: versions and events, which repeat the Tenant's.

Not modelled: reviews, emergency use and reporters (no modelled protocol reads them; a review can
cover an access it never counted, `authority/review.go:175`); context
verification and rates (a read and a counter; its ground is the freshness `Projection` and
`ConsumerRegistry` cover); the sweep runner's batching.

Proofs worth having next: the refinement of `MembershipLedger` by the ledger part of `Projection`, and a
contract of the projection (a copy that only moves forward through committed states) shown to be
implemented; that the steps of `RestoreRecovery` never widen a Membership.

Left out for good: row-level security and role grants (PostgreSQL enforces them), schema migrations,
configuration, telemetry, token parsing and validation, and rendering.
