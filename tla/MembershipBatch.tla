-------------------------- MODULE MembershipBatch --------------------------
(***************************************************************************)
(* internal/membership/batch.go: a preview, and the execute requests that  *)
(* commit it item by item under a lease.                                   *)
(*                                                                         *)
(* Every transaction of a request begins by locking the batch's row (the   *)
(* first by SELECT ... FOR UPDATE, the others by the fence's UPDATE) and   *)
(* holds it to its commit, so each is one step.  Between two of them the   *)
(* request may end (its timeout, a crash), its lease may go stale, and     *)
(* another request may take the lease over while it still runs.            *)
(*                                                                         *)
(* A request is identified by the lease it minted; the id is used again    *)
(* only after the request has ended.                                       *)
(***************************************************************************)
EXTENDS Lifecycle, FiniteSets, FiniteSetsExt

CONSTANTS
    NItems,        \* the items are 1..NItems, in position order
    Requests,      \* execute requests
    Keyed,         \* the requests that carry one same Idempotency-Key, caller and body
    Retry,         \* the one of them the client sends again until it is answered
    KeyAllowance,  \* the fail_on_errors in that body
    Allowances,    \* the values of fail_on_errors other requests may name
    MaxVersion     \* bound on a membership_version changed by anybody else

NoLimit == NItems  \* fail_on_errors absent: failures never exceed it

ASSUME BatchAssumption ==
    /\ NItems \in Nat
    /\ Keyed \subseteq Requests
    /\ Retry \in Keyed
    /\ KeyAllowance \in 0..NItems
    /\ Allowances \subseteq 0..NItems

VARIABLES
    mem,       \* status and membership_version of the Membership each item names
    batch,     \* membership_batch: action, state, fail_on_errors, lease_id; expired and live
               \* are what the clock says of expires_at and heartbeat_at
    item,      \* membership_batch_item: version_read, refusal, outcome
    applied,   \* how often the batch changed each item's Membership
    req,       \* each request: where it is, the items of the batch it loaded that it has
               \* still to try, and the failures it has counted
    claim      \* platform.idempotency_key of the shared key: "none", "pending", "completed"

batchVars == <<mem, batch, item, applied, req, claim>>

Items == 1..NItems

NoItem == [read |-> 0, refused |-> FALSE, outcome |-> "none"]
NoBatch == [action |-> "none", state |-> "none", allowance |-> NoLimit, lease |-> "nobody",
            expired |-> FALSE, live |-> FALSE]
NotRunning == [at |-> "idle", todo |-> {}, failures |-> 0]

StartingMembership == [status : {"active"}, version : {1}]
                        \cup [status : {"suspended", "revoked"}, version : {2}]

BatchInit ==
    /\ mem \in [Items -> StartingMembership]
    /\ batch = NoBatch
    /\ item = [i \in Items |-> NoItem]
    /\ applied = [i \in Items |-> 0]
    /\ req = [r \in Requests |-> NotRunning]
    /\ claim = "none"

-----------------------------------------------------------------------------

Changed(m, a) == [status |-> MembershipTo(a), version |-> m.version + 1]

(* PreviewBatch: each item through decide, and nothing but the batch written. *)
PreviewBatch(a) ==
    /\ batch.state = "none"
    /\ batch' = [batch EXCEPT !.action = a, !.state = "previewed"]
    /\ item' = [i \in Items |-> [read |-> mem[i].version,
                                 refused |-> mem[i].status \notin MembershipFrom(a),
                                 outcome |-> "none"]]
    /\ UNCHANGED <<mem, applied, req, claim>>

(* The clock passes expires_at. *)
Expire ==
    /\ batch.state = "previewed" /\ ~batch.expired
    /\ batch' = [batch EXCEPT !.expired = TRUE]
    /\ UNCHANGED <<mem, item, applied, req, claim>>

(* The clock passes heartbeat_at + BatchLease. *)
LeaseGoesStale ==
    /\ batch.state = "executing" /\ batch.live
    /\ batch' = [batch EXCEPT !.live = FALSE]
    /\ UNCHANGED <<mem, item, applied, req, claim>>

(* fail_on_errors of a request: the shared body's, or its own. *)
Asked(r, f) == f \in IF r \in Keyed THEN {KeyAllowance} ELSE Allowances

(* Mutant: an uncompleted key is refused as in progress. *)
ClaimKeyNoAdoption(r) ==
    /\ r \in Keyed => claim = "none"
    /\ claim' = IF r \in Keyed THEN "pending" ELSE claim

(* claimWithin: a new key is reserved, an uncompleted one adopted; a completed one is   *)
(* answered from its record and runs nothing.                                           *)
ClaimKey(r) ==
    /\ r \in Keyed => claim # "completed"
    /\ claim' = IF r \in Keyed THEN "pending" ELSE claim

(* Mutant: a resumed execution starts its count of failures at zero. *)
LoadedAfresh == [at |-> "running", failures |-> 0,
                 todo |-> {i \in Items : ~item[i].refused /\ item[i].outcome = "none"}]

(* What the request starts from: the items with neither a refusal nor an outcome, and   *)
(* the failures already recorded.                                                       *)
Loaded == [at |-> "running",
           failures |-> Cardinality({i \in Items : item[i].outcome = "failed"}),
           todo |-> {i \in Items : ~item[i].refused /\ item[i].outcome = "none"}]

(* ExecuteBatch on a preview: its first transaction. *)
StartExecution(r, f) ==
    /\ req[r] = NotRunning /\ Asked(r, f)
    /\ batch.state = "previewed" /\ ~batch.expired
    /\ ClaimKey(r)
    /\ batch' = [batch EXCEPT !.state = "executing", !.allowance = f,
                              !.lease = r, !.live = TRUE]
    /\ req' = [req EXCEPT ![r] = Loaded]
    /\ UNCHANGED <<mem, item, applied>>

(* Mutant: the resume renews the heartbeat and leaves the lease with the dead request. *)
ResumeExecutionKeepingLease(r, f) ==
    /\ req[r] = NotRunning /\ Asked(r, f)
    /\ batch.state = "executing" /\ ~batch.live
    /\ f # NoLimit => f = batch.allowance
    /\ ClaimKey(r)
    /\ batch' = [batch EXCEPT !.live = TRUE]
    /\ req' = [req EXCEPT ![r] = Loaded]
    /\ UNCHANGED <<mem, item, applied>>

(* ExecuteBatch on an executing batch whose heartbeat is stale. *)
ResumeExecution(r, f) ==
    /\ req[r] = NotRunning /\ Asked(r, f)
    /\ batch.state = "executing" /\ ~batch.live
    /\ f # NoLimit => f = batch.allowance
    /\ ClaimKey(r)
    /\ batch' = [batch EXCEPT !.lease = r, !.live = TRUE]
    /\ req' = [req EXCEPT ![r] = Loaded]
    /\ UNCHANGED <<mem, item, applied>>

(* Mutant: an adopted key is answered with the batch, however far it is. *)
AnswerFromBatchAnyState(r) ==
    /\ req[r] = NotRunning /\ r \in Keyed
    /\ batch.state \in {"executing", "executed"} /\ claim = "pending"
    /\ req' = [req EXCEPT ![r].at = "answering"]
    /\ UNCHANGED <<mem, batch, item, applied, claim>>

(* ExecuteBatch on an executed batch under an adopted claim. *)
AnswerFromBatch(r) ==
    /\ req[r] = NotRunning /\ r \in Keyed
    /\ batch.state = "executed" /\ claim = "pending"
    /\ req' = [req EXCEPT ![r].at = "answering"]
    /\ UNCHANGED <<mem, batch, item, applied, claim>>

-----------------------------------------------------------------------------

(* Mutant: the heartbeat is renewed by batch, not by lease. *)
FenceByBatch(r) == batch.state = "executing"

(* fence: the UPDATE matches the request's own lease of an executing batch. *)
Fence(r) == batch.state = "executing" /\ batch.lease = r

(* The loop goes on: something is left and the allowance is not exceeded. *)
Continues(r) == req[r].todo # {} /\ req[r].failures <= batch.allowance

NextItem(r) == Min(req[r].todo)

(* Mutant: the version the preview read is not passed on. *)
DecidedByStatus(i) == mem[i].status \in MembershipFrom(batch.action)

(* decide, at the version the preview read. *)
Decided(i) == mem[i].status \in MembershipFrom(batch.action) /\ mem[i].version = item[i].read

(* Mutant: the outcome is left to a transaction after the transition's. *)
ApplyItemWithoutOutcome(r, at) ==
    LET i == NextItem(r) IN
    /\ req[r].at = "running" /\ Continues(r) /\ Fence(r)
    /\ item[i].outcome = "none" /\ Decided(i)
    /\ mem' = [mem EXCEPT ![i] = Changed(@, batch.action)]
    /\ applied' = [applied EXCEPT ![i] = @ + 1]
    /\ batch' = [batch EXCEPT !.live = TRUE]
    /\ req' = [req EXCEPT ![r].todo = @ \ {i}]
    /\ UNCHANGED <<item, claim>>

(* executeItem: fence, lockItem, the transition at the version read, recordSucceeded.   *)
(* lockItem never finds an outcome here: only the holder settles, and it loaded them.   *)
(* at is "running", or "failing" when the commit's answer is lost and the request takes *)
(* it for a failure.                                                                    *)
ApplyItem(r, at) ==
    LET i == NextItem(r) IN
    /\ req[r].at = "running" /\ Continues(r) /\ Fence(r)
    /\ item[i].outcome = "none" /\ Decided(i)
    /\ mem' = [mem EXCEPT ![i] = Changed(@, batch.action)]
    /\ item' = [item EXCEPT ![i].outcome = "succeeded"]
    /\ applied' = [applied EXCEPT ![i] = @ + 1]
    /\ batch' = [batch EXCEPT !.live = TRUE]
    /\ req' = [req EXCEPT ![r] = IF at = "running"
                                 THEN [req[r] EXCEPT !.todo = @ \ {i}]
                                 ELSE [req[r] EXCEPT !.at = "failing", !.failures = @ + 1]]
    /\ UNCHANGED claim

(* executeItem refuses the transition, or the database fails it: all of it rolls back. *)
FailItem(r) ==
    /\ req[r].at = "running" /\ Continues(r) /\ Fence(r)
    /\ item[NextItem(r)].outcome = "none"
    /\ req' = [req EXCEPT ![r].at = "failing", ![r].failures = @ + 1]
    /\ UNCHANGED <<mem, batch, item, applied, claim>>

(* The failure, in a transaction of its own: fence, then recordFailed. *)
RecordFailed(r) ==
    LET i == NextItem(r) IN
    /\ req[r].at = "failing" /\ Fence(r)
    /\ item' = [item EXCEPT ![i].outcome = IF @ = "none" THEN "failed" ELSE @]
    /\ batch' = [batch EXCEPT !.live = TRUE]
    /\ req' = [req EXCEPT ![r].at = "running", ![r].todo = @ \ {i}]
    /\ UNCHANGED <<mem, applied, claim>>

(* completeExecution and settleUnattempted. *)
CompleteExecution(r) ==
    /\ req[r].at = "running" /\ ~Continues(r) /\ Fence(r)
    /\ batch' = [batch EXCEPT !.state = "executed", !.live = TRUE]
    /\ item' = [i \in Items |-> IF item[i].outcome = "none"
                                THEN [item[i] EXCEPT !.outcome = "not_attempted"] ELSE item[i]]
    /\ req' = [req EXCEPT ![r].at = "answering"]
    /\ UNCHANGED <<mem, applied, claim>>

(* ErrBatchLeaseLost, or the request ends: its context, its process, its response. *)
EndRequest(r) ==
    /\ req[r] # NotRunning
    /\ req' = [req EXCEPT ![r] = NotRunning]
    /\ UNCHANGED <<mem, batch, item, applied, claim>>

(* Idempotent: the response is recorded after the handler returned it. *)
RecordResponse(r) ==
    /\ req[r].at = "answering"
    /\ claim' = IF r \in Keyed THEN "completed" ELSE claim
    /\ req' = [req EXCEPT ![r] = NotRunning]
    /\ UNCHANGED <<mem, batch, item, applied>>

(* Anybody else's command on one of the Memberships. *)
OtherChange(i, a) ==
    /\ mem[i].status \in MembershipFrom(a)
    /\ mem[i].version < MaxVersion
    /\ mem' = [mem EXCEPT ![i] = Changed(@, a)]
    /\ UNCHANGED <<batch, item, applied, req, claim>>

BatchNext ==
    \/ \E a \in MembershipActions : PreviewBatch(a)
    \/ Expire \/ LeaseGoesStale
    \/ \E r \in Requests, f \in 0..NItems : StartExecution(r, f) \/ ResumeExecution(r, f)
    \/ \E r \in Requests, at \in {"running", "failing"} : ApplyItem(r, at)
    \/ \E r \in Requests :
          \/ AnswerFromBatch(r) \/ FailItem(r) \/ RecordFailed(r) \/ CompleteExecution(r)
          \/ EndRequest(r) \/ RecordResponse(r)
    \/ \E i \in Items, a \in MembershipActions : OtherChange(i, a)

BatchSpec == BatchInit /\ [][BatchNext]_batchVars

(* A request always ends.  The client sends Retry until it is answered, and not every   *)
(* attempt is cut short at the same place.  Nothing else is assumed of the others, which *)
(* may take the lease over whenever it is stale.                                        *)
BatchFairness ==
    /\ WF_batchVars(LeaseGoesStale)
    /\ \A r \in Requests : WF_batchVars(EndRequest(r))
    /\ SF_batchVars(ResumeExecution(Retry, KeyAllowance) \/ AnswerFromBatch(Retry))
    /\ SF_batchVars(ApplyItem(Retry, "running") \/ FailItem(Retry))
    /\ SF_batchVars(RecordFailed(Retry) \/ CompleteExecution(Retry) \/ RecordResponse(Retry))

BatchFairSpec == BatchSpec /\ BatchFairness

-----------------------------------------------------------------------------

(* No item is applied twice, and an item is recorded succeeded exactly when it was      *)
(* applied: the transition and its outcome commit together, under the lease.            *)
AppliedOnce ==
    \A i \in Items : applied[i] = IF item[i].outcome = "succeeded" THEN 1 ELSE 0

(* At most one failure more than the allowance is recorded, over every request that     *)
(* executed the batch: a resume counts the failures already there.                      *)
AllowanceHolds ==
    Cardinality({i \in Items : item[i].outcome = "failed"}) <= batch.allowance + 1

(* Only the request that holds the lease settles an item: one whose lease was taken     *)
(* over does nothing more, however long it runs.                                        *)
OnlyTheHolderSettles ==
    [][(\E i \in Items : item'[i].outcome # item[i].outcome) =>
          \E r \in Requests : batch.lease = r /\ req'[r] # req[r]]_batchVars

(* A stored answer is the batch as it ended: every item settled, nothing executing.     *)
AnswerIsTheEnd ==
    /\ claim = "completed" => batch.state = "executed"
    /\ batch.state = "executed" => \A i \in Items : item[i].outcome # "none"

(* A batch left executing by a request that died is executed in the end. *)
ExecutionEnds == batch.state = "executing" ~> batch.state = "executed"

(* A key that was claimed and never completed is answered in the end. *)
KeyIsAnswered == claim = "pending" ~> claim = "completed"

(* Leases, requests, keys and the clock hidden, a batch is what the contract promises. *)
Contract == INSTANCE BatchContract WITH
                action <- batch.action, state <- batch.state, allowance <- batch.allowance

(* However requests compete, die and are sent again, the batch keeps its contract. *)
ImplementsContract == Contract!ContractSpec
==============================================================================
