----------------------- MODULE MembershipBatchProofs -----------------------
(***************************************************************************)
(* The safety properties of MembershipBatch, and that it implements        *)
(* BatchContract, proved for every number of items, every set of requests  *)
(* and every allowance.                                                    *)
(*                                                                         *)
(* Nothing is said of a request that lost its lease: whatever it still     *)
(* believes, the fence stops it.  The holder's beliefs are what the        *)
(* properties rest on: the items it has still to try are open, and it has  *)
(* counted at least the failures that are recorded.                        *)
(***************************************************************************)
EXTENDS MembershipBatch, FiniteSetTheorems, WellFoundedInduction, TLAPS

Outcomes == {"none", "succeeded", "failed", "not_attempted"}

FailedItems == {i \in Items : item[i].outcome = "failed"}

MembershipRecords == [status : MembershipStates, version : Nat]

BatchRecords == [action : MembershipActions \cup {"none"},
                 state : {"none", "previewed", "executing", "executed"},
                 allowance : 0..NItems, lease : Requests \cup {"nobody"},
                 expired : BOOLEAN, live : BOOLEAN]

ItemRecords == [read : Nat, refused : BOOLEAN, outcome : Outcomes]

RequestRecords == [at : {"idle", "running", "failing", "answering"},
                   todo : SUBSET Items, failures : Nat]

BatchTypeOK ==
    /\ mem \in [Items -> MembershipRecords]
    /\ batch \in BatchRecords
    /\ item \in [Items -> ItemRecords]
    /\ applied \in [Items -> Nat]
    /\ req \in [Requests -> RequestRecords]
    /\ claim \in {"none", "pending", "completed"}

(* A batch that is not executed yet has settled nothing. *)
NothingSettledBefore ==
    batch.state \in {"none", "previewed"} => \A i \in Items : item[i].outcome = "none"

(* A batch has its action from its preview on. *)
HasItsAction == batch.state # "none" => batch.action \in MembershipActions

(* An item of the batch that may still be tried. *)
StillOpen(i) == ~item[i].refused /\ item[i].outcome = "none"

(* The holder between two items: what it has to try is open, and it counted every      *)
(* failure that is recorded.                                                            *)
HolderRunning(r) ==
    /\ \A i \in req[r].todo : StillOpen(i)
    /\ Cardinality(FailedItems) <= req[r].failures

(* The holder with a failure in hand: one more than is recorded, and within the         *)
(* allowance before it; the item has not failed yet, and only a lost answer to its      *)
(* commit leaves it succeeded.                                                          *)
HolderFailing(r) ==
    /\ req[r].todo # {}
    /\ \A i \in req[r].todo \ {NextItem(r)} : StillOpen(i)
    /\ ~item[NextItem(r)].refused
    /\ item[NextItem(r)].outcome \in {"none", "succeeded"}
    /\ Cardinality(FailedItems) + 1 <= req[r].failures
    /\ req[r].failures <= batch.allowance + 1

(* The lease keeps the holder's beliefs true. *)
HolderKnows ==
    \A r \in Requests : Fence(r) =>
        /\ req[r].at = "running" => HolderRunning(r)
        /\ req[r].at = "failing" => HolderFailing(r)

(* Only the end of the batch is answered. *)
AnswersTheEnd ==
    \A r \in Requests : req[r].at = "answering" => batch.state = "executed"

BatchInv ==
    /\ BatchTypeOK
    /\ NothingSettledBefore
    /\ HasItsAction
    /\ HolderKnows
    /\ AnswersTheEnd
    /\ AppliedOnce
    /\ AllowanceHolds
    /\ AnswerIsTheEnd

-----------------------------------------------------------------------------
(* The set of items. *)

(* The next item is one of those to try: a set of naturals has its least element. *)
LEMMA LeastIsOne ==
    ASSUME NEW S \in SUBSET Items, S # {}
    PROVE  Min(S) \in S
<1>1. S \subseteq Nat
  BY BatchAssumption DEF Items
<1>2. \E x \in S : \A y \in S : ~(<<y, x>> \in OpToRel(<, Nat))
  BY <1>1, NatLessThanWellFounded, WFMin
<1>3. PICK x \in S : \A y \in S : ~(<<y, x>> \in OpToRel(<, Nat))
  BY <1>2
<1>4. \A y \in S : x <= y
  <2>1. \A y : <<y, x>> \in OpToRel(<, Nat) <=> <<y, x>> \in Nat \X Nat /\ y < x
    BY Zenon DEF OpToRel
  <2>2. \A y \in S : ~(<<y, x>> \in Nat \X Nat /\ y < x)
    BY <1>3, <2>1, Zenon
  <2>3. \A y \in S : y \in Nat /\ x \in Nat
    BY <1>1
  <2>4. \A y \in S : ~(y < x)
    BY ONLY <2>2, <2>3
  <2> QED
    BY ONLY <2>3, <2>4
<1>5. \E z \in S : \A y \in S : z <= y
  BY <1>4
<1> HIDE <1>3
<1> QED
  BY ONLY <1>5, Zenon DEF Min

(* Any set of the items can be counted, with one more or without. *)
LEMMA ItemsCount ==
    ASSUME NEW S \in SUBSET Items
    PROVE  /\ IsFiniteSet(S)
           /\ Cardinality(S) \in Nat
           /\ Cardinality({}) = 0
           /\ \A x : Cardinality(S \cup {x}) = IF x \in S THEN Cardinality(S) ELSE Cardinality(S) + 1
<1> NItems \in Int /\ 1 \in Int
  BY BatchAssumption
<1>1. IsFiniteSet(S)
  <2>1. IsFiniteSet(Items)
    BY FS_Interval DEF Items
  <2> QED
    BY <2>1, FS_Subset
<1>2. Cardinality(S) \in Nat /\ Cardinality({}) = 0
  BY <1>1, FS_CardinalityType, FS_EmptySet
<1>3. ASSUME NEW x
      PROVE  Cardinality(S \cup {x}) = IF x \in S THEN Cardinality(S) ELSE Cardinality(S) + 1
  BY <1>1, FS_AddElement
<1> QED
  BY <1>1, <1>2, <1>3

(* An action leads to a status, and is permitted from statuses, of the machine. *)
LEMMA ActionLeads ==
    ASSUME NEW a \in MembershipActions
    PROVE  MembershipTo(a) \in MembershipStates
<1>1. CASE a = "suspend"
  BY <1>1, Zenon DEF MembershipTo, MembershipStates
<1>2. CASE a = "revoke"
  BY <1>2, Zenon DEF MembershipTo, MembershipStates
<1>3. CASE a = "restore"
  BY <1>3, Zenon DEF MembershipTo, MembershipStates
<1> QED
  BY <1>1, <1>2, <1>3 DEF MembershipActions

-----------------------------------------------------------------------------
(* The invariant holds at first. *)
LEMMA BatchInvInit == BatchInit => BatchInv
<1> SUFFICES ASSUME BatchInit PROVE BatchInv
  OBVIOUS
<1> USE BatchAssumption
<1>1. BatchTypeOK
  BY DEF BatchInit, BatchTypeOK, MembershipRecords, BatchRecords, ItemRecords, RequestRecords,
     NoItem, NoBatch, NotRunning, NoLimit, StartingMembership,
         MembershipStates, Outcomes
<1>2. NothingSettledBefore /\ HasItsAction /\ AnswersTheEnd /\ AppliedOnce /\ AnswerIsTheEnd
  BY DEF BatchInit, NothingSettledBefore, HasItsAction, AnswersTheEnd, AppliedOnce, AnswerIsTheEnd,
         NoItem, NoBatch, NotRunning
<1>3. HolderKnows
  BY DEF BatchInit, HolderKnows, Fence, NoBatch
<1>4. {i \in Items : item[i].outcome = "failed"} = {}
  BY DEF BatchInit, NoItem
<1>5. AllowanceHolds
  BY <1>4, FS_EmptySet DEF AllowanceHolds, BatchInit, NoBatch, NoLimit
<1> QED
  BY <1>1, <1>2, <1>3, <1>5 DEF BatchInv

(* Items and a batch that nobody touches leave what is said of them alone. *)
LEMMA ItemsUntouched ==
    ASSUME BatchInv, UNCHANGED <<item, applied>>,
           batch'.state = batch.state, batch'.action = batch.action,
           batch'.allowance = batch.allowance
    PROVE  /\ FailedItems' = FailedItems
           /\ NothingSettledBefore' /\ HasItsAction' /\ AppliedOnce' /\ AllowanceHolds'
           /\ batch'.state = "executed" => \A i \in Items : item'[i].outcome # "none"
<1>1. FailedItems' = FailedItems
  BY DEF FailedItems
<1> QED
  BY <1>1 DEF BatchInv, NothingSettledBefore, HasItsAction, AppliedOnce, AllowanceHolds, AnswerIsTheEnd

(* A request nobody touches knows what it knew, of the same items under the same lease. *)
LEMMA HolderUntouched ==
    ASSUME BatchInv, NEW r \in Requests, req'[r] = req[r], UNCHANGED item,
           batch'.allowance = batch.allowance, Fence(r)' => Fence(r)
    PROVE  Fence(r)' => /\ req'[r].at = "running" => HolderRunning(r)'
                        /\ req'[r].at = "failing" => HolderFailing(r)'
<1>1. FailedItems' = FailedItems
  BY DEF FailedItems
<1>2. NextItem(r)' = NextItem(r)
  BY DEF NextItem
<1>3. \A i : StillOpen(i)' <=> StillOpen(i)
  BY DEF StillOpen
<1>4. SUFFICES ASSUME Fence(r)
      PROVE  /\ req'[r].at = "running" => HolderRunning(r)'
             /\ req'[r].at = "failing" => HolderFailing(r)'
  OBVIOUS
<1>5. /\ req[r].at = "running" => HolderRunning(r)
      /\ req[r].at = "failing" => HolderFailing(r)
  BY <1>4 DEF BatchInv, HolderKnows
<1>6. HolderRunning(r) => HolderRunning(r)'
  BY <1>1, <1>3 DEF HolderRunning
<1>7. HolderFailing(r) => HolderFailing(r)'
  BY <1>1, <1>2, <1>3 DEF HolderFailing
<1> QED
  BY <1>5, <1>6, <1>7

(* The preview settles nothing. *)
LEMMA PreviewStep ==
    ASSUME BatchInv, NEW a \in MembershipActions, PreviewBatch(a)
    PROVE  BatchInv'
<1> USE BatchAssumption
<1>1. BatchTypeOK'
  BY DEF BatchInv, BatchTypeOK, MembershipRecords, BatchRecords, ItemRecords, RequestRecords,
     PreviewBatch, Outcomes
<1>2. \A i \in Items : item'[i].outcome = "none" /\ item[i].outcome = "none"
  BY DEF BatchInv, NothingSettledBefore, PreviewBatch
<1>3. batch'.state = "previewed" /\ batch'.action = a /\ batch'.allowance = batch.allowance
  BY DEF BatchInv, BatchTypeOK, MembershipRecords, BatchRecords, ItemRecords, RequestRecords,
     PreviewBatch
<1>4. FailedItems' = {}
  BY <1>2 DEF FailedItems
<1>5. AllowanceHolds'
  <2>1. batch'.allowance \in Nat
    BY <1>1 DEF BatchTypeOK, MembershipRecords, BatchRecords, ItemRecords, RequestRecords
  <2>2. Cardinality(FailedItems') = 0
    BY <1>4, FS_EmptySet
  <2> QED
    BY <2>1, <2>2 DEF AllowanceHolds, FailedItems
<1>6. NothingSettledBefore' /\ HasItsAction' /\ AppliedOnce' /\ AnswerIsTheEnd' /\ AnswersTheEnd'
  BY <1>2, <1>3 DEF BatchInv, NothingSettledBefore, HasItsAction, AppliedOnce, AnswerIsTheEnd,
                    AnswersTheEnd, PreviewBatch
<1>7. HolderKnows'
  BY <1>3 DEF HolderKnows, Fence
<1> QED
  BY <1>1, <1>5, <1>6, <1>7 DEF BatchInv

(* The clock changes what may happen next, and nothing of what is recorded. *)
LEMMA ClockStep ==
    ASSUME BatchInv, Expire \/ LeaseGoesStale
    PROVE  BatchInv'
<1>1. BatchTypeOK'
  BY DEF BatchInv, BatchTypeOK, MembershipRecords, BatchRecords, ItemRecords, RequestRecords,
     Expire, LeaseGoesStale
<1>2. /\ UNCHANGED <<mem, item, applied, req, claim>>
      /\ batch'.state = batch.state /\ batch'.action = batch.action
      /\ batch'.allowance = batch.allowance /\ batch'.lease = batch.lease
  BY DEF BatchInv, BatchTypeOK, MembershipRecords, BatchRecords, ItemRecords, RequestRecords,
     Expire, LeaseGoesStale
<1>3. HolderKnows'
  BY <1>2, HolderUntouched DEF HolderKnows, Fence
<1>4. AnswersTheEnd' /\ AnswerIsTheEnd'
  BY <1>2, ItemsUntouched DEF BatchInv, AnswersTheEnd, AnswerIsTheEnd
<1> QED
  BY <1>1, <1>2, <1>3, <1>4, ItemsUntouched DEF BatchInv

(* What a request starts from is what is recorded. *)
LEMMA LoadedIsTyped ==
    ASSUME BatchInv
    PROVE  Loaded \in RequestRecords
<1>1. Cardinality(FailedItems) \in Nat
  BY ItemsCount DEF FailedItems
<1> QED
  BY <1>1 DEF Loaded, FailedItems, RequestRecords

(* The request that takes the lease, first or over, starts from what is recorded; with  *)
(* it, nobody else holds the lease.                                                     *)
LEMMA LeaseTaken ==
    ASSUME BatchInv, NEW r \in Requests,
           req' = [req EXCEPT ![r] = Loaded], UNCHANGED item, batch'.lease = r
    PROVE  HolderKnows'
<1>1. FailedItems' = FailedItems
  BY DEF FailedItems
<1>2. req'[r] = Loaded
  BY DEF BatchInv, BatchTypeOK, MembershipRecords, BatchRecords, ItemRecords, RequestRecords
<1>3. Cardinality(FailedItems) \in Nat
  BY ItemsCount DEF FailedItems
<1>4. HolderRunning(r)' /\ req'[r].at = "running"
  <2>1. /\ req'[r].at = "running" /\ req'[r].failures = Cardinality(FailedItems)
        /\ \A i \in req'[r].todo : ~item[i].refused /\ item[i].outcome = "none"
    <3> DEFINE open == {i \in Items : ~item[i].refused /\ item[i].outcome = "none"}
    <3>1. Loaded = [at |-> "running", failures |-> Cardinality(FailedItems), todo |-> open]
      BY DEF Loaded, FailedItems
    <3>2. \A i \in open : ~item[i].refused /\ item[i].outcome = "none"
      OBVIOUS
    <3> HIDE DEF open
    <3> QED
      BY <1>2, <3>1, <3>2
  <2> QED
    BY <1>1, <1>3, <2>1 DEF HolderRunning, StillOpen
<1>5. \A q \in Requests : Fence(q)' => q = r
  BY DEF Fence
<1> QED
  BY <1>4, <1>5 DEF HolderKnows

(* The first transaction of an execution. *)
LEMMA StartStep ==
    ASSUME BatchInv, NEW r \in Requests, NEW f \in 0..NItems, StartExecution(r, f)
    PROVE  BatchInv'
<1> USE BatchAssumption
<1>1. BatchTypeOK'
  BY LoadedIsTyped DEF BatchInv, BatchTypeOK, MembershipRecords, BatchRecords, ItemRecords,
     RequestRecords, StartExecution, ClaimKey
<1>2. /\ batch'.state = "executing" /\ batch'.action = batch.action
      /\ batch'.lease = r /\ batch'.allowance = f /\ batch.state = "previewed"
      /\ \A q \in Requests : q # r => req'[q] = req[q]
      /\ req'[r].at = "running"
      /\ claim' # "completed"
  BY DEF BatchInv, BatchTypeOK, MembershipRecords, BatchRecords, ItemRecords, RequestRecords,
     StartExecution, ClaimKey, Loaded, AnswerIsTheEnd
<1>3. FailedItems' = {}
  BY <1>2 DEF BatchInv, NothingSettledBefore, FailedItems, StartExecution
<1>4. AllowanceHolds'
  <2>1. Cardinality(FailedItems') = 0
    BY <1>3, FS_EmptySet
  <2> QED
    BY <2>1, <1>2 DEF AllowanceHolds, FailedItems
<1>5. HolderKnows'
  BY <1>2, LeaseTaken DEF StartExecution
<1>6. NothingSettledBefore' /\ HasItsAction' /\ AppliedOnce' /\ AnswerIsTheEnd' /\ AnswersTheEnd'
  BY <1>2 DEF BatchInv, NothingSettledBefore, HasItsAction, AppliedOnce, AnswerIsTheEnd,
              AnswersTheEnd, StartExecution
<1> QED
  BY <1>1, <1>4, <1>5, <1>6 DEF BatchInv

(* The lease taken over. *)
LEMMA ResumeStep ==
    ASSUME BatchInv, NEW r \in Requests, NEW f \in 0..NItems, ResumeExecution(r, f)
    PROVE  BatchInv'
<1> USE BatchAssumption
<1>1. BatchTypeOK'
  BY LoadedIsTyped DEF BatchInv, BatchTypeOK, MembershipRecords, BatchRecords, ItemRecords,
     RequestRecords, ResumeExecution, ClaimKey
<1>2. /\ batch'.state = batch.state /\ batch.state = "executing" /\ batch'.action = batch.action
      /\ batch'.lease = r /\ batch'.allowance = batch.allowance /\ batch.allowance \in Nat
      /\ \A q \in Requests : q # r => req'[q] = req[q]
      /\ req'[r].at = "running"
      /\ claim' # "completed"
      /\ UNCHANGED <<item, applied>>
  BY DEF BatchInv, BatchTypeOK, MembershipRecords, BatchRecords, ItemRecords, RequestRecords,
     ResumeExecution, ClaimKey, Loaded, AnswerIsTheEnd
<1>3. HolderKnows'
  BY <1>2, LeaseTaken DEF ResumeExecution
<1>4. AnswerIsTheEnd' /\ AnswersTheEnd'
  BY <1>2 DEF BatchInv, AnswerIsTheEnd, AnswersTheEnd
<1> QED
  BY <1>1, <1>2, <1>3, <1>4, ItemsUntouched DEF BatchInv

(* A request that begins to answer, or ends, or has its answer recorded, holds nothing. *)
LEMMA AnswerStep ==
    ASSUME BatchInv, NEW r \in Requests, AnswerFromBatch(r) \/ EndRequest(r) \/ RecordResponse(r)
    PROVE  BatchInv'
<1>1. BatchTypeOK'
  <2>1. NotRunning \in RequestRecords
    BY DEF NotRunning, RequestRecords
  <2>2. CASE AnswerFromBatch(r)
    BY <2>2 DEF BatchInv, BatchTypeOK, MembershipRecords, BatchRecords, ItemRecords,
       RequestRecords, AnswerFromBatch
  <2>3. CASE EndRequest(r)
    BY <2>1, <2>3 DEF BatchInv, BatchTypeOK, MembershipRecords, BatchRecords, ItemRecords,
       RequestRecords, EndRequest
  <2>4. CASE RecordResponse(r)
    BY <2>1, <2>4 DEF BatchInv, BatchTypeOK, MembershipRecords, BatchRecords, ItemRecords,
       RequestRecords, RecordResponse
  <2> QED
    BY <2>2, <2>3, <2>4
<1>2. /\ UNCHANGED <<batch, item, applied>>
      /\ \A q \in Requests : q # r => req'[q] = req[q]
      /\ req'[r].at \in {"idle", "answering"}
      /\ req'[r].at = "answering" => batch.state = "executed"
      /\ claim' = "completed" => batch.state = "executed"
  BY DEF BatchInv, BatchTypeOK, MembershipRecords, BatchRecords, ItemRecords, RequestRecords,
     AnswerFromBatch, EndRequest, RecordResponse, NotRunning,
         AnswersTheEnd, AnswerIsTheEnd
<1>3. ASSUME NEW q \in Requests, Fence(q)'
      PROVE  /\ req'[q].at = "running" => HolderRunning(q)'
             /\ req'[q].at = "failing" => HolderFailing(q)'
  <2>1. CASE q = r
    BY <1>2, <2>1
  <2>2. CASE q # r
    BY <1>2, <1>3, <2>2, HolderUntouched DEF Fence
  <2> QED
    BY <2>1, <2>2
<1>4. HolderKnows'
  BY <1>3 DEF HolderKnows
<1>5. AnswerIsTheEnd' /\ AnswersTheEnd'
  BY <1>2 DEF BatchInv, AnswerIsTheEnd, AnswersTheEnd
<1> QED
  BY <1>1, <1>2, <1>4, <1>5, ItemsUntouched DEF BatchInv

(* Anybody else's command touches no record of the batch. *)
LEMMA OtherStep ==
    ASSUME BatchInv, NEW i \in Items, NEW a \in MembershipActions, OtherChange(i, a)
    PROVE  BatchInv'
<1>1. BatchTypeOK'
  BY ActionLeads DEF BatchInv, BatchTypeOK, MembershipRecords, BatchRecords, ItemRecords,
     RequestRecords, OtherChange, Changed
<1>2. UNCHANGED <<batch, item, applied, req, claim>>
  BY DEF OtherChange
<1>3. HolderKnows'
  BY <1>2, HolderUntouched DEF HolderKnows, Fence
<1>4. AnswersTheEnd' /\ AnswerIsTheEnd'
  BY <1>2 DEF BatchInv, AnswersTheEnd, AnswerIsTheEnd
<1> QED
  BY <1>1, <1>2, <1>3, <1>4, ItemsUntouched DEF BatchInv

(* What the holder is about to do, it does to an open item. *)
LEMMA NextIsOpen ==
    ASSUME BatchInv, NEW r \in Requests, req[r].at = "running", Continues(r), Fence(r)
    PROVE  /\ NextItem(r) \in Items /\ NextItem(r) \in req[r].todo
           /\ StillOpen(NextItem(r))
           /\ HolderRunning(r)
           /\ req[r].failures \in Nat /\ req[r].failures <= batch.allowance
           /\ Cardinality(FailedItems) \in Nat
<1>1. req[r].todo \in SUBSET Items /\ req[r].todo # {} /\ req[r].failures \in Nat
  BY DEF BatchInv, BatchTypeOK, MembershipRecords, BatchRecords, ItemRecords, RequestRecords, Continues
<1>2. NextItem(r) \in req[r].todo
  BY <1>1, LeastIsOne DEF NextItem
<1>3. HolderRunning(r)
  BY DEF BatchInv, HolderKnows
<1>4. Cardinality(FailedItems) \in Nat
  BY ItemsCount DEF FailedItems
<1> QED
  BY <1>1, <1>2, <1>3, <1>4 DEF HolderRunning, Continues

(* An item applied is open before and succeeded after, in one step. *)
LEMMA ApplyStep ==
    ASSUME BatchInv, NEW r \in Requests, NEW at \in {"running", "failing"}, ApplyItem(r, at)
    PROVE  BatchInv'
<1> DEFINE i == NextItem(r)
<1> USE BatchAssumption
<1>1. /\ i \in Items /\ i \in req[r].todo /\ StillOpen(i) /\ HolderRunning(r)
      /\ req[r].failures \in Nat /\ req[r].failures <= batch.allowance
      /\ Cardinality(FailedItems) \in Nat
  BY NextIsOpen DEF ApplyItem
<1>2. batch.action \in MembershipActions /\ Fence(r) /\ batch.state = "executing"
      /\ batch.allowance \in Nat
  BY DEF BatchInv, BatchTypeOK, BatchRecords, HasItsAction, ApplyItem, Fence
<1> HIDE DEF i
<1>3. /\ mem' = [mem EXCEPT ![i] = Changed(@, batch.action)]
      /\ item' = [item EXCEPT ![i].outcome = "succeeded"]
      /\ applied' = [applied EXCEPT ![i] = @ + 1]
      /\ batch' = [batch EXCEPT !.live = TRUE]
      /\ UNCHANGED claim /\ req[r].at = "running"
  BY DEF ApplyItem, i
<1>4. PICK n : /\ n \in RequestRecords
               /\ req' = [req EXCEPT ![r] = n]
               /\ at = "running" => n.at = "running" /\ n.failures = req[r].failures
                                    /\ n.todo = req[r].todo \ {i}
               /\ at = "failing" => n.at = "failing" /\ n.failures = req[r].failures + 1
                                    /\ n.todo = req[r].todo
  <2> DEFINE one == [req[r] EXCEPT !.todo = req[r].todo \ {i}]
             two == [req[r] EXCEPT !.at = "failing", !.failures = req[r].failures + 1]
  <2>1. req[r] \in RequestRecords
    BY DEF BatchInv, BatchTypeOK
  <2>2. req' = [req EXCEPT ![r] = IF at = "running" THEN one ELSE two]
    BY DEF ApplyItem, i
  <2>3. /\ one \in RequestRecords
        /\ one.at = "running" /\ one.failures = req[r].failures /\ one.todo = req[r].todo \ {i}
    BY <1>3, <2>1 DEF RequestRecords
  <2>4. /\ two \in RequestRecords
        /\ two.at = "failing" /\ two.failures = req[r].failures + 1 /\ two.todo = req[r].todo
    <3>1. req[r].failures + 1 \in Nat
      BY <1>1
    <3> QED
      BY <2>1, <3>1 DEF RequestRecords
  <2> HIDE DEF one, two
  <2>5. CASE at = "running"
    BY <2>2, <2>3, <2>5
  <2>6. CASE at = "failing"
    BY <2>2, <2>4, <2>6
  <2> QED
    BY <2>5, <2>6
<1>5. BatchTypeOK'
  <2>1. MembershipTo(batch.action) \in MembershipStates
    BY <1>2, ActionLeads
  <2>2. mem' \in [Items -> MembershipRecords]
    BY <1>1, <1>3, <2>1 DEF BatchInv, BatchTypeOK, Changed, MembershipRecords
  <2>3. item' \in [Items -> ItemRecords]
    BY <1>1, <1>3 DEF BatchInv, BatchTypeOK, Outcomes, ItemRecords
  <2>4. req' \in [Requests -> RequestRecords]
    BY <1>4 DEF BatchInv, BatchTypeOK
  <2>5. applied' \in [Items -> Nat]
    <3>1. applied \in [Items -> Nat] /\ applied[i] + 1 \in Nat
      BY <1>1 DEF BatchInv, BatchTypeOK
    <3> QED
      BY <1>3, <3>1
  <2>6. batch' \in BatchRecords /\ claim' \in {"none", "pending", "completed"}
    BY <1>3 DEF BatchInv, BatchTypeOK, BatchRecords
  <2> QED
    BY <2>2, <2>3, <2>4, <2>5, <2>6 DEF BatchTypeOK
<1>6. /\ item'[i].outcome = "succeeded" /\ item'[i].refused = item[i].refused
      /\ \A j \in Items : j # i => item'[j] = item[j]
      /\ applied'[i] = applied[i] + 1
      /\ \A j \in Items : j # i => applied'[j] = applied[j]
      /\ batch'.state = "executing" /\ batch'.action = batch.action
      /\ batch'.allowance = batch.allowance /\ batch'.lease = batch.lease
      /\ req'[r] = n /\ \A q \in Requests : q # r => req'[q] = req[q]
  BY <1>1, <1>2, <1>3, <1>4 DEF BatchInv, BatchTypeOK, BatchRecords, ItemRecords
<1>7. FailedItems' = FailedItems
  BY <1>1, <1>6 DEF FailedItems, StillOpen
<1>8. AppliedOnce'
  BY <1>1, <1>6 DEF BatchInv, AppliedOnce, StillOpen
<1>9. AllowanceHolds'
  BY <1>6, <1>7 DEF BatchInv, AllowanceHolds, FailedItems
<1>10. \A j \in Items : j # i => (StillOpen(j)' <=> StillOpen(j))
  BY <1>6 DEF StillOpen
<1>11. ASSUME at = "running" PROVE HolderKnows' /\ AnswersTheEnd'
  <2>1. req'[r].at = "running" /\ req'[r].failures = req[r].failures
        /\ req'[r].todo = req[r].todo \ {i} /\ req[r].todo \subseteq Items
    BY <1>6, <1>4, <1>11 DEF BatchInv, BatchTypeOK, RequestRecords
  <2>2. HolderRunning(r)'
    BY <1>1, <1>7, <1>10, <2>1 DEF HolderRunning
  <2>3. HolderKnows'
    BY <1>2, <1>6, <2>1, <2>2 DEF HolderKnows, Fence
  <2>4. AnswersTheEnd'
    BY <1>2, <1>6, <2>1 DEF BatchInv, AnswersTheEnd
  <2> QED
    BY <2>3, <2>4
<1>12. ASSUME at = "failing" PROVE HolderKnows' /\ AnswersTheEnd'
  <2>1. req'[r].at = "failing" /\ req'[r].failures = req[r].failures + 1
        /\ req'[r].todo = req[r].todo /\ req[r].todo \subseteq Items
    BY <1>6, <1>4, <1>12 DEF BatchInv, BatchTypeOK, RequestRecords
  <2>2. NextItem(r)' = i
    BY <2>1 DEF NextItem, i
  <2>3. /\ req'[r].todo # {} /\ \A j \in req'[r].todo \ {i} : StillOpen(j)'
        /\ ~item'[i].refused
        /\ Cardinality(FailedItems') + 1 <= req'[r].failures
        /\ req'[r].failures <= batch'.allowance + 1
    BY <1>1, <1>2, <1>6, <1>7, <1>10, <2>1 DEF HolderRunning, StillOpen
  <2>4. HolderFailing(r)'
    BY <1>6, <2>2, <2>3 DEF HolderFailing
  <2>5. HolderKnows'
    BY <1>2, <1>6, <2>1, <2>4 DEF HolderKnows, Fence
  <2>6. AnswersTheEnd'
    BY <1>2, <1>6, <2>1 DEF BatchInv, AnswersTheEnd
  <2> QED
    BY <2>5, <2>6
<1>13. NothingSettledBefore' /\ HasItsAction' /\ AnswerIsTheEnd'
  BY <1>2, <1>3, <1>6 DEF BatchInv, NothingSettledBefore, HasItsAction, AnswerIsTheEnd
<1> QED
  BY <1>5, <1>8, <1>9, <1>11, <1>12, <1>13 DEF BatchInv

(* A failure in hand is not recorded yet. *)
LEMMA FailStep ==
    ASSUME BatchInv, NEW r \in Requests, FailItem(r)
    PROVE  BatchInv'
<1>1. /\ NextItem(r) \in Items /\ NextItem(r) \in req[r].todo /\ StillOpen(NextItem(r))
      /\ HolderRunning(r)
      /\ req[r].failures \in Nat /\ req[r].failures <= batch.allowance
      /\ Cardinality(FailedItems) \in Nat
  BY NextIsOpen DEF FailItem
<1>2. /\ UNCHANGED <<mem, batch, item, applied, claim>>
      /\ batch.allowance \in Nat /\ batch.state = "executing" /\ Fence(r)
      /\ req'[r].at = "failing" /\ req'[r].failures = req[r].failures + 1
      /\ req'[r].todo = req[r].todo
      /\ \A q \in Requests : q # r => req'[q] = req[q]
  BY BatchAssumption DEF BatchInv, BatchTypeOK, MembershipRecords, BatchRecords, ItemRecords,
     RequestRecords, FailItem, Fence
<1>3. BatchTypeOK'
  BY DEF BatchInv, BatchTypeOK, MembershipRecords, BatchRecords, ItemRecords, RequestRecords, FailItem
<1>4. FailedItems' = FailedItems /\ NextItem(r)' = NextItem(r)
      /\ \A j : StillOpen(j)' <=> StillOpen(j)
  BY <1>2 DEF FailedItems, NextItem, StillOpen
<1>5. HolderFailing(r)'
  <2>1. /\ req'[r].todo # {} /\ \A j \in req'[r].todo \ {NextItem(r)} : StillOpen(j)'
        /\ ~item'[NextItem(r)].refused /\ item'[NextItem(r)].outcome = "none"
        /\ Cardinality(FailedItems') + 1 <= req'[r].failures
        /\ req'[r].failures <= batch'.allowance + 1
    BY <1>1, <1>2, <1>4 DEF HolderRunning, StillOpen
  <2> QED
    BY <1>4, <2>1 DEF HolderFailing
<1>6. HolderKnows'
  BY <1>2, <1>5 DEF HolderKnows, Fence
<1>7. AnswersTheEnd' /\ AnswerIsTheEnd'
  BY <1>2 DEF BatchInv, AnswersTheEnd, AnswerIsTheEnd
<1> QED
  BY <1>2, <1>3, <1>6, <1>7, ItemsUntouched DEF BatchInv

(* The failure the holder has in hand is the next of its items, and within the allowance. *)
LEMMA FailingItem ==
    ASSUME BatchInv, NEW r \in Requests, req[r].at = "failing", Fence(r)
    PROVE  /\ NextItem(r) \in Items /\ NextItem(r) \in req[r].todo
           /\ HolderFailing(r)
           /\ req[r].failures \in Nat /\ batch.allowance \in Nat
           /\ Cardinality(FailedItems) \in Nat
           /\ Cardinality(FailedItems \cup {NextItem(r)}) \in Nat
           /\ Cardinality(FailedItems \cup {NextItem(r)}) <= Cardinality(FailedItems) + 1
<1>1. req[r].todo \in SUBSET Items /\ req[r].failures \in Nat /\ batch.allowance \in Nat
  BY BatchAssumption DEF BatchInv, BatchTypeOK, BatchRecords, RequestRecords
<1>2. HolderFailing(r)
  BY DEF BatchInv, HolderKnows
<1>3. NextItem(r) \in req[r].todo
  BY <1>1, <1>2, LeastIsOne DEF NextItem, HolderFailing
<1>4. Cardinality(FailedItems) \in Nat
      /\ \A x : Cardinality(FailedItems \cup {x})
                  = IF x \in FailedItems THEN Cardinality(FailedItems) ELSE Cardinality(FailedItems) + 1
  <2>1. FailedItems \in SUBSET Items
    BY DEF FailedItems
  <2> QED
    BY <2>1, ItemsCount
<1>5. /\ Cardinality(FailedItems \cup {NextItem(r)}) \in Nat
      /\ Cardinality(FailedItems \cup {NextItem(r)}) <= Cardinality(FailedItems) + 1
  BY <1>4
<1> QED
  BY <1>1, <1>2, <1>3, <1>4, <1>5

(* A recorded failure was counted when it was in hand. *)
LEMMA RecordFailedStep ==
    ASSUME BatchInv, NEW r \in Requests, RecordFailed(r)
    PROVE  BatchInv'
<1> DEFINE i == NextItem(r)
<1> USE BatchAssumption
<1>1. /\ i \in Items /\ i \in req[r].todo /\ HolderFailing(r)
      /\ req[r].failures \in Nat /\ batch.allowance \in Nat
      /\ Cardinality(FailedItems) \in Nat
      /\ Cardinality(FailedItems \cup {i}) \in Nat
      /\ Cardinality(FailedItems \cup {i}) <= Cardinality(FailedItems) + 1
  BY FailingItem DEF RecordFailed
<1>2. /\ \A j \in req[r].todo \ {i} : StillOpen(j)
      /\ item[i].outcome \in {"none", "succeeded"}
      /\ Cardinality(FailedItems) + 1 <= req[r].failures
      /\ req[r].failures <= batch.allowance + 1
  BY <1>1 DEF HolderFailing
<1> HIDE DEF i
<1>3. /\ item' = [item EXCEPT ![i].outcome = IF item[i].outcome = "none" THEN "failed" ELSE item[i].outcome]
      /\ batch' = [batch EXCEPT !.live = TRUE]
      /\ req' = [req EXCEPT ![r].at = "running", ![r].todo = @ \ {i}]
      /\ UNCHANGED <<mem, applied, claim>>
      /\ batch.state = "executing" /\ batch.lease = r
  BY DEF RecordFailed, Fence, i
<1>4. BatchTypeOK'
  <2>1. item' \in [Items -> ItemRecords]
    BY <1>1, <1>3 DEF BatchInv, BatchTypeOK, ItemRecords, Outcomes
  <2>2. req' \in [Requests -> RequestRecords]
    BY <1>1, <1>3 DEF BatchInv, BatchTypeOK, RequestRecords
  <2>3. batch' \in BatchRecords
    BY <1>3 DEF BatchInv, BatchTypeOK, BatchRecords
  <2> QED
    BY <1>3, <2>1, <2>2, <2>3 DEF BatchInv, BatchTypeOK
<1>5. /\ item'[i].outcome = IF item[i].outcome = "none" THEN "failed" ELSE item[i].outcome
      /\ \A j \in Items : j # i => item'[j] = item[j]
      /\ batch'.state = "executing" /\ batch'.action = batch.action
      /\ batch'.allowance = batch.allowance /\ batch'.lease = r
  BY <1>1, <1>3 DEF BatchInv, BatchTypeOK, BatchRecords, ItemRecords
<1>6. /\ req'[r].at = "running" /\ req'[r].todo = req[r].todo \ {i}
      /\ req'[r].failures = req[r].failures /\ req[r].todo \subseteq Items
      /\ \A q \in Requests : q # r => req'[q] = req[q]
  BY <1>3 DEF BatchInv, BatchTypeOK, RequestRecords
<1>7. FailedItems' = FailedItems \/ FailedItems' = FailedItems \cup {i}
  <2>1. CASE item[i].outcome = "none"
    BY <1>1, <1>5, <2>1 DEF FailedItems
  <2>2. CASE item[i].outcome = "succeeded"
    BY <1>1, <1>5, <2>2 DEF FailedItems
  <2> QED
    BY <1>2, <2>1, <2>2
<1>8. Cardinality(FailedItems') <= req[r].failures
      /\ Cardinality(FailedItems') <= batch.allowance + 1
  <2>1. Cardinality(FailedItems') \in Nat
    BY <1>1, <1>7
  <2>2. Cardinality(FailedItems') <= Cardinality(FailedItems) + 1
    <3>1. CASE FailedItems' = FailedItems
      BY ONLY <1>1, <3>1
    <3>2. CASE FailedItems' = FailedItems \cup {i}
      BY <1>1, <3>2
    <3> QED
      BY <1>7, <3>1, <3>2
  <2> QED
    BY <1>1, <1>2, <2>1, <2>2
<1>9. AllowanceHolds'
  BY <1>5, <1>8 DEF AllowanceHolds, FailedItems
<1>10. AppliedOnce'
  BY <1>1, <1>2, <1>3, <1>5 DEF BatchInv, AppliedOnce
<1>11. HolderRunning(r)'
  <2>1. \A j \in Items : j # i => (StillOpen(j)' <=> StillOpen(j))
    BY <1>5 DEF StillOpen
  <2> QED
    BY <1>2, <1>6, <1>8, <2>1 DEF HolderRunning
<1>12. HolderKnows'
  BY <1>5, <1>6, <1>11 DEF HolderKnows, Fence
<1>13. NothingSettledBefore' /\ HasItsAction' /\ AnswerIsTheEnd' /\ AnswersTheEnd'
  BY <1>3, <1>5, <1>6 DEF BatchInv, NothingSettledBefore, HasItsAction, AnswerIsTheEnd, AnswersTheEnd
<1> QED
  BY <1>4, <1>9, <1>10, <1>12, <1>13 DEF BatchInv

(* Completion settles what was not attempted, and ends the batch. *)
LEMMA CompleteStep ==
    ASSUME BatchInv, NEW r \in Requests, CompleteExecution(r)
    PROVE  BatchInv'
<1> USE BatchAssumption
<1>1. /\ batch' = [batch EXCEPT !.state = "executed", !.live = TRUE]
      /\ item' = [i \in Items |-> IF item[i].outcome = "none"
                                  THEN [item[i] EXCEPT !.outcome = "not_attempted"] ELSE item[i]]
      /\ req' = [req EXCEPT ![r].at = "answering"]
      /\ UNCHANGED <<mem, applied, claim>>
      /\ batch.state = "executing"
  BY DEF CompleteExecution, Fence
<1>2. BatchTypeOK'
  <2>1. item' \in [Items -> ItemRecords]
    BY <1>1 DEF BatchInv, BatchTypeOK, ItemRecords, Outcomes
  <2>2. req' \in [Requests -> RequestRecords]
    BY <1>1 DEF BatchInv, BatchTypeOK, RequestRecords
  <2>3. batch' \in BatchRecords
    BY <1>1 DEF BatchInv, BatchTypeOK, BatchRecords
  <2> QED
    BY <1>1, <2>1, <2>2, <2>3 DEF BatchInv, BatchTypeOK
<1>3. batch'.state = "executed" /\ batch'.action = batch.action /\ batch'.allowance = batch.allowance
  BY <1>1 DEF BatchInv, BatchTypeOK, BatchRecords
<1>4. \A i \in Items : item'[i].outcome
                         = IF item[i].outcome = "none" THEN "not_attempted" ELSE item[i].outcome
  BY <1>1 DEF BatchInv, BatchTypeOK, ItemRecords
<1>5. FailedItems' = FailedItems
  BY <1>4 DEF FailedItems
<1>6. AllowanceHolds'
  BY <1>3, <1>5 DEF BatchInv, AllowanceHolds, FailedItems
<1>7. AppliedOnce'
  BY <1>1, <1>4 DEF BatchInv, AppliedOnce
<1>8. HolderKnows' /\ AnswersTheEnd'
  BY <1>3 DEF HolderKnows, AnswersTheEnd, Fence
<1>9. NothingSettledBefore' /\ HasItsAction' /\ AnswerIsTheEnd'
  BY <1>1, <1>3, <1>4 DEF BatchInv, NothingSettledBefore, HasItsAction, AnswerIsTheEnd
<1> QED
  BY <1>2, <1>6, <1>7, <1>8, <1>9 DEF BatchInv

(* Every step keeps the invariant. *)
LEMMA BatchInvStep == BatchInv /\ [BatchNext]_batchVars => BatchInv'
<1> SUFFICES ASSUME BatchInv, [BatchNext]_batchVars PROVE BatchInv'
  OBVIOUS
<1>1. CASE UNCHANGED batchVars
  <2>1. UNCHANGED <<mem, batch, item, applied, req, claim>>
    BY <1>1 DEF batchVars
  <2>2. HolderKnows'
    BY <2>1, HolderUntouched DEF HolderKnows, Fence
  <2>3. AnswersTheEnd' /\ AnswerIsTheEnd' /\ BatchTypeOK'
    BY <2>1 DEF BatchInv, AnswersTheEnd, AnswerIsTheEnd, BatchTypeOK
  <2> QED
    BY <2>1, <2>2, <2>3, ItemsUntouched DEF BatchInv
<1>2. CASE \E a \in MembershipActions : PreviewBatch(a)
  BY <1>2, PreviewStep
<1>3. CASE Expire \/ LeaseGoesStale
  BY <1>3, ClockStep
<1>4. CASE \E r \in Requests, f \in 0..NItems : StartExecution(r, f) \/ ResumeExecution(r, f)
  BY <1>4, StartStep, ResumeStep
<1>5. CASE \E r \in Requests, at \in {"running", "failing"} : ApplyItem(r, at)
  BY <1>5, ApplyStep
<1>6. ASSUME NEW r \in Requests,
             \/ AnswerFromBatch(r) \/ FailItem(r) \/ RecordFailed(r) \/ CompleteExecution(r)
             \/ EndRequest(r) \/ RecordResponse(r)
      PROVE  BatchInv'
  BY <1>6, AnswerStep, FailStep, RecordFailedStep, CompleteStep
<1>7. CASE \E i \in Items, a \in MembershipActions : OtherChange(i, a)
  BY <1>7, OtherStep
<1> QED
  BY <1>1, <1>2, <1>3, <1>4, <1>5, <1>6, <1>7 DEF BatchNext

-----------------------------------------------------------------------------
(* However requests compete for the lease, die and are sent again, the holder's beliefs *)
(* stay true and nothing is recorded that contradicts them.                             *)
THEOREM BatchInvariant == BatchSpec => []BatchInv
  BY BatchInvInit, BatchInvStep, PTL DEF BatchSpec

(* AppliedOnce: no item's transition is committed twice, and it is recorded succeeded   *)
(* exactly when it was (executeItem commits both under the lease).                      *)
THEOREM ItemsAppliedOnce == BatchSpec => []AppliedOnce
<1>1. BatchInv => AppliedOnce
  BY DEF BatchInv
<1> QED
  BY <1>1, BatchInvariant, PTL

(* AllowanceHolds: over every request that executed the batch, at most one failure more *)
(* than fail_on_errors is recorded.                                                     *)
THEOREM FailuresWithinAllowance == BatchSpec => []AllowanceHolds
<1>1. BatchInv => AllowanceHolds
  BY DEF BatchInv
<1> QED
  BY <1>1, BatchInvariant, PTL

(* AnswerIsTheEnd: the response recorded under the key is the executed batch, with      *)
(* every item settled.                                                                  *)
THEOREM AnswerIsFinal == BatchSpec => []AnswerIsTheEnd
<1>1. BatchInv => AnswerIsTheEnd
  BY DEF BatchInv
<1> QED
  BY <1>1, BatchInvariant, PTL

-----------------------------------------------------------------------------
(* A step that settles an item is a step of the lease's holder. *)
LEMMA SettledByHolder ==
    ASSUME BatchInv, [BatchNext]_batchVars,
           \E i \in Items : item'[i].outcome # item[i].outcome
    PROVE  \E r \in Requests : batch.lease = r /\ req'[r] # req[r]
<1>1. UNCHANGED item => FALSE
  OBVIOUS
<1>2. ~UNCHANGED batchVars
  BY <1>1 DEF batchVars
<1>3. ASSUME NEW a \in MembershipActions, PreviewBatch(a)
      PROVE  FALSE
  BY <1>3 DEF BatchInv, NothingSettledBefore, PreviewBatch
<1>4. ~(Expire \/ LeaseGoesStale)
  BY <1>1 DEF Expire, LeaseGoesStale
<1>5. ASSUME NEW r \in Requests, NEW f \in 0..NItems, StartExecution(r, f) \/ ResumeExecution(r, f)
      PROVE  FALSE
  BY <1>1, <1>5 DEF StartExecution, ResumeExecution
<1>6. ASSUME NEW r \in Requests, NEW at \in {"running", "failing"}, ApplyItem(r, at)
      PROVE  batch.lease = r /\ req'[r] # req[r]
  <2>1. /\ NextItem(r) \in req[r].todo /\ req[r].at = "running" /\ batch.lease = r
        /\ req[r] \in RequestRecords /\ req \in [Requests -> RequestRecords]
    BY <1>6, NextIsOpen DEF ApplyItem, Fence, BatchInv, BatchTypeOK
  <2> DEFINE one == [req[r] EXCEPT !.todo = req[r].todo \ {NextItem(r)}]
             two == [req[r] EXCEPT !.at = "failing", !.failures = req[r].failures + 1]
  <2>2. req' = [req EXCEPT ![r] = IF at = "running" THEN one ELSE two]
    BY <1>6 DEF ApplyItem
  <2>3. one.todo = req[r].todo \ {NextItem(r)} /\ two.at = "failing"
    BY <2>1 DEF RequestRecords
  <2> HIDE DEF one, two
  <2>4. req'[r] = one \/ req'[r] = two
    BY <2>1, <2>2
  <2> QED
    BY <2>1, <2>3, <2>4
<1>7. ASSUME NEW r \in Requests, RecordFailed(r)
      PROVE  batch.lease = r /\ req'[r] # req[r]
  <2>1. req[r].at = "failing" /\ batch.lease = r /\ req'[r].at = "running"
    BY <1>7 DEF RecordFailed, Fence, BatchInv, BatchTypeOK, RequestRecords
  <2> QED
    BY <2>1
<1>8. ASSUME NEW r \in Requests, CompleteExecution(r)
      PROVE  batch.lease = r /\ req'[r] # req[r]
  <2>1. req[r].at = "running" /\ batch.lease = r /\ req'[r].at = "answering"
    BY <1>8 DEF CompleteExecution, Fence, BatchInv, BatchTypeOK, RequestRecords
  <2> QED
    BY <2>1
<1>9. ASSUME NEW r \in Requests, AnswerFromBatch(r) \/ FailItem(r) \/ EndRequest(r) \/ RecordResponse(r)
      PROVE  FALSE
  BY <1>1, <1>9 DEF AnswerFromBatch, FailItem, EndRequest, RecordResponse
<1>10. ASSUME NEW i \in Items, NEW a \in MembershipActions, OtherChange(i, a)
      PROVE  FALSE
  BY <1>1, <1>10 DEF OtherChange
<1> QED
  BY <1>2, <1>3, <1>4, <1>5, <1>6, <1>7, <1>8, <1>9, <1>10 DEF BatchNext

(* OnlyTheHolderSettles: a request whose lease was taken over settles nothing more,     *)
(* however long it runs (the fence of every transaction of ExecuteBatch).               *)
THEOREM HolderSettles == BatchSpec => OnlyTheHolderSettles
<1>1. BatchInv /\ [BatchNext]_batchVars =>
        [(\E i \in Items : item'[i].outcome # item[i].outcome) =>
            \E r \in Requests : batch.lease = r /\ req'[r] # req[r]]_batchVars
  BY SettledByHolder
<1> QED
  BY <1>1, BatchInvariant, PTL DEF BatchSpec, OnlyTheHolderSettles

-----------------------------------------------------------------------------
(* The contract begins where the batch does. *)
LEMMA ContractInitially == BatchInit => Contract!ContractInit
  BY DEF BatchInit, Contract!ContractInit, NoBatch, NoLimit, Items, Contract!Items,
         NoItem, Contract!NoItem, StartingMembership, Contract!StartingMembership

(* A step of a request is a step of the contract, or none of its business. *)
LEMMA ContractStep ==
    ASSUME BatchInv, [BatchNext]_batchVars
    PROVE  Contract!ContractNext
             \/ UNCHANGED <<mem, batch.action, batch.state, batch.allowance, item>>
<1> DEFINE Hidden == UNCHANGED <<mem, batch.action, batch.state, batch.allowance, item>>
<1> USE BatchAssumption
<1>1. CASE UNCHANGED batchVars
  BY <1>1 DEF batchVars
<1>2. ASSUME NEW a \in MembershipActions, PreviewBatch(a)
      PROVE  Contract!ContractNext
  <2>1. Contract!Preview(a)
    <3>1. batch'.action = a /\ batch'.state = "previewed" /\ batch'.allowance = batch.allowance
      BY <1>2 DEF PreviewBatch, BatchInv, BatchTypeOK, BatchRecords
    <3> QED
      BY <1>2, <3>1 DEF PreviewBatch, Contract!Preview, Items, Contract!Items, MembershipFrom,
                        Contract!MembershipFrom
  <2> QED
    BY <2>1 DEF Contract!ContractNext, MembershipActions, Contract!MembershipActions
<1>3. CASE Expire \/ LeaseGoesStale
  BY <1>3 DEF Expire, LeaseGoesStale, BatchInv, BatchTypeOK, BatchRecords
<1>4. ASSUME NEW r \in Requests, NEW f \in 0..NItems, StartExecution(r, f)
      PROVE  Contract!ContractNext
  <2>1. /\ batch'.action = batch.action /\ batch'.state = "executing" /\ batch'.allowance = f
        /\ batch.state = "previewed" /\ UNCHANGED <<mem, item>>
    BY <1>4 DEF StartExecution, BatchInv, BatchTypeOK, BatchRecords
  <2>2. Contract!Start(f)
    BY <2>1 DEF Contract!Start
  <2> QED
    BY <2>2 DEF Contract!ContractNext
<1>5. ASSUME NEW r \in Requests, NEW f \in 0..NItems, ResumeExecution(r, f)
      PROVE  Hidden
  BY <1>5 DEF ResumeExecution, BatchInv, BatchTypeOK, BatchRecords
<1>6. ASSUME NEW r \in Requests, NEW at \in {"running", "failing"}, ApplyItem(r, at)
      PROVE  Contract!ContractNext
  <2>1. PICK i \in Items : i = NextItem(r) /\ StillOpen(i)
    BY <1>6, NextIsOpen DEF ApplyItem
  <2>2. /\ batch'.action = batch.action /\ batch'.state = batch.state
        /\ batch'.allowance = batch.allowance /\ batch.state = "executing"
    BY <1>6 DEF ApplyItem, Fence, BatchInv, BatchTypeOK, BatchRecords
  <2>3. /\ mem' = [mem EXCEPT ![i] = Changed(@, batch.action)]
        /\ item' = [item EXCEPT ![i].outcome = "succeeded"]
        /\ Decided(i)
    BY <1>6, <2>1 DEF ApplyItem
  <2>4. Contract!Succeed(i)
    BY <2>1, <2>2, <2>3 DEF Contract!Succeed, Contract!Open, StillOpen, Decided, Changed,
       Contract!Changed, MembershipFrom, Contract!MembershipFrom, MembershipTo, Contract!MembershipTo
  <2> QED
    BY <2>4 DEF Contract!ContractNext, Items, Contract!Items
<1>7. ASSUME NEW r \in Requests, RecordFailed(r)
      PROVE  Contract!ContractNext \/ Hidden
  <2>1. PICK i \in Items : i = NextItem(r)
    BY <1>7, FailingItem DEF RecordFailed
  <2>2. /\ HolderFailing(r) /\ Cardinality(FailedItems) \in Nat
        /\ req[r].failures \in Nat /\ batch.allowance \in Nat
    BY <1>7, FailingItem DEF RecordFailed
  <2>3. /\ ~item[i].refused /\ item[i].outcome \in {"none", "succeeded"}
        /\ Cardinality(FailedItems) <= batch.allowance
    BY <2>1, <2>2 DEF HolderFailing
  <2>4. /\ batch'.action = batch.action /\ batch'.state = batch.state
        /\ batch'.allowance = batch.allowance /\ batch.state = "executing" /\ UNCHANGED mem
    BY <1>7 DEF RecordFailed, Fence, BatchInv, BatchTypeOK, BatchRecords
  <2>5. item' = [item EXCEPT ![i].outcome = IF item[i].outcome = "none" THEN "failed"
                                            ELSE item[i].outcome]
    BY <1>7, <2>1 DEF RecordFailed
  <2>6. CASE item[i].outcome = "none"
    <3>1. item' = [item EXCEPT ![i].outcome = "failed"]
      BY <2>5, <2>6
    <3>2. Contract!Failed = FailedItems
      BY DEF Contract!Failed, FailedItems, Items, Contract!Items
    <3>3. Contract!Cardinality(Contract!Failed) <= batch.allowance
      <4>1. \A S : Contract!Cardinality(S) = Cardinality(S)
        BY DEF Cardinality, Contract!Cardinality
      <4> QED
        BY <2>3, <3>2, <4>1
    <3>4. Contract!Fail(i)
      BY <2>3, <2>4, <2>6, <3>1, <3>3 DEF Contract!Fail, Contract!Open
    <3> QED
      BY <3>4 DEF Contract!ContractNext, Items, Contract!Items
  <2>7. CASE item[i].outcome = "succeeded"
    <3>1. item' = item
      BY <2>5, <2>7 DEF BatchInv, BatchTypeOK, ItemRecords
    <3> QED
      BY <2>4, <3>1
  <2> QED
    BY <2>3, <2>6, <2>7
<1>8. ASSUME NEW r \in Requests, CompleteExecution(r)
      PROVE  Contract!ContractNext
  <2>1. /\ batch'.action = batch.action /\ batch'.state = "executed"
        /\ batch'.allowance = batch.allowance /\ batch.state = "executing"
    BY <1>8 DEF CompleteExecution, Fence, BatchInv, BatchTypeOK, BatchRecords
  <2>2. Contract!Finish
    BY <1>8, <2>1 DEF CompleteExecution, Contract!Finish, Items, Contract!Items
  <2> QED
    BY <2>2 DEF Contract!ContractNext
<1>9. ASSUME NEW r \in Requests, AnswerFromBatch(r) \/ FailItem(r) \/ EndRequest(r) \/ RecordResponse(r)
      PROVE  Hidden
  BY <1>9 DEF AnswerFromBatch, FailItem, EndRequest, RecordResponse
<1>10. ASSUME NEW i \in Items, NEW a \in MembershipActions, OtherChange(i, a)
      PROVE  Contract!ContractNext
  <2>1. Contract!OtherChange(i, a)
    BY <1>10 DEF OtherChange, Contract!OtherChange, MembershipFrom, Contract!MembershipFrom,
                 Changed, Contract!Changed, MembershipTo, Contract!MembershipTo
  <2> QED
    BY <2>1 DEF Contract!ContractNext, Items, Contract!Items, MembershipActions,
                Contract!MembershipActions
<1> QED
  BY <1>1, <1>2, <1>3, <1>4, <1>5, <1>6, <1>7, <1>8, <1>9, <1>10 DEF BatchNext

(* ImplementsContract: leases, requests, keys and the clock hidden, every step of an    *)
(* execution is a step of the contract: an item settled once, from the version its      *)
(* preview read, within the allowance, and an executed batch final.                     *)
THEOREM BatchImplementsContract == BatchSpec => ImplementsContract
<1>1. BatchInv /\ [BatchNext]_batchVars => [Contract!ContractNext]_(Contract!contractVars)
  BY ContractStep DEF Contract!contractVars
<1> QED
  BY <1>1, BatchInvariant, ContractInitially, PTL
     DEF BatchSpec, ImplementsContract, Contract!ContractSpec
=============================================================================
