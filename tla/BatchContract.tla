--------------------------- MODULE BatchContract ---------------------------
(***************************************************************************)
(* What a Membership batch promises whoever reads it, whatever requests    *)
(* executed it, died, were sent again or overlapped: each item is settled  *)
(* once; an item that succeeded changed its Membership in that same step,  *)
(* from the version its preview read; at most one failure more than the    *)
(* allowance is recorded; an executed batch is settled and stays so.       *)
(*                                                                         *)
(* MembershipBatch is shown to implement this specification.               *)
(***************************************************************************)
EXTENDS Lifecycle, FiniteSets

CONSTANTS NItems, MaxVersion

VARIABLES
    mem,         \* status and membership_version of the Membership each item names
    action,      \* the batch's action
    state,       \* "none", "previewed", "executing" or "executed"
    allowance,   \* fail_on_errors; NItems when there is none
    item         \* version read, refusal and outcome of each item

contractVars == <<mem, action, state, allowance, item>>

Items == 1..NItems

NoItem == [read |-> 0, refused |-> FALSE, outcome |-> "none"]

Failed == {i \in Items : item[i].outcome = "failed"}

(* A Membership is granted at version 1, suspended at 2, revoked at 2 or later. *)
StartingMembership == [status : {"active"}, version : {1}]
                        \cup [status : {"suspended", "revoked"}, version : {2}]

ContractInit ==
    /\ mem \in [Items -> StartingMembership]
    /\ action = "none" /\ state = "none" /\ allowance = NItems
    /\ item = [i \in Items |-> NoItem]

(* What the action makes of a Membership. *)
Changed(m, a) == [status |-> MembershipTo(a), version |-> m.version + 1]

Preview(a) ==
    /\ state = "none"
    /\ action' = a /\ state' = "previewed"
    /\ item' = [i \in Items |-> [read |-> mem[i].version,
                                 refused |-> mem[i].status \notin MembershipFrom(a),
                                 outcome |-> "none"]]
    /\ UNCHANGED <<mem, allowance>>

Start(f) ==
    /\ state = "previewed"
    /\ state' = "executing" /\ allowance' = f
    /\ UNCHANGED <<mem, action, item>>

(* An item open to execution. *)
Open(i) == state = "executing" /\ ~item[i].refused /\ item[i].outcome = "none"

Succeed(i) ==
    /\ Open(i)
    /\ mem[i].version = item[i].read /\ mem[i].status \in MembershipFrom(action)
    /\ mem' = [mem EXCEPT ![i] = Changed(@, action)]
    /\ item' = [item EXCEPT ![i].outcome = "succeeded"]
    /\ UNCHANGED <<action, state, allowance>>

Fail(i) ==
    /\ Open(i)
    /\ Cardinality(Failed) <= allowance
    /\ item' = [item EXCEPT ![i].outcome = "failed"]
    /\ UNCHANGED <<mem, action, state, allowance>>

Finish ==
    /\ state = "executing"
    /\ state' = "executed"
    /\ item' = [i \in Items |-> IF item[i].outcome = "none"
                                THEN [item[i] EXCEPT !.outcome = "not_attempted"] ELSE item[i]]
    /\ UNCHANGED <<mem, action, allowance>>

(* Anybody else's command on one of the Memberships. *)
OtherChange(i, a) ==
    /\ mem[i].status \in MembershipFrom(a)
    /\ mem[i].version < MaxVersion
    /\ mem' = [mem EXCEPT ![i] = Changed(@, a)]
    /\ UNCHANGED <<action, state, allowance, item>>

ContractNext ==
    \/ \E a \in MembershipActions : Preview(a)
    \/ \E f \in 0..NItems : Start(f)
    \/ \E i \in Items : Succeed(i) \/ Fail(i)
    \/ Finish
    \/ \E i \in Items, a \in MembershipActions : OtherChange(i, a)

ContractSpec == ContractInit /\ [][ContractNext]_contractVars
==============================================================================
