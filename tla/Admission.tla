------------------------------ MODULE Admission ------------------------------
(***************************************************************************)
(* The ways into one Tenant, and what runs beside them: invitations        *)
(* (internal/invitation), Workspaces (internal/workspace), administration  *)
(* grants (internal/authority/tenantadmin.go), and the idempotency claim an*)
(* acceptance is sent under (internal/db/idempotency.go).                  *)
(*                                                                         *)
(* An acceptance reads the invitation, asks the Identity Control API, and  *)
(* only then opens the transaction that claims its key, locks the          *)
(* invitation and grants.  That transaction, a provider's grant of         *)
(* administration and a Workspace's retirement judge rows that others may  *)
(* change before they commit, so each is a locking step and a commit.  The *)
(* answer to any request may be lost, and the request sent again.          *)
(***************************************************************************)
EXTENDS Lifecycle, FiniteSets

CONSTANTS
    Principals,    \* people
    Invitations,   \* identifiers for invitations, each with its token
    Memberships,   \* identifiers for Memberships
    Workspaces,    \* the Tenant's Workspaces
    Targets,       \* invited addresses
    Requests,      \* requests in flight at one time
    Keys,          \* Idempotency-Keys a person may send
    TenantMoves,   \* the Tenant's transitions that may happen meanwhile
    TTL,           \* ticks an invitation lives
    MaxClock,      \* bound on time
    TenantWide,    \* the context of a Membership outside any Workspace
    NoOne          \* no principal, invitation, Membership, target or key

ASSUME AdmissionAssumption ==
    /\ TenantMoves \subseteq TenantActions \ ProvisioningActions
    /\ TTL \in Nat /\ MaxClock \in Nat
    /\ TenantWide \notin Workspaces
    /\ NoOne \notin Principals \cup Invitations \cup Memberships \cup Targets \cup Keys

VARIABLES
    clock,           \* the time
    tenantStatus,    \* tenant.tenant.status
    workspace,       \* workspace.workspace.status of each Workspace
    retiring,        \* Workspaces whose retirement has counted and not committed
    invitation,      \* invitation.invitation
    membership,      \* membership.membership
    administrators,  \* principals with a tenant administration grant in force
    claim,           \* platform.idempotency_key: the acceptance a key completed
    request          \* acceptances and grants of administration in flight

admissionVars == <<clock, tenantStatus, workspace, retiring, invitation, membership,
                   administrators, claim, request>>

Contexts == Workspaces \cup {TenantWide}

NoInvitation == [state |-> "none", target |-> NoOne, context |-> TenantWide, expires |-> 0,
                 by |-> NoOne]
NoMembership == [status |-> "none", holder |-> NoOne, context |-> TenantWide, from |-> NoOne,
                 late |-> FALSE]
Idle == [step |-> "idle", by |-> NoOne, inv |-> NoOne, key |-> NoOne, at |-> 0,
         locked |-> NoOne, retry |-> FALSE, answer |-> "none"]

AdmissionInit ==
    /\ clock = 0
    /\ tenantStatus = "active"
    /\ workspace = [w \in Workspaces |-> "none"]
    /\ retiring = {}
    /\ invitation = [i \in Invitations |-> NoInvitation]
    /\ membership = [m \in Memberships |-> NoMembership]
    /\ administrators = {}
    /\ claim = [p \in Principals |-> [k \in Keys |-> NoOne]]
    /\ request = [r \in Requests |-> Idle]

(* membership_active_unique. *)
ActiveIn(p, c) ==
    {m \in Memberships : membership[m].status = "active" /\ membership[m].holder = p
                            /\ membership[m].context = c}

InWorkspace(w) ==
    {m \in Memberships : membership[m].context = w /\ membership[m].status \notin {"none", "revoked"}}

(* No request in flight holds row x, a Membership or an invitation. *)
Free(x) == \A r \in Requests : request[r].locked # x

-----------------------------------------------------------------------------

(* The Tenant is suspended, offboarded and restored as its own modules say. *)
TenantTransition(a) ==
    /\ tenantStatus \in TenantFrom(a)
    /\ tenantStatus' = TenantTo(a)
    /\ UNCHANGED <<clock, workspace, retiring, invitation, membership, administrators, claim,
                   request>>

CreateWorkspace(w) ==
    /\ workspace[w] = "none"
    /\ workspace' = [workspace EXCEPT ![w] = "active"]
    /\ UNCHANGED <<clock, tenantStatus, retiring, invitation, membership, administrators, claim,
                   request>>

(* Mutant: the Workspace is read without FOR UPDATE. *)
RowNeverWaits(c) == TRUE

(* An insert that references a Workspace, and a transition of it, wait for the lock a   *)
(* retirement in flight holds on its row.                                               *)
RowUnlocked(c) == c \notin retiring

(* Archive and Restore: one locked row decides. *)
MoveWorkspace(w, from, to) ==
    /\ workspace[w] = from /\ RowUnlocked(w)
    /\ workspace' = [workspace EXCEPT ![w] = to]
    /\ UNCHANGED <<clock, tenantStatus, retiring, invitation, membership, administrators, claim,
                   request>>

(* Retire: the Workspace is locked, and the Memberships that reference it counted. *)
RetireLock(w) ==
    /\ workspace[w] = "archived" /\ w \notin retiring
    /\ InWorkspace(w) = {}
    /\ retiring' = retiring \cup {w}
    /\ UNCHANGED <<clock, tenantStatus, workspace, invitation, membership, administrators, claim,
                   request>>

RetireEnd(w, to) ==
    /\ w \in retiring
    /\ workspace' = [workspace EXCEPT ![w] = to]
    /\ retiring' = retiring \ {w}
    /\ UNCHANGED <<clock, tenantStatus, invitation, membership, administrators, claim, request>>

-----------------------------------------------------------------------------

(* GrantWithin: an active Membership, unless the unique index refuses it.  No status of *)
(* the Workspace is looked at.                                                          *)
GrantWithin(m, p, c, from) ==
    /\ membership[m] = NoMembership
    /\ ActiveIn(p, c) = {}
    /\ RowUnlocked(c)
    /\ c \in Workspaces => workspace[c] # "none"
    /\ membership' = [membership EXCEPT ![m] =
          [status |-> "active", holder |-> p, context |-> c, from |-> from,
           late |-> c \in Workspaces /\ workspace[c] = "retired"]]

(* POST /v1/memberships, by an administrator. *)
GrantMembership(m, p, c) ==
    /\ GrantWithin(m, p, c, NoOne)
    /\ UNCHANGED <<clock, tenantStatus, workspace, retiring, invitation, administrators, claim,
                   request>>

(* Suspend, restore and revoke, on the locked row. *)
MembershipTransition(m, a) ==
    /\ Free(m)
    /\ membership[m].status \in MembershipFrom(a)
    /\ a = "restore" => ActiveIn(membership[m].holder, membership[m].context) = {}
    /\ membership' = [membership EXCEPT ![m].status = MembershipTo(a)]
    /\ UNCHANGED <<clock, tenantStatus, workspace, retiring, invitation, administrators, claim,
                   request>>

-----------------------------------------------------------------------------

(* Issue: invitation_pending_unique admits one outstanding per target and context. *)
Issue(i, target, c) ==
    /\ invitation[i] = NoInvitation
    /\ c \in Workspaces => workspace[c] # "none" /\ RowUnlocked(c)
    /\ \A j \in Invitations :
          ~(invitation[j].state = "pending" /\ invitation[j].target = target
               /\ invitation[j].context = c)
    /\ invitation' = [invitation EXCEPT ![i] =
          [state |-> "pending", target |-> target, context |-> c, expires |-> clock + TTL,
           by |-> NoOne]]
    /\ UNCHANGED <<clock, tenantStatus, workspace, retiring, membership, administrators, claim,
                   request>>

(* Revoke, by the inviter: it waits for whoever holds the row. *)
Revoke(i) ==
    /\ invitation[i].state = "pending" /\ Free(i)
    /\ invitation' = [invitation EXCEPT ![i].state = "revoked"]
    /\ UNCHANGED <<clock, tenantStatus, workspace, retiring, membership, administrators, claim,
                   request>>

(* ExpireLapsed, on the route and on its schedule: each row past its expiry, but for    *)
(* those somebody holds locked, which a later run takes.                                *)
ExpireLapsed(i) ==
    /\ invitation[i].state = "pending" /\ invitation[i].expires <= clock
    /\ Free(i)
    /\ invitation' = [invitation EXCEPT ![i].state = "expired"]
    /\ UNCHANGED <<clock, tenantStatus, workspace, retiring, membership, administrators, claim,
                   request>>

-----------------------------------------------------------------------------

Step(r, step) == request' = [request EXCEPT ![r].step = step]

Answered(r, answer) ==
    request' = [request EXCEPT ![r] =
                  [Idle EXCEPT !.step = "answered", !.retry = request[r].retry, !.answer = answer]]

(* Accept, 1 and 2: the row the token names, read before the key is looked at. *)
ReadByToken(r, p, i, k) ==
    LET asked == [Idle EXCEPT !.by = p, !.inv = i, !.key = k, !.at = clock,
                              !.retry = (claim[p][k] = i)]
        redeemable == invitation[i].state = "pending" /\ clock < invitation[i].expires
    IN  /\ request[r] = Idle
        /\ invitation[i] # NoInvitation
        /\ request' = [request EXCEPT ![r] =
              IF redeemable THEN [asked EXCEPT !.step = "matching"]
              ELSE [Idle EXCEPT !.step = "answered", !.retry = asked.retry, !.answer = "refused"]]
        /\ UNCHANGED <<clock, tenantStatus, workspace, retiring, invitation, membership,
                       administrators, claim>>

(* Accept, 3: the Identity Control API says yes or no, or cannot be asked. *)
Match(r, says) ==
    /\ request[r].step = "matching"
    /\ IF says = "yes" THEN Step(r, "matched") ELSE Answered(r, says)
    /\ UNCHANGED <<clock, tenantStatus, workspace, retiring, invitation, membership,
                   administrators, claim>>

(* A transaction that inserted the key and has not ended holds it. *)
KeyFree(r) ==
    \A q \in Requests \ {r} :
        ~(request[q].step = "accepting" /\ request[q].by = request[r].by
             /\ request[q].key = request[r].key)

(* claimWithin: a completed key answers for the same request, and conflicts for another. *)
Replay(r) ==
    LET q == request[r]
        completed == claim[q.by][q.key]
    IN  /\ q.step = "matched" /\ KeyFree(r)
        /\ completed # NoOne
        /\ Answered(r, IF completed = q.inv THEN "accepted" ELSE "refused")
        /\ UNCHANGED <<clock, tenantStatus, workspace, retiring, invitation, membership,
                       administrators, claim>>

(* Mutant: the row is judged as it was read before the match. *)
StillAcceptableAsRead(r) == TRUE

(* Accept, 4: rechecked under the lock, against the clock the request began with. *)
StillAcceptable(r) ==
    /\ invitation[request[r].inv].state = "pending"
    /\ request[r].at < invitation[request[r].inv].expires

(* Accept, 4: the key claimed, the invitation locked, the Tenant and the Membership read. *)
AcceptLock(r) ==
    LET q == request[r] IN
    /\ q.step = "matched" /\ KeyFree(r)
    /\ claim[q.by][q.key] = NoOne
    /\ Free(q.inv)
    /\ IF StillAcceptable(r) /\ tenantStatus = "active"
             /\ ActiveIn(q.by, invitation[q.inv].context) = {}
       THEN request' = [request EXCEPT ![r] = [@ EXCEPT !.step = "accepting", !.locked = q.inv]]
       ELSE Answered(r, "refused")
    /\ UNCHANGED <<clock, tenantStatus, workspace, retiring, invitation, membership,
                   administrators, claim>>

(* db.Respond: the response is recorded under the key by the transaction of its effect. *)
Respond(r) ==
    /\ claim' = [claim EXCEPT ![request[r].by][request[r].key] = request[r].inv]
    /\ Answered(r, "accepted")

(* The acceptance, the Membership and the response commit together. *)
AcceptCommit(r, m) ==
    LET q == request[r] IN
    /\ q.step = "accepting"
    /\ GrantWithin(m, q.by, invitation[q.inv].context, q.inv)
    /\ invitation' = [invitation EXCEPT ![q.inv].state = "accepted", ![q.inv].by = q.by]
    /\ Respond(r)
    /\ UNCHANGED <<clock, tenantStatus, workspace, retiring, administrators>>

-----------------------------------------------------------------------------

(* Mutant: the Membership is read without FOR UPDATE. *)
AppointingNothing(p) == NoOne

(* adminMembershipStatement: an active Tenant-wide Membership is locked; NoOne is none. *)
Appointing(p) ==
    IF ActiveIn(p, TenantWide) = {} THEN NoOne ELSE CHOOSE m \in ActiveIn(p, TenantWide) : TRUE

(* TenantAdministration.Grant: the Tenant read, the grant inserted, a suspended Membership *)
(* refused.  The index makes a second grant of the same principal wait.                    *)
AppointLock(r, p) ==
    /\ request[r] = Idle
    /\ tenantStatus = "active"
    /\ p \notin administrators
    /\ \A q \in Requests : ~(request[q].step = "appointing" /\ request[q].by = p)
    /\ \A m \in ActiveIn(p, TenantWide) : Free(m)
    /\ ActiveIn(p, TenantWide) = {} =>
          \A m \in Memberships : membership[m].holder = p /\ membership[m].context = TenantWide
                                    => membership[m].status # "suspended"
    /\ request' = [request EXCEPT ![r] =
          [Idle EXCEPT !.step = "appointing", !.by = p, !.locked = Appointing(p),
                       !.answer = IF ActiveIn(p, TenantWide) = {} THEN "grant" ELSE "hold"]]
    /\ UNCHANGED <<clock, tenantStatus, workspace, retiring, invitation, membership,
                   administrators, claim>>

(* TenantAdministration.Grant: a principal with no Membership gets one with the grant. *)
AppointCommit(r) ==
    /\ request[r].step = "appointing"
    /\ IF request[r].answer = "hold" THEN UNCHANGED membership
       ELSE \E m \in Memberships : GrantWithin(m, request[r].by, TenantWide, NoOne)
    /\ administrators' = administrators \cup {request[r].by}
    /\ request' = [request EXCEPT ![r] = Idle]
    /\ UNCHANGED <<clock, tenantStatus, workspace, retiring, invitation, claim>>

RevokeAdministrator(p) ==
    /\ p \in administrators
    /\ administrators' = administrators \ {p}
    /\ UNCHANGED <<clock, tenantStatus, workspace, retiring, invitation, membership, claim, request>>

-----------------------------------------------------------------------------

(* The answer arrived, or the request was lost: rolled back, unless it had committed. *)
Forget(r) ==
    /\ request[r] # Idle
    /\ request' = [request EXCEPT ![r] = Idle]
    /\ UNCHANGED <<clock, tenantStatus, workspace, retiring, invitation, membership,
                   administrators, claim>>

Tick ==
    /\ clock < MaxClock
    /\ clock' = clock + 1
    /\ UNCHANGED <<tenantStatus, workspace, retiring, invitation, membership, administrators,
                   claim, request>>

AdmissionNext ==
    \/ \E a \in TenantMoves : TenantTransition(a)
    \/ \E w \in Workspaces :
          \/ CreateWorkspace(w)
          \/ MoveWorkspace(w, "active", "archived") \/ MoveWorkspace(w, "archived", "active")
          \/ RetireLock(w) \/ RetireEnd(w, "retired") \/ RetireEnd(w, "archived")
    \/ \E m \in Memberships :
          \/ \E p \in Principals, c \in Contexts : GrantMembership(m, p, c)
          \/ \E a \in MembershipActions : MembershipTransition(m, a)
    \/ \E i \in Invitations :
          \/ \E t \in Targets, c \in Contexts : Issue(i, t, c)
          \/ Revoke(i) \/ ExpireLapsed(i)
    \/ \E r \in Requests :
          \/ \E p \in Principals, i \in Invitations, k \in Keys : ReadByToken(r, p, i, k)
          \/ \E says \in {"yes", "refused", "unavailable"} : Match(r, says)
          \/ Replay(r) \/ AcceptLock(r)
          \/ \E m \in Memberships : AcceptCommit(r, m)
          \/ \E p \in Principals : AppointLock(r, p)
          \/ AppointCommit(r)
          \/ Forget(r)
    \/ \E p \in Principals : RevokeAdministrator(p)
    \/ Tick

AdmissionSpec == AdmissionInit /\ [][AdmissionNext]_admissionVars

-----------------------------------------------------------------------------

(* service.go, Accept: "An accepted invitation with no Membership is an intent recorded *)
(* as fulfilled that granted nothing, and a Membership against an invitation still open *)
(* is an intent that can be fulfilled twice."  An accepted invitation has exactly one   *)
(* Membership, its acceptor's, and one completed key, its acceptor's; any other has     *)
(* none of either.  Whatever became of the Membership since.                            *)
AcceptedExactlyOnce ==
    \A i \in Invitations :
        LET granted == {m \in Memberships : membership[m].from = i}
            answered == {pk \in Principals \X Keys : claim[pk[1]][pk[2]] = i}
        IN  IF invitation[i].state = "accepted"
            THEN /\ Cardinality(granted) = 1 /\ Cardinality(answered) = 1
                 /\ \A m \in granted : /\ membership[m].holder = invitation[i].by
                                       /\ membership[m].context = invitation[i].context
                 /\ \A pk \in answered : pk[1] = invitation[i].by
            ELSE granted = {} /\ answered = {}

(* ErrMembershipsPresent: "a retired Workspace would keep every Membership scoped to a  *)
(* context that no longer exists".  No Membership granted before a Workspace was        *)
(* retired outlives the retirement unrevoked, however the grant and the count overlap.  *)
RetirementLeavesNoneBehind ==
    \A w \in Workspaces : workspace[w] = "retired" => \A m \in InWorkspace(w) : membership[m].late

(* adminMembershipStatement: "locked so a concurrent suspension waits for this grant".  *)
(* Whoever becomes an administrator holds an active Tenant-wide Membership then.        *)
AppointedWhileMember ==
    [][\A p \in administrators' \ administrators :
          \E m \in Memberships : /\ membership'[m].status = "active"
                                 /\ membership'[m].holder = p
                                 /\ membership'[m].context = TenantWide]_admissionVars

(* httpapi/idempotency.go: "A process dying between the commit and the reply leaves a   *)
(* key a retry replays".  A request sent again under its completed key is not refused.  *)
RetryIsReplayed ==
    \A r \in Requests : request[r].retry => request[r].answer # "refused"
==============================================================================
