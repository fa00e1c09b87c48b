--------------------------- MODULE AdmissionProofs ---------------------------
(***************************************************************************)
(* The safety properties of Admission, proved for every number of people,  *)
(* invitations, Memberships, Workspaces, keys and requests in flight.      *)
(*                                                                         *)
(* Each of the three commands that lock first and commit later is given    *)
(* what its lock keeps: an acceptance its pending invitation and its       *)
(* unused key, a retirement an empty Workspace, an appointment the         *)
(* Membership it read.                                                     *)
(***************************************************************************)
EXTENDS Admission, FiniteSetTheorems, TLAPS

InvitationRecords ==
    [state : {"none", "pending", "accepted", "revoked", "expired"}, target : Targets \cup {NoOne},
     context : Contexts, expires : Nat, by : Principals \cup {NoOne}]

MembershipRecords ==
    [status : MembershipStates \cup {"none"}, holder : Principals \cup {NoOne}, context : Contexts,
     from : Invitations \cup {NoOne}, late : BOOLEAN]

RequestRecords ==
    [step : {"idle", "matching", "matched", "accepting", "answered", "appointing"},
     by : Principals \cup {NoOne}, inv : Invitations \cup {NoOne}, key : Keys \cup {NoOne}, at : Nat,
     locked : Invitations \cup Memberships \cup {NoOne}, retry : BOOLEAN,
     answer : {"none", "accepted", "refused", "unavailable", "grant", "hold"}]

AdmissionTypeOK ==
    /\ clock \in Nat
    /\ workspace \in [Workspaces -> {"none", "active", "archived", "retired"}]
    /\ retiring \subseteq Workspaces
    /\ invitation \in [Invitations -> InvitationRecords]
    /\ membership \in [Memberships -> MembershipRecords]
    /\ administrators \subseteq Principals
    /\ claim \in [Principals -> [Keys -> Invitations \cup {NoOne}]]
    /\ request \in [Requests -> RequestRecords]

(* An acceptance under way is somebody's, of an invitation, under a key. *)
AskedProperly ==
    \A r \in Requests : request[r].step \in {"matching", "matched", "accepting"} =>
        request[r].by \in Principals /\ request[r].inv \in Invitations /\ request[r].key \in Keys

(* The locks of an acceptance keep its invitation pending and its key unused. *)
AcceptingHolds ==
    \A r \in Requests : request[r].step = "accepting" =>
        /\ request[r].locked = request[r].inv
        /\ invitation[request[r].inv].state = "pending"
        /\ claim[request[r].by][request[r].key] = NoOne

(* Two acceptances between lock and commit share neither invitation nor key. *)
AcceptingExclude ==
    \A r, q \in Requests : r # q /\ request[r].step = "accepting" /\ request[q].step = "accepting" =>
        /\ request[r].inv # request[q].inv
        /\ request[r].by # request[q].by \/ request[r].key # request[q].key

(* The lock of an appointment keeps the Membership it found active. *)
AppointingHolds ==
    \A r \in Requests : request[r].step = "appointing" =>
        /\ request[r].by \in Principals
        /\ request[r].answer = "hold" =>
              /\ request[r].locked \in Memberships
              /\ membership[request[r].locked].status = "active"
              /\ membership[request[r].locked].holder = request[r].by
              /\ membership[request[r].locked].context = TenantWide

(* The lock of a retirement keeps its Workspace archived and empty. *)
RetiringHolds == \A w \in retiring : workspace[w] = "archived" /\ InWorkspace(w) = {}

(* AcceptedExactlyOnce, row by row: a Membership or a key that names an invitation is the *)
(* acceptor's, it is the only one, and there is one of each when it is accepted.          *)
AcceptancesMatch ==
    /\ \A m \in Memberships : membership[m].from # NoOne =>
          LET i == invitation[membership[m].from] IN
          i.state = "accepted" /\ membership[m].holder = i.by /\ membership[m].context = i.context
    /\ \A m, n \in Memberships : membership[m].from # NoOne /\ membership[m].from = membership[n].from
          => m = n
    /\ \A p \in Principals, k \in Keys : claim[p][k] # NoOne =>
          invitation[claim[p][k]].state = "accepted" /\ invitation[claim[p][k]].by = p
    /\ \A p \in Principals, k, l \in Keys : claim[p][k] # NoOne /\ claim[p][k] = claim[p][l] => k = l
    /\ \A i \in Invitations : invitation[i].state = "accepted" =>
          /\ \E m \in Memberships : membership[m].from = i
          /\ \E p \in Principals, k \in Keys : claim[p][k] = i

AdmissionInv ==
    /\ AdmissionTypeOK
    /\ AskedProperly
    /\ AcceptingHolds
    /\ AcceptingExclude
    /\ AppointingHolds
    /\ RetiringHolds
    /\ AcceptancesMatch
    /\ RetirementLeavesNoneBehind

-----------------------------------------------------------------------------

(* Where the actions of the Membership machine start and lead. *)
LEMMA MembershipMoves ==
    ASSUME NEW a \in MembershipActions
    PROVE  /\ MembershipFrom(a) \subseteq {"active", "suspended"}
           /\ MembershipTo(a) \in MembershipStates
<1>1. CASE a = "suspend"
  BY <1>1, Zenon DEF MembershipFrom, MembershipTo, MembershipStates
<1>2. CASE a = "revoke"
  BY <1>2, Zenon DEF MembershipFrom, MembershipTo, MembershipStates
<1>3. CASE a = "restore"
  BY <1>3, Zenon DEF MembershipFrom, MembershipTo, MembershipStates
<1> QED
  BY <1>1, <1>2, <1>3 DEF MembershipActions

(* The rows nothing is in yet have their types. *)
LEMMA EmptyRows ==
    /\ NoInvitation \in InvitationRecords /\ NoMembership \in MembershipRecords
    /\ Idle \in RequestRecords
  BY DEF NoInvitation, InvitationRecords, NoMembership, MembershipRecords, Idle, RequestRecords,
         Contexts, MembershipStates

(* The initial states satisfy the invariant. *)
LEMMA AdmissionInvInit == AdmissionInit => AdmissionInv
<1> SUFFICES ASSUME AdmissionInit PROVE AdmissionInv
  OBVIOUS
<1>1. AdmissionTypeOK
  BY EmptyRows DEF AdmissionInit, AdmissionTypeOK
<1>2. AskedProperly /\ AcceptingHolds /\ AcceptingExclude /\ AppointingHolds
  BY DEF AdmissionInit, AskedProperly, AcceptingHolds, AcceptingExclude, AppointingHolds, Idle
<1>3. RetiringHolds /\ RetirementLeavesNoneBehind
  BY DEF AdmissionInit, RetiringHolds, RetirementLeavesNoneBehind
<1>4. AcceptancesMatch
  BY DEF AdmissionInit, AcceptancesMatch, NoMembership, NoInvitation
<1> QED
  BY <1>1, <1>2, <1>3, <1>4 DEF AdmissionInv

(* What a grant writes: one row that was empty. *)
LEMMA GrantRows ==
    ASSUME AdmissionInv, NEW m \in Memberships, NEW p \in Principals, NEW c \in Contexts,
           NEW from \in Invitations \cup {NoOne}, GrantWithin(m, p, c, from)
    PROVE  /\ membership' \in [Memberships -> MembershipRecords]
           /\ membership[m].status = "none" /\ membership[m].from = NoOne
           /\ membership'[m].status = "active" /\ membership'[m].holder = p
           /\ membership'[m].context = c /\ membership'[m].from = from
           /\ membership'[m].late <=> c \in Workspaces /\ workspace[c] = "retired"
           /\ \A n \in Memberships \ {m} : membership'[n] = membership[n]
           /\ c \notin retiring
<1> DEFINE row == [status |-> "active", holder |-> p, context |-> c, from |-> from,
                   late |-> c \in Workspaces /\ workspace[c] = "retired"]
<1>1. membership' = [membership EXCEPT ![m] = row] /\ membership[m] = NoMembership /\ c \notin retiring
  BY DEF GrantWithin, RowUnlocked
<1>2. row \in MembershipRecords
  BY DEF MembershipRecords, MembershipStates
<1>3. /\ row.status = "active" /\ row.holder = p /\ row.context = c /\ row.from = from
      /\ row.late <=> c \in Workspaces /\ workspace[c] = "retired"
  OBVIOUS
<1>4. membership[m].status = "none" /\ membership[m].from = NoOne
  BY <1>1 DEF NoMembership
<1> HIDE DEF row
<1> QED
  BY <1>1, <1>2, <1>3, <1>4 DEF AdmissionInv, AdmissionTypeOK

(* What a grant leaves true of Workspaces, and of the Memberships others hold. *)
LEMMA GrantKeeps ==
    ASSUME AdmissionInv, NEW m \in Memberships, NEW p \in Principals, NEW c \in Contexts,
           NEW from \in Invitations \cup {NoOne}, GrantWithin(m, p, c, from),
           workspace' = workspace, retiring' = retiring
    PROVE  /\ RetiringHolds' /\ RetirementLeavesNoneBehind'
           /\ \A n \in Memberships : membership[n].status = "active" => membership'[n] = membership[n]
<1>1. RetiringHolds'
  BY GrantRows DEF AdmissionInv, RetiringHolds, InWorkspace
<1>2. RetirementLeavesNoneBehind'
  BY GrantRows DEF AdmissionInv, RetirementLeavesNoneBehind, InWorkspace
<1>3. \A n \in Memberships : membership[n].status = "active" => membership'[n] = membership[n]
  BY GrantRows
<1> QED
  BY <1>1, <1>2, <1>3

(* The Tenant, its Workspaces, its administrators and the time. *)
LEMMA WorkspaceStep ==
    ASSUME AdmissionInv,
           \/ \E a \in TenantMoves : TenantTransition(a)
           \/ \E w \in Workspaces :
                 \/ CreateWorkspace(w)
                 \/ MoveWorkspace(w, "active", "archived") \/ MoveWorkspace(w, "archived", "active")
                 \/ RetireLock(w) \/ RetireEnd(w, "retired") \/ RetireEnd(w, "archived")
           \/ \E p \in Principals : RevokeAdministrator(p)
           \/ Tick
    PROVE  AdmissionInv'
<1>1. UNCHANGED <<invitation, membership, claim, request>>
  BY DEF TenantTransition, CreateWorkspace, MoveWorkspace, RetireLock, RetireEnd, RevokeAdministrator,
         Tick
<1>2. AskedProperly' /\ AcceptingHolds' /\ AcceptingExclude' /\ AppointingHolds' /\ AcceptancesMatch'
  BY <1>1 DEF AdmissionInv, AskedProperly, AcceptingHolds, AcceptingExclude, AppointingHolds,
              AcceptancesMatch
<1>3. AdmissionTypeOK'
  BY <1>1 DEF AdmissionInv, AdmissionTypeOK, TenantTransition, CreateWorkspace, MoveWorkspace,
              RetireLock, RetireEnd, RevokeAdministrator, Tick
<1>4. \A w : InWorkspace(w)' = InWorkspace(w)
  BY <1>1 DEF InWorkspace
<1>5. RetiringHolds'
  BY <1>4 DEF AdmissionInv, AdmissionTypeOK, RetiringHolds, RowUnlocked, TenantTransition,
              CreateWorkspace, MoveWorkspace, RetireLock, RetireEnd, RevokeAdministrator, Tick
<1>6. RetirementLeavesNoneBehind'
  <2>1. \A w \in Workspaces : workspace'[w] = "retired" => workspace[w] = "retired" \/ w \in retiring
    BY DEF AdmissionInv, AdmissionTypeOK, TenantTransition, CreateWorkspace, MoveWorkspace, RetireLock,
           RetireEnd, RevokeAdministrator, Tick
  <2> QED
    BY <1>1, <1>4, <2>1 DEF AdmissionInv, RetiringHolds, RetirementLeavesNoneBehind
<1> QED
  BY <1>2, <1>3, <1>5, <1>6 DEF AdmissionInv

(* An administrator grants. *)
LEMMA GrantStep ==
    ASSUME AdmissionInv, NEW m \in Memberships, NEW p \in Principals, NEW c \in Contexts,
           GrantMembership(m, p, c)
    PROVE  AdmissionInv'
<1>1. GrantWithin(m, p, c, NoOne) /\ UNCHANGED <<clock, workspace, retiring, invitation,
                                                 administrators, claim, request>>
  BY DEF GrantMembership
<1>2. AdmissionTypeOK'
  BY <1>1, GrantRows DEF AdmissionInv, AdmissionTypeOK
<1>3. AskedProperly' /\ AcceptingHolds' /\ AcceptingExclude'
  BY <1>1 DEF AdmissionInv, AskedProperly, AcceptingHolds, AcceptingExclude
<1>4. AppointingHolds'
  BY <1>1, GrantKeeps DEF AdmissionInv, AppointingHolds
<1>5. AcceptancesMatch'
  <2>1. \A n \in Memberships : \/ membership'[n] = membership[n]
                               \/ membership'[n].from = NoOne /\ membership[n].from = NoOne
    BY <1>1, GrantRows
  <2> QED
    BY <1>1, <2>1, AdmissionAssumption DEF AdmissionInv, AcceptancesMatch
<1>6. RetiringHolds' /\ RetirementLeavesNoneBehind'
  BY <1>1, GrantKeeps
<1> QED
  BY <1>2, <1>3, <1>4, <1>5, <1>6 DEF AdmissionInv

(* A suspension, a restoration or a revocation waits for whoever holds the row. *)
LEMMA TransitionStep ==
    ASSUME AdmissionInv, NEW m \in Memberships, NEW a \in MembershipActions, MembershipTransition(m, a)
    PROVE  AdmissionInv'
<1>1. /\ membership' \in [Memberships -> MembershipRecords]
      /\ membership[m].status \in {"active", "suspended"}
      /\ \A n \in Memberships \ {m} : membership'[n] = membership[n]
      /\ \A n \in Memberships : /\ membership'[n].holder = membership[n].holder
                                /\ membership'[n].context = membership[n].context
                                /\ membership'[n].from = membership[n].from
                                /\ membership'[n].late = membership[n].late
  BY MembershipMoves DEF MembershipTransition, AdmissionInv, AdmissionTypeOK, MembershipRecords
<1>2. UNCHANGED <<clock, workspace, retiring, invitation, administrators, claim, request>> /\ Free(m)
  BY DEF MembershipTransition
<1>3. AdmissionTypeOK'
  BY <1>1, <1>2 DEF AdmissionInv, AdmissionTypeOK
<1>4. AskedProperly' /\ AcceptingHolds' /\ AcceptingExclude'
  BY <1>2 DEF AdmissionInv, AskedProperly, AcceptingHolds, AcceptingExclude
<1>5. AppointingHolds'
  BY <1>1, <1>2 DEF AdmissionInv, AppointingHolds, Free
<1>6. AcceptancesMatch'
  BY <1>1, <1>2 DEF AdmissionInv, AcceptancesMatch
<1>7. \A w : InWorkspace(w)' \subseteq InWorkspace(w)
  BY <1>1 DEF InWorkspace
<1>8. RetiringHolds' /\ RetirementLeavesNoneBehind'
  BY <1>1, <1>2, <1>7 DEF AdmissionInv, RetiringHolds, RetirementLeavesNoneBehind, InWorkspace
<1> QED
  BY <1>3, <1>4, <1>5, <1>6, <1>8 DEF AdmissionInv

(* Invitations are issued where there was none, and settled only while nobody holds them. *)
LEMMA InvitationStep ==
    ASSUME AdmissionInv, NEW i \in Invitations,
           \/ \E t \in Targets, c \in Contexts : Issue(i, t, c)
           \/ Revoke(i) \/ ExpireLapsed(i)
    PROVE  AdmissionInv'
<1>1. UNCHANGED <<clock, workspace, retiring, membership, administrators, claim, request>>
  BY DEF Issue, Revoke, ExpireLapsed
<1>2. /\ invitation' \in [Invitations -> InvitationRecords]
      /\ \A j \in Invitations \ {i} : invitation'[j] = invitation[j]
      /\ invitation[i].state # "accepted" /\ invitation'[i].state # "accepted"
  <2>1. ASSUME NEW t \in Targets, NEW c \in Contexts, Issue(i, t, c)
        PROVE  /\ invitation' \in [Invitations -> InvitationRecords]
               /\ \A j \in Invitations \ {i} : invitation'[j] = invitation[j]
               /\ invitation[i].state # "accepted" /\ invitation'[i].state # "accepted"
    <3> DEFINE row == [state |-> "pending", target |-> t, context |-> c, expires |-> clock + TTL,
                       by |-> NoOne]
    <3>1. row \in InvitationRecords
      BY AdmissionAssumption DEF AdmissionInv, AdmissionTypeOK, InvitationRecords
    <3>2. invitation' = [invitation EXCEPT ![i] = row] /\ invitation[i].state = "none"
      BY <2>1 DEF Issue, NoInvitation
    <3>3. row.state = "pending"
      OBVIOUS
    <3> HIDE DEF row
    <3> QED
      BY <3>1, <3>2, <3>3 DEF AdmissionInv, AdmissionTypeOK
  <2>2. ASSUME Revoke(i) \/ ExpireLapsed(i)
        PROVE  /\ invitation' \in [Invitations -> InvitationRecords]
               /\ \A j \in Invitations \ {i} : invitation'[j] = invitation[j]
               /\ invitation[i].state # "accepted" /\ invitation'[i].state # "accepted"
    <3>1. PICK to \in {"revoked", "expired"} :
             invitation' = [invitation EXCEPT ![i].state = to] /\ invitation[i].state = "pending"
      BY <2>2 DEF Revoke, ExpireLapsed
    <3> QED
      BY <3>1 DEF AdmissionInv, AdmissionTypeOK, InvitationRecords
  <2> QED
    BY <2>1, <2>2
<1>3. \A r \in Requests : request[r].step = "accepting" => request[r].inv # i
  BY DEF Issue, Revoke, ExpireLapsed, NoInvitation, Free, AdmissionInv, AcceptingHolds
<1>4. AdmissionTypeOK'
  BY <1>1, <1>2 DEF AdmissionInv, AdmissionTypeOK
<1>5. AskedProperly' /\ AcceptingExclude' /\ AppointingHolds'
  BY <1>1 DEF AdmissionInv, AskedProperly, AcceptingExclude, AppointingHolds
<1>6. AcceptingHolds'
  BY <1>1, <1>2, <1>3 DEF AdmissionInv, AcceptingHolds, AskedProperly
<1>7. AcceptancesMatch'
  <2>1. \A m \in Memberships : membership[m].from # NoOne =>
           membership[m].from \in Invitations \ {i}
    BY <1>2 DEF AdmissionInv, AdmissionTypeOK, MembershipRecords, AcceptancesMatch
  <2>2. \A p \in Principals, k \in Keys : claim[p][k] # NoOne => claim[p][k] \in Invitations \ {i}
    BY <1>2 DEF AdmissionInv, AdmissionTypeOK, AcceptancesMatch
  <2> QED
    BY <1>1, <1>2, <2>1, <2>2 DEF AdmissionInv, AcceptancesMatch
<1>8. RetiringHolds' /\ RetirementLeavesNoneBehind'
  BY <1>1 DEF AdmissionInv, RetiringHolds, RetirementLeavesNoneBehind, InWorkspace
<1> QED
  BY <1>4, <1>5, <1>6, <1>7, <1>8 DEF AdmissionInv

(* A step of one request that changes nothing else. *)
LEMMA RequestOnly ==
    ASSUME AdmissionInv, NEW r \in Requests, NEW q \in RequestRecords,
           request' = [request EXCEPT ![r] = q],
           UNCHANGED <<clock, workspace, retiring, invitation, membership, administrators, claim>>,
           q.step \in {"matching", "matched", "accepting"} =>
              q.by \in Principals /\ q.inv \in Invitations /\ q.key \in Keys,
           q.step = "accepting" =>
              /\ q.locked = q.inv /\ invitation[q.inv].state = "pending"
              /\ claim[q.by][q.key] = NoOne
              /\ \A o \in Requests \ {r} : request[o].step = "accepting" =>
                    /\ request[o].inv # q.inv
                    /\ request[o].by # q.by \/ request[o].key # q.key,
           q.step = "appointing" =>
              /\ q.by \in Principals
              /\ q.answer = "hold" => /\ q.locked \in Memberships
                                      /\ membership[q.locked].status = "active"
                                      /\ membership[q.locked].holder = q.by
                                      /\ membership[q.locked].context = TenantWide
    PROVE  AdmissionInv'
<1>1. request'[r] = q /\ \A o \in Requests \ {r} : request'[o] = request[o]
  BY DEF AdmissionInv, AdmissionTypeOK
<1>2. AdmissionTypeOK'
  BY DEF AdmissionInv, AdmissionTypeOK
<1>3. AskedProperly' /\ AcceptingHolds' /\ AppointingHolds'
  BY <1>1 DEF AdmissionInv, AskedProperly, AcceptingHolds, AppointingHolds
<1>4. AcceptingExclude'
  BY <1>1 DEF AdmissionInv, AcceptingExclude
<1>5. AcceptancesMatch' /\ RetiringHolds' /\ RetirementLeavesNoneBehind'
  BY DEF AdmissionInv, AcceptancesMatch, RetiringHolds, RetirementLeavesNoneBehind, InWorkspace
<1> QED
  BY <1>2, <1>3, <1>4, <1>5 DEF AdmissionInv

(* An answer holds nothing. *)
LEMMA AnsweredStep ==
    ASSUME AdmissionInv, NEW r \in Requests,
           NEW answer \in {"accepted", "refused", "unavailable"}, Answered(r, answer),
           UNCHANGED <<clock, workspace, retiring, invitation, membership, administrators, claim>>
    PROVE  AdmissionInv'
<1> DEFINE q == [Idle EXCEPT !.step = "answered", !.retry = request[r].retry, !.answer = answer]
<1>1. q \in RequestRecords /\ q.step = "answered"
  BY DEF Idle, RequestRecords, AdmissionInv, AdmissionTypeOK
<1>2. request' = [request EXCEPT ![r] = q]
  BY DEF Answered
<1> HIDE DEF q
<1> QED
  BY <1>1, <1>2, RequestOnly

(* The steps of an acceptance before it locks, and the end of a request. *)
LEMMA AskingStep ==
    ASSUME AdmissionInv, NEW r \in Requests,
           \/ \E p \in Principals, i \in Invitations, k \in Keys : ReadByToken(r, p, i, k)
           \/ \E says \in {"yes", "refused", "unavailable"} : Match(r, says)
           \/ Replay(r) \/ Forget(r)
    PROVE  AdmissionInv'
<1>1. UNCHANGED <<clock, workspace, retiring, invitation, membership, administrators, claim>>
  BY DEF ReadByToken, Match, Replay, Forget
<1>2. ASSUME NEW p \in Principals, NEW i \in Invitations, NEW k \in Keys, ReadByToken(r, p, i, k)
      PROVE  AdmissionInv'
  <2> DEFINE asked == [Idle EXCEPT !.by = p, !.inv = i, !.key = k, !.at = clock,
                                   !.retry = (claim[p][k] = i)]
             refused == [Idle EXCEPT !.step = "answered", !.retry = asked.retry, !.answer = "refused"]
             matching == [asked EXCEPT !.step = "matching"]
  <2>1. refused \in RequestRecords /\ refused.step = "answered"
    BY DEF Idle, RequestRecords
  <2>2. /\ matching \in RequestRecords /\ matching.step = "matching"
        /\ matching.by = p /\ matching.inv = i /\ matching.key = k
    BY DEF Idle, RequestRecords, AdmissionInv, AdmissionTypeOK
  <2>3. request' = [request EXCEPT ![r] = matching] \/ request' = [request EXCEPT ![r] = refused]
    BY <1>2 DEF ReadByToken
  <2> HIDE DEF matching, refused
  <2>4. CASE request' = [request EXCEPT ![r] = matching]
    BY <1>1, <2>2, <2>4, RequestOnly
  <2>5. CASE request' = [request EXCEPT ![r] = refused]
    BY <1>1, <2>1, <2>5, RequestOnly
  <2> QED
    BY <2>3, <2>4, <2>5
<1>3. ASSUME NEW says \in {"yes", "refused", "unavailable"}, Match(r, says)
      PROVE  AdmissionInv'
  <2>1. CASE says = "yes"
    <3> DEFINE q == [request[r] EXCEPT !.step = "matched"]
    <3>1. request' = [request EXCEPT ![r] = q] /\ request[r].step = "matching"
      BY <1>3, <2>1 DEF Match, Step
    <3>2. /\ q \in RequestRecords /\ q.step = "matched"
          /\ q.by = request[r].by /\ q.inv = request[r].inv /\ q.key = request[r].key
      BY DEF RequestRecords, AdmissionInv, AdmissionTypeOK
    <3>3. q.by \in Principals /\ q.inv \in Invitations /\ q.key \in Keys
      BY <3>1, <3>2 DEF AdmissionInv, AskedProperly
    <3> HIDE DEF q
    <3> QED
      BY <1>1, <3>1, <3>2, <3>3, RequestOnly
  <2>2. CASE says # "yes"
    BY <1>1, <1>3, <2>2, AnsweredStep DEF Match
  <2> QED
    BY <2>1, <2>2
<1>4. ASSUME Replay(r)
      PROVE  AdmissionInv'
  <2>1. Answered(r, "accepted") \/ Answered(r, "refused")
    BY <1>4 DEF Replay
  <2> QED
    BY <1>1, <2>1, AnsweredStep
<1>5. ASSUME Forget(r)
      PROVE  AdmissionInv'
  <2>1. Idle \in RequestRecords /\ Idle.step = "idle"
    BY EmptyRows DEF Idle
  <2>2. request' = [request EXCEPT ![r] = Idle]
    BY <1>5 DEF Forget
  <2> QED
    BY <1>1, <2>1, <2>2, RequestOnly
<1> QED
  BY <1>2, <1>3, <1>4, <1>5

(* The acceptance locks, judges and goes on, or is refused. *)
LEMMA AcceptLockStep ==
    ASSUME AdmissionInv, NEW r \in Requests, AcceptLock(r)
    PROVE  AdmissionInv'
<1>1. UNCHANGED <<clock, workspace, retiring, invitation, membership, administrators, claim>>
  BY DEF AcceptLock
<1>2. CASE Answered(r, "refused")
  BY <1>1, <1>2, AnsweredStep
<1>3. CASE ~Answered(r, "refused")
  <2> DEFINE q == [request[r] EXCEPT !.step = "accepting", !.locked = request[r].inv]
  <2>1. /\ request' = [request EXCEPT ![r] = q] /\ request[r].step = "matched"
        /\ KeyFree(r) /\ claim[request[r].by][request[r].key] = NoOne /\ Free(request[r].inv)
        /\ invitation[request[r].inv].state = "pending"
    BY <1>3 DEF AcceptLock, StillAcceptable
  <2>2. request[r].by \in Principals /\ request[r].inv \in Invitations /\ request[r].key \in Keys
    BY <2>1 DEF AdmissionInv, AskedProperly
  <2>3. /\ q \in RequestRecords /\ q.step = "accepting" /\ q.locked = q.inv
        /\ q.by = request[r].by /\ q.inv = request[r].inv /\ q.key = request[r].key
    BY <2>2 DEF RequestRecords, AdmissionInv, AdmissionTypeOK
  <2>4. \A o \in Requests \ {r} : request[o].step = "accepting" =>
           /\ request[o].inv # request[r].inv
           /\ request[o].by # request[r].by \/ request[o].key # request[r].key
    BY <2>1 DEF AdmissionInv, AcceptingHolds, KeyFree, Free
  <2> HIDE DEF q
  <2> QED
    BY <1>1, <2>1, <2>2, <2>3, <2>4, RequestOnly
<1> QED
  BY <1>2, <1>3

(* The appointment locks the Membership it finds. *)
LEMMA AppointLockStep ==
    ASSUME AdmissionInv, NEW r \in Requests, NEW p \in Principals, AppointLock(r, p)
    PROVE  AdmissionInv'
<1>1. UNCHANGED <<clock, workspace, retiring, invitation, membership, administrators, claim>>
  BY DEF AppointLock
<1> DEFINE answer == IF ActiveIn(p, TenantWide) = {} THEN "grant" ELSE "hold"
           q == [Idle EXCEPT !.step = "appointing", !.by = p, !.locked = Appointing(p),
                             !.answer = answer]
<1>2. request' = [request EXCEPT ![r] = q]
  BY DEF AppointLock
<1>3. /\ Appointing(p) \in Memberships \cup {NoOne}
      /\ answer = "hold" => Appointing(p) \in ActiveIn(p, TenantWide)
  BY DEF Appointing, ActiveIn
<1>4. answer \in {"grant", "hold"}
  OBVIOUS
<1> HIDE DEF answer
<1>5. /\ q \in RequestRecords /\ q.step = "appointing" /\ q.by = p /\ q.locked = Appointing(p)
      /\ q.answer = answer
  BY <1>3, <1>4 DEF Idle, RequestRecords
<1>6. answer = "hold" => /\ Appointing(p) \in Memberships
                         /\ membership[Appointing(p)].status = "active"
                         /\ membership[Appointing(p)].holder = p
                         /\ membership[Appointing(p)].context = TenantWide
  BY <1>3 DEF ActiveIn
<1> HIDE DEF q
<1> QED
  BY <1>1, <1>2, <1>5, <1>6, RequestOnly

(* The acceptance, its Membership and its key commit together, and once. *)
LEMMA AcceptCommitStep ==
    ASSUME AdmissionInv, NEW r \in Requests, NEW m \in Memberships, AcceptCommit(r, m)
    PROVE  AdmissionInv'
<1>1. PICK p \in Principals, i \in Invitations, k \in Keys :
         p = request[r].by /\ i = request[r].inv /\ k = request[r].key
  BY DEF AcceptCommit, AdmissionInv, AskedProperly
<1>2. request[r].step = "accepting" /\ invitation[i].state = "pending" /\ claim[p][k] = NoOne
  BY <1>1 DEF AcceptCommit, AdmissionInv, AcceptingHolds
<1>3. PICK c \in Contexts : c = invitation[i].context
  BY DEF AdmissionInv, AdmissionTypeOK, InvitationRecords
<1>4. /\ GrantWithin(m, p, c, i)
      /\ invitation' = [invitation EXCEPT ![i] = [invitation[i] EXCEPT !.state = "accepted", !.by = p]]
      /\ claim' = [claim EXCEPT ![p] = [claim[p] EXCEPT ![k] = i]]
      /\ UNCHANGED <<clock, workspace, retiring, administrators>>
  BY <1>1, <1>3 DEF AcceptCommit, Respond
<1>5. /\ invitation' \in [Invitations -> InvitationRecords]
      /\ invitation'[i].state = "accepted" /\ invitation'[i].by = p /\ invitation'[i].context = c
      /\ \A j \in Invitations \ {i} : invitation'[j] = invitation[j]
  BY <1>3, <1>4 DEF AdmissionInv, AdmissionTypeOK, InvitationRecords
<1>6. /\ claim' \in [Principals -> [Keys -> Invitations \cup {NoOne}]]
      /\ claim'[p][k] = i
      /\ \A o \in Principals, l \in Keys : o # p \/ l # k => claim'[o][l] = claim[o][l]
  BY <1>4 DEF AdmissionInv, AdmissionTypeOK
<1>7. /\ request'[r].step = "answered" /\ \A o \in Requests \ {r} : request'[o] = request[o]
      /\ request' \in [Requests -> RequestRecords]
  <2> DEFINE q == [Idle EXCEPT !.step = "answered", !.retry = request[r].retry, !.answer = "accepted"]
  <2>1. q \in RequestRecords /\ q.step = "answered"
    BY DEF Idle, RequestRecords, AdmissionInv, AdmissionTypeOK
  <2>2. request' = [request EXCEPT ![r] = q]
    BY DEF AcceptCommit, Respond, Answered
  <2> HIDE DEF q
  <2> QED
    BY <2>1, <2>2 DEF AdmissionInv, AdmissionTypeOK
<1>8. /\ membership' \in [Memberships -> MembershipRecords]
      /\ membership[m].from = NoOne /\ membership'[m].from = i
      /\ membership'[m].holder = p /\ membership'[m].context = c
      /\ \A n \in Memberships \ {m} : membership'[n] = membership[n]
  BY <1>4, GrantRows
<1>9. AdmissionTypeOK'
  BY <1>4, <1>5, <1>6, <1>7, <1>8 DEF AdmissionInv, AdmissionTypeOK
<1>10. AskedProperly' /\ AcceptingExclude'
  BY <1>7 DEF AdmissionInv, AskedProperly, AcceptingExclude
<1>11. AcceptingHolds'
  <2>1. \A o \in Requests \ {r} : request[o].step = "accepting" =>
           request[o].inv # i /\ (request[o].by # p \/ request[o].key # k)
    BY <1>1, <1>2 DEF AdmissionInv, AcceptingExclude
  <2> QED
    BY <1>5, <1>6, <1>7, <2>1 DEF AdmissionInv, AcceptingHolds, AskedProperly
<1>12. AppointingHolds'
  BY <1>4, <1>7, GrantKeeps DEF AdmissionInv, AppointingHolds
<1>13. RetiringHolds' /\ RetirementLeavesNoneBehind'
  BY <1>4, GrantKeeps
<1>14. AcceptancesMatch'
  <2>1. /\ \A n \in Memberships : membership[n].from # i
        /\ \A o \in Principals, l \in Keys : claim[o][l] # i
    BY <1>2, AdmissionAssumption DEF AdmissionInv, AcceptancesMatch
  <2>2. \A n \in Memberships : membership'[n].from # NoOne =>
           LET j == invitation'[membership'[n].from] IN
           j.state = "accepted" /\ membership'[n].holder = j.by /\ membership'[n].context = j.context
    <3>1. ASSUME NEW n \in Memberships \ {m}, membership'[n].from # NoOne
          PROVE  LET j == invitation'[membership'[n].from] IN
                 j.state = "accepted" /\ membership'[n].holder = j.by /\ membership'[n].context = j.context
      <4>1. membership[n].from \in Invitations \ {i} /\ membership'[n] = membership[n]
        BY <1>8, <2>1, <3>1 DEF AdmissionInv, AdmissionTypeOK, MembershipRecords
      <4>2. invitation'[membership[n].from] = invitation[membership[n].from]
        BY <1>5, <4>1
      <4> QED
        BY <3>1, <4>1, <4>2 DEF AdmissionInv, AcceptancesMatch
    <3> QED
      BY <1>5, <1>8, <3>1
  <2>3. \A n, o \in Memberships : membership'[n].from # NoOne /\ membership'[n].from = membership'[o].from
           => n = o
    BY <1>8, <2>1 DEF AdmissionInv, AcceptancesMatch
  <2>4. \A o \in Principals, l \in Keys : claim'[o][l] # NoOne =>
           invitation'[claim'[o][l]].state = "accepted" /\ invitation'[claim'[o][l]].by = o
    <3>1. ASSUME NEW o \in Principals, NEW l \in Keys, o # p \/ l # k, claim'[o][l] # NoOne
          PROVE  invitation'[claim'[o][l]].state = "accepted" /\ invitation'[claim'[o][l]].by = o
      <4>1. claim'[o][l] = claim[o][l] /\ claim[o][l] \in Invitations \ {i}
        BY <1>6, <2>1, <3>1 DEF AdmissionInv, AdmissionTypeOK
      <4> QED
        BY <1>5, <3>1, <4>1 DEF AdmissionInv, AcceptancesMatch
    <3> QED
      BY <1>5, <1>6, <3>1
  <2>5. \A o \in Principals, l, n \in Keys : claim'[o][l] # NoOne /\ claim'[o][l] = claim'[o][n] => l = n
    BY <1>6, <2>1 DEF AdmissionInv, AcceptancesMatch
  <2>6. ASSUME NEW j \in Invitations, invitation'[j].state = "accepted"
        PROVE  /\ \E n \in Memberships : membership'[n].from = j
               /\ \E o \in Principals, l \in Keys : claim'[o][l] = j
    <3>1. CASE j = i
      BY <1>6, <1>8, <3>1
    <3>2. CASE j # i
      <4>1. invitation[j].state = "accepted"
        BY <1>5, <2>6, <3>2
      <4>2. PICK n \in Memberships : membership[n].from = j
        BY <4>1 DEF AdmissionInv, AcceptancesMatch
      <4>3. PICK o \in Principals, l \in Keys : claim[o][l] = j
        BY <4>1 DEF AdmissionInv, AcceptancesMatch
      <4>4. membership'[n].from = j
        BY <1>8, <4>2, AdmissionAssumption
      <4>5. claim'[o][l] = j
        BY <1>2, <1>6, <4>3, AdmissionAssumption
      <4> QED
        BY <4>4, <4>5
    <3> QED
      BY <3>1, <3>2
  <2> QED
    BY <2>2, <2>3, <2>4, <2>5, <2>6 DEF AcceptancesMatch
<1> QED
  BY <1>9, <1>10, <1>11, <1>12, <1>13, <1>14 DEF AdmissionInv

(* The appointment commits, with a Membership granted in the same transaction if it found *)
(* none; either way the appointed holds one.                                              *)
LEMMA AppointCommitStep ==
    ASSUME AdmissionInv, NEW r \in Requests, AppointCommit(r)
    PROVE  /\ AdmissionInv'
           /\ \A p \in administrators' \ administrators :
                 \E m \in Memberships : /\ membership'[m].status = "active"
                                        /\ membership'[m].holder = p
                                        /\ membership'[m].context = TenantWide
<1>1. PICK p \in Principals : p = request[r].by
  BY DEF AppointCommit, AdmissionInv, AppointingHolds
<1>2. /\ administrators' = administrators \cup {p} /\ request[r].step = "appointing"
      /\ UNCHANGED <<clock, workspace, retiring, invitation, claim>>
  BY <1>1 DEF AppointCommit
<1>3. /\ request'[r].step = "idle" /\ \A o \in Requests \ {r} : request'[o] = request[o]
      /\ request' \in [Requests -> RequestRecords]
  BY EmptyRows DEF AppointCommit, AdmissionInv, AdmissionTypeOK, Idle
<1>4. AskedProperly' /\ AcceptingHolds' /\ AcceptingExclude'
  BY <1>2, <1>3 DEF AdmissionInv, AskedProperly, AcceptingHolds, AcceptingExclude
<1>5. TenantWide \in Contexts
  BY DEF Contexts
<1>6. CASE membership' = membership /\ request[r].answer = "hold"
  <2>1. AdmissionTypeOK' /\ AppointingHolds' /\ RetiringHolds' /\ AcceptancesMatch'
    BY <1>2, <1>3, <1>6 DEF AdmissionInv, AdmissionTypeOK, AppointingHolds, RetiringHolds,
                            AcceptancesMatch, InWorkspace
  <2>2. RetirementLeavesNoneBehind'
    BY <1>2, <1>6 DEF AdmissionInv, RetirementLeavesNoneBehind, InWorkspace
  <2>3. \E m \in Memberships : /\ membership'[m].status = "active" /\ membership'[m].holder = p
                               /\ membership'[m].context = TenantWide
    BY <1>1, <1>2, <1>6 DEF AdmissionInv, AppointingHolds
  <2> QED
    BY <1>2, <1>4, <2>1, <2>2, <2>3 DEF AdmissionInv
<1>7. CASE \E m \in Memberships : GrantWithin(m, p, TenantWide, NoOne)
  <2>1. PICK m \in Memberships : GrantWithin(m, p, TenantWide, NoOne)
    BY <1>7
  <2>2. /\ membership' \in [Memberships -> MembershipRecords]
        /\ membership'[m].status = "active" /\ membership'[m].holder = p
        /\ membership'[m].context = TenantWide
        /\ membership[m].from = NoOne /\ membership'[m].from = NoOne
        /\ \A n \in Memberships \ {m} : membership'[n] = membership[n]
    BY <1>5, <2>1, GrantRows
  <2>3. AdmissionTypeOK'
    BY <1>2, <1>3, <2>2 DEF AdmissionInv, AdmissionTypeOK
  <2>4. RetiringHolds' /\ RetirementLeavesNoneBehind'
    BY <1>2, <1>5, <2>1, GrantKeeps
  <2>5. \A n \in Memberships : membership[n].status = "active" => membership'[n] = membership[n]
    BY <1>2, <1>5, <2>1, GrantKeeps
  <2>6. AppointingHolds'
    BY <1>3, <2>5 DEF AdmissionInv, AppointingHolds
  <2>7. AcceptancesMatch'
    BY <1>2, <2>2, AdmissionAssumption DEF AdmissionInv, AcceptancesMatch
  <2> QED
    BY <1>2, <1>4, <2>2, <2>3, <2>4, <2>6, <2>7 DEF AdmissionInv
<1> QED
  BY <1>1, <1>6, <1>7 DEF AppointCommit

(* Every step keeps the invariant. *)
LEMMA AdmissionInvStep ==
    ASSUME AdmissionInv, [AdmissionNext]_admissionVars
    PROVE  AdmissionInv'
<1>1. CASE UNCHANGED admissionVars
  BY <1>1 DEF AdmissionInv, AdmissionTypeOK, AskedProperly, AcceptingHolds, AcceptingExclude,
              AppointingHolds, RetiringHolds, AcceptancesMatch, RetirementLeavesNoneBehind,
              InWorkspace, admissionVars
<1> QED
  BY <1>1, WorkspaceStep, GrantStep, TransitionStep, InvitationStep, AskingStep, AcceptLockStep,
     AppointLockStep, AcceptCommitStep, AppointCommitStep DEF AdmissionNext

(* The inductive invariant holds in every reachable state. *)
THEOREM AdmissionInvariant == AdmissionSpec => []AdmissionInv
<1>1. AdmissionInv /\ [AdmissionNext]_admissionVars => AdmissionInv'
  BY AdmissionInvStep
<1> QED
  BY <1>1, AdmissionInvInit, PTL DEF AdmissionSpec

-----------------------------------------------------------------------------

(* Accept: an accepted invitation granted one Membership and completed one key, both its  *)
(* acceptor's; any other invitation neither.                                              *)
THEOREM InvitationAcceptedOnce == AdmissionSpec => []AcceptedExactlyOnce
<1>1. AdmissionInv => AcceptedExactlyOnce
  <2> SUFFICES ASSUME AdmissionInv, NEW i \in Invitations
               PROVE  LET granted == {m \in Memberships : membership[m].from = i}
                          answered == {pk \in Principals \X Keys : claim[pk[1]][pk[2]] = i}
                      IN  IF invitation[i].state = "accepted"
                          THEN /\ Cardinality(granted) = 1 /\ Cardinality(answered) = 1
                               /\ \A m \in granted : /\ membership[m].holder = invitation[i].by
                                                     /\ membership[m].context = invitation[i].context
                               /\ \A pk \in answered : pk[1] = invitation[i].by
                          ELSE granted = {} /\ answered = {}
    BY DEF AcceptedExactlyOnce
  <2> DEFINE granted == {m \in Memberships : membership[m].from = i}
             answered == {pk \in Principals \X Keys : claim[pk[1]][pk[2]] = i}
  <2>1. i # NoOne
    BY AdmissionAssumption
  <2>2. \A m \in granted : /\ invitation[i].state = "accepted"
                           /\ membership[m].holder = invitation[i].by
                           /\ membership[m].context = invitation[i].context
    BY <2>1 DEF AdmissionInv, AcceptancesMatch
  <2>3. \A pk \in answered : invitation[i].state = "accepted" /\ pk[1] = invitation[i].by
    BY <2>1 DEF AdmissionInv, AcceptancesMatch
  <2>4. ASSUME invitation[i].state = "accepted"
        PROVE  Cardinality(granted) = 1 /\ Cardinality(answered) = 1
    <3>1. PICK m \in Memberships : membership[m].from = i
      BY <2>4 DEF AdmissionInv, AcceptancesMatch
    <3>2. granted = {m}
      BY <2>1, <3>1 DEF AdmissionInv, AcceptancesMatch
    <3>3. PICK p \in Principals, k \in Keys : claim[p][k] = i
      BY <2>4 DEF AdmissionInv, AcceptancesMatch
    <3>4. <<p, k>> \in answered
      BY <3>3
    <3>5. ASSUME NEW pk \in answered
          PROVE  pk = <<p, k>>
      <4>1. pk[1] = p
        BY <2>3, <3>4
      <4>2. pk[2] = k
        BY <2>1, <3>3, <4>1 DEF AdmissionInv, AcceptancesMatch
      <4> QED
        BY <4>1, <4>2
    <3>6. answered = {<<p, k>>}
      BY <3>4, <3>5
    <3> HIDE DEF granted, answered
    <3> QED
      BY <3>2, <3>6, FS_Singleton
  <2> QED
    BY <2>2, <2>3, <2>4
<1> QED
  BY <1>1, AdmissionInvariant, PTL

(* ErrMembershipsPresent: no Membership granted before a Workspace was retired outlives   *)
(* the retirement unrevoked.                                                              *)
THEOREM RetiredWorkspaceIsEmpty == AdmissionSpec => []RetirementLeavesNoneBehind
<1>1. AdmissionInv => RetirementLeavesNoneBehind
  BY DEF AdmissionInv
<1> QED
  BY <1>1, AdmissionInvariant, PTL

(* adminMembershipStatement: whoever becomes an administrator holds an active Tenant-wide *)
(* Membership at that moment, however a suspension runs beside it.                        *)
THEOREM AdministratorsAreMembers == AdmissionSpec => AppointedWhileMember
<1> DEFINE Appointed ==
        \A p \in administrators' \ administrators :
            \E m \in Memberships : /\ membership'[m].status = "active"
                                   /\ membership'[m].holder = p
                                   /\ membership'[m].context = TenantWide
<1>1. ASSUME AdmissionInv, [AdmissionNext]_admissionVars
      PROVE  [Appointed]_admissionVars
  <2>1. CASE \E r \in Requests : AppointCommit(r)
    BY <1>1, <2>1, AppointCommitStep
  <2>2. CASE ~\E r \in Requests : AppointCommit(r)
    <3>1. administrators' \subseteq administrators
      BY <1>1, <2>2 DEF AdmissionNext, admissionVars, TenantTransition, CreateWorkspace, MoveWorkspace,
           RetireLock, RetireEnd, GrantMembership, MembershipTransition, Issue, Revoke, ExpireLapsed,
           ReadByToken, Match, Replay, AcceptLock, AcceptCommit, AppointLock, Forget, RevokeAdministrator,
           Tick
    <3> QED
      BY <3>1
  <2> QED
    BY <2>1, <2>2
<1> QED
  BY <1>1, AdmissionInvariant, PTL DEF AdmissionSpec, AppointedWhileMember
==============================================================================
