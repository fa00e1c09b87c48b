---------------------- MODULE MembershipAuthorityProofs ----------------------
(***************************************************************************)
(* The safety properties of MembershipAuthority, proved for every number   *)
(* of Memberships, every set of callers and every bound.                   *)
(*                                                                         *)
(* The inductive invariant adds to the properties what the row lock gives  *)
(* an open transaction: the row it decided on has not moved, and the       *)
(* Tenant's security version it read bounds every one published before.    *)
(***************************************************************************)
EXTENDS MembershipAuthority, TLAPS

(* What holds of an open transaction while it holds its row. *)
LockedRow(m) ==
    /\ tx[m].by \in Callers
    /\ tx[m].action \in MembershipActions \cup {"grant"}
    /\ mem[m].status \in MembershipFrom(tx[m].action)
    /\ mem[m].version < MaxVersion
    /\ tx[m].sec <= tenant.sec
    /\ \A e \in EventsOf(m) : e.sec <= tx[m].sec

TransactionsHold == \A m \in Memberships : tx[m] # NoTx => LockedRow(m)

(* A caller has one transaction open at a time. *)
OneTransactionEach ==
    \A m, n \in Memberships : tx[m] # NoTx /\ tx[n] # NoTx /\ tx[m].by = tx[n].by => m = n

(* No event is ahead of the Tenant's security version. *)
SecurityBound == \A e \in events : e.sec <= tenant.sec

(* A caller's view is of a version the Membership has held, and of its status then. *)
ViewsAreHistory ==
    \A c \in Callers : view[c].id # 0 =>
        /\ view[c].version <= mem[view[c].id].version
        /\ view[c].version = mem[view[c].id].version => view[c].status = mem[view[c].id].status

AuthorityInv ==
    /\ AuthorityTypeOK
    /\ TransactionsHold
    /\ OneTransactionEach
    /\ ViewsAreHistory
    /\ SecurityBound
    /\ EveryVersionHasItsEvent
    /\ HistoryFollowsTheMachine
    /\ SecurityVersionsFollowVersions
    /\ ActsOnWhatWasShown

-----------------------------------------------------------------------------

(* Every action of the Membership machine leads to a status of it. *)
LEMMA MembershipMachine ==
    ASSUME NEW a \in MembershipActions \cup {"grant"}
    PROVE  MembershipTo(a) \in MembershipStates
  BY DEF MembershipActions, MembershipTo, MembershipStates

(* Every action of the Tenant machine leads to a status of it. *)
LEMMA TenantMachine ==
    ASSUME NEW a \in TenantActions
    PROVE  TenantTo(a) \in TenantStates
  BY DEF TenantActions, ProvisioningActions, OffboardingActions, TenantTo, TenantStates

(* A Tenant transition keeps the row's type and never lowers its security version. *)
LEMMA AfterTenantType ==
    ASSUME NEW t \in [status : TenantStates, version : Nat, sec : Nat],
           NEW a \in TenantActions
    PROVE  /\ AfterTenant(t, a) \in [status : TenantStates, version : Nat, sec : Nat]
           /\ AfterTenant(t, a).sec >= t.sec
  BY TenantMachine DEF AfterTenant

(* The empty transaction and the empty view have their types. *)
LEMMA EmptyRecords ==
    /\ NoTx \in [action : MembershipActions \cup {"grant", "none"},
                 by : Callers \cup {"nobody"}, sec : Nat]
    /\ NoView \in [id : Memberships \cup {0}, status : MembershipStates \cup {"none"},
                   version : 0..MaxVersion]
  BY AuthorityAssumption DEF NoTx, NoView

(* The initial state satisfies the invariant. *)
LEMMA AuthorityInvInit == AuthorityInit => AuthorityInv
<1> SUFFICES ASSUME AuthorityInit PROVE AuthorityInv
  OBVIOUS
<1> USE AuthorityAssumption DEF AuthorityInit, InitialTenant, NoMembership, NoTx, NoView
<1>1. AuthorityTypeOK
  BY DEF AuthorityTypeOK, TenantEvent, TenantStates, MembershipStates
<1>2. \A m \in Memberships : EventsOf(m) = {}
  BY DEF EventsOf, TenantEvent, Memberships
<1>3. TransactionsHold /\ OneTransactionEach /\ ViewsAreHistory /\ ActsOnWhatWasShown
  BY DEF TransactionsHold, OneTransactionEach, ViewsAreHistory, ActsOnWhatWasShown,
         MembershipActions
<1>4. SecurityBound
  BY DEF SecurityBound, TenantEvent
<1>5. EveryVersionHasItsEvent /\ HistoryFollowsTheMachine /\ SecurityVersionsFollowVersions
  BY <1>2 DEF EveryVersionHasItsEvent, HistoryFollowsTheMachine, SecurityVersionsFollowVersions
<1> QED
  BY <1>1, <1>3, <1>4, <1>5 DEF AuthorityInv

(* Steps that change no row and no event keep what is said of rows and events. *)
LEMMA HistoryUnchanged ==
    ASSUME AuthorityInv, UNCHANGED <<mem, events>>
    PROVE  /\ EveryVersionHasItsEvent'
           /\ HistoryFollowsTheMachine'
           /\ SecurityVersionsFollowVersions'
  BY DEF AuthorityInv, EveryVersionHasItsEvent, HistoryFollowsTheMachine,
         SecurityVersionsFollowVersions, EventsOf

(* Showing a Membership. *)
LEMMA ShowKeeps ==
    ASSUME AuthorityInv, NEW c \in Callers, NEW m \in Memberships, Show(c, m)
    PROVE  AuthorityInv'
<1> USE DEF AuthorityInv, Show
<1>1. AuthorityTypeOK'
  BY DEF AuthorityTypeOK
<1>2. TransactionsHold'
  BY DEF TransactionsHold, LockedRow, EventsOf
<1>3. OneTransactionEach' /\ SecurityBound'
  BY DEF OneTransactionEach, SecurityBound
<1>4. ViewsAreHistory'
  BY DEF ViewsAreHistory, AuthorityTypeOK, Memberships
<1>5. ActsOnWhatWasShown'
  BY DEF ActsOnWhatWasShown, InFlight, AuthorityTypeOK
<1> QED
  BY <1>1, <1>2, <1>3, <1>4, <1>5, HistoryUnchanged

(* Opening a grant: the id is fresh, so it has no event. *)
LEMMA BeginGrantKeeps ==
    ASSUME AuthorityInv, NEW c \in Callers, NEW m \in Memberships, BeginGrant(c, m)
    PROVE  AuthorityInv'
<1> USE DEF AuthorityInv, BeginGrant, TenantSecurityVersion
<1>1. AuthorityTypeOK'
  BY AuthorityAssumption DEF AuthorityTypeOK, NoView
<1>2. mem[m].version < MaxVersion /\ mem[m].status \in MembershipFrom("grant")
  <2>1. mem[m].version = 0
    <3> SUFFICES ASSUME mem[m].version # 0 PROVE FALSE
      OBVIOUS
    <3>1. mem[m].version \in 1..mem[m].version
      BY AuthorityAssumption DEF AuthorityTypeOK
    <3>2. PICK e \in EventsOf(m) : e.version = mem[m].version
      BY <3>1 DEF EveryVersionHasItsEvent
    <3>3. e.status = "none"
      BY <3>2 DEF EveryVersionHasItsEvent
    <3>4. e.status \in MembershipStates \cup TenantStates
      BY DEF AuthorityTypeOK, EventsOf
    <3> QED
      BY <3>3, <3>4 DEF MembershipStates, TenantStates
  <2>2. MembershipFrom("grant") = {"none"}
    BY DEF MembershipFrom
  <2> QED
    BY <2>1, <2>2
<1>3. TransactionsHold'
  <2> SUFFICES ASSUME NEW n \in Memberships, tx'[n] # NoTx
               PROVE  LockedRow(n)'
    BY DEF TransactionsHold
  <2>1. CASE n = m
    BY <2>1, <1>2 DEF LockedRow, AuthorityTypeOK, SecurityBound, EventsOf
  <2>2. CASE n # m
    BY <2>2 DEF LockedRow, TransactionsHold, AuthorityTypeOK, EventsOf
  <2> QED
    BY <2>1, <2>2
<1>4. OneTransactionEach' /\ SecurityBound'
  BY DEF OneTransactionEach, SecurityBound, InFlight, AuthorityTypeOK
<1>5. ViewsAreHistory'
  BY DEF ViewsAreHistory, AuthorityTypeOK, NoView
<1>6. ActsOnWhatWasShown'
  BY DEF ActsOnWhatWasShown, InFlight, AuthorityTypeOK, MembershipActions
<1> QED
  BY <1>1, <1>3, <1>4, <1>5, <1>6, HistoryUnchanged

(* Opening a transition: decide compared the row with the caller's view. *)
LEMMA BeginTransitionKeeps ==
    ASSUME AuthorityInv, NEW c \in Callers, NEW a \in MembershipActions, BeginTransition(c, a)
    PROVE  AuthorityInv'
<1> DEFINE m == view[c].id
<1> USE DEF AuthorityInv, BeginTransition, TenantSecurityVersion
<1>0. m \in Memberships
  BY DEF AuthorityTypeOK
<1>1. AuthorityTypeOK'
  BY <1>0 DEF AuthorityTypeOK
<1>2. TransactionsHold'
  <2> SUFFICES ASSUME NEW n \in Memberships, tx'[n] # NoTx
               PROVE  LockedRow(n)'
    BY DEF TransactionsHold
  <2>1. CASE n = m
    BY <2>1, <1>0 DEF LockedRow, AuthorityTypeOK, SecurityBound, EventsOf, Decide
  <2>2. CASE n # m
    BY <2>2, <1>0 DEF LockedRow, TransactionsHold, AuthorityTypeOK, EventsOf
  <2> QED
    BY <2>1, <2>2
<1>3. OneTransactionEach' /\ SecurityBound' /\ ViewsAreHistory'
  BY <1>0 DEF OneTransactionEach, SecurityBound, InFlight, AuthorityTypeOK, ViewsAreHistory
<1>4. ActsOnWhatWasShown'
  <2> SUFFICES ASSUME NEW n \in Memberships, tx'[n].action \in MembershipActions
               PROVE  /\ view[tx'[n].by].id = n
                      /\ view[tx'[n].by].status = mem[n].status
                      /\ view[tx'[n].by].version = mem[n].version
    BY DEF ActsOnWhatWasShown
  <2>1. CASE n = m
    BY <2>1, <1>0 DEF AuthorityTypeOK, ViewsAreHistory, Decide
  <2>2. CASE n # m
    BY <2>2, <1>0 DEF AuthorityTypeOK, ActsOnWhatWasShown
  <2> QED
    BY <2>1, <2>2
<1> QED
  BY <1>1, <1>2, <1>3, <1>4, HistoryUnchanged

(* Rolling a transaction back. *)
LEMMA RollbackKeeps ==
    ASSUME AuthorityInv, NEW m \in Memberships, Rollback(m)
    PROVE  AuthorityInv'
<1> USE DEF AuthorityInv, Rollback
<1>1. AuthorityTypeOK'
  BY EmptyRecords DEF AuthorityTypeOK
<1>2. TransactionsHold'
  BY DEF TransactionsHold, LockedRow, AuthorityTypeOK, EventsOf
<1>3. OneTransactionEach' /\ SecurityBound'
  BY DEF OneTransactionEach, SecurityBound, AuthorityTypeOK
<1>4. ViewsAreHistory'
  BY DEF ViewsAreHistory, AuthorityTypeOK, NoView
<1>5. ActsOnWhatWasShown'
  BY DEF ActsOnWhatWasShown, OneTransactionEach, TransactionsHold, LockedRow, AuthorityTypeOK,
         NoTx, MembershipActions
<1> QED
  BY <1>1, <1>2, <1>3, <1>4, <1>5, HistoryUnchanged

(* Committing: the row moves to the next version and the event of that version, which  *)
(* is past every event the Membership had, is appended with it.                         *)
LEMMA CommitKeeps ==
    ASSUME AuthorityInv, NEW m \in Memberships, Commit(m)
    PROVE  AuthorityInv'
<1> DEFINE r == AfterMembership(m)
           new == MembershipEvent(m, r.status, r.version, tx[m].sec)
<1> USE DEF AuthorityInv
<1>0. LockedRow(m)
  BY DEF Commit, TransactionsHold
<1>1. /\ r.status \in MembershipStates
      /\ r.status = MembershipTo(tx[m].action)
      /\ r.version = mem[m].version + 1
      /\ r.version \in 1..MaxVersion
      /\ r \in [status : MembershipStates \cup {"none"}, version : 0..MaxVersion]
  BY <1>0, MembershipMachine, AuthorityAssumption
     DEF AfterMembership, LockedRow, AuthorityTypeOK
<1>2. /\ new.id = m /\ new.status = r.status /\ new.version = r.version /\ new.sec = tx[m].sec
      /\ new \in [id : Memberships \cup {0}, status : MembershipStates \cup TenantStates,
                  version : Nat, sec : Nat]
  BY <1>1, AuthorityAssumption DEF MembershipEvent, AuthorityTypeOK
<1>3. /\ mem' = [mem EXCEPT ![m] = r]
      /\ events' = events \cup {new}
      /\ tx' = [tx EXCEPT ![m] = NoTx]
      /\ view' = [view EXCEPT ![tx[m].by] = NoView]
      /\ tenant' = tenant
  BY DEF Commit
<1>4. /\ EventsOf(m)' = EventsOf(m) \cup {new}
      /\ \A n \in Memberships : n # m => EventsOf(n)' = EventsOf(n)
  BY <1>2, <1>3 DEF EventsOf
<1> HIDE DEF r, new
<1>5. AuthorityTypeOK'
  BY <1>1, <1>2, <1>3, EmptyRecords DEF AuthorityTypeOK
<1>6. TransactionsHold'
  <2> SUFFICES ASSUME NEW n \in Memberships, tx'[n] # NoTx
               PROVE  LockedRow(n)'
    BY DEF TransactionsHold
  <2>1. n # m /\ tx[n] # NoTx /\ tx'[n] = tx[n] /\ mem'[n] = mem[n]
    BY <1>3 DEF AuthorityTypeOK
  <2>2. LockedRow(n)
    BY <2>1 DEF TransactionsHold
  <2> QED
    BY <2>1, <2>2, <1>3, <1>4 DEF LockedRow
<1>7. OneTransactionEach'
  BY <1>3 DEF OneTransactionEach, AuthorityTypeOK
<1>8. SecurityBound'
  BY <1>0, <1>2, <1>3 DEF SecurityBound, LockedRow
<1>9. ViewsAreHistory'
  BY <1>1, <1>3, AuthorityAssumption DEF ViewsAreHistory, AuthorityTypeOK, NoView
<1>10. EveryVersionHasItsEvent'
  <2> SUFFICES ASSUME NEW n \in Memberships
               PROVE  /\ \A e \in EventsOf(n)' : e.version \in 1..mem'[n].version
                      /\ \A v \in 1..mem'[n].version : \E e \in EventsOf(n)' : e.version = v
                      /\ \A e, f \in EventsOf(n)' : e.version = f.version => e = f
                      /\ \A e \in EventsOf(n)' :
                            e.version = mem'[n].version => e.status = mem'[n].status
    BY DEF EveryVersionHasItsEvent
  <2>1. CASE n # m
    BY <2>1, <1>3, <1>4 DEF EveryVersionHasItsEvent, AuthorityTypeOK
  <2>2. CASE n = m
    <3>1. mem'[m] = r /\ mem[m].version \in Nat
      BY <1>3 DEF AuthorityTypeOK
    <3>2. /\ \A e \in EventsOf(m) : e.version \in 1..mem[m].version
          /\ \A v \in 1..mem[m].version : \E e \in EventsOf(m) : e.version = v
          /\ \A e, f \in EventsOf(m) : e.version = f.version => e = f
      BY DEF EveryVersionHasItsEvent
    <3>3. \A e \in EventsOf(m)' : e.version \in 1..r.version
      BY <1>1, <1>2, <1>4, <3>1, <3>2
    <3>4. \A v \in 1..r.version : \E e \in EventsOf(m)' : e.version = v
      BY <1>1, <1>2, <1>4, <3>1, <3>2
    <3>5. \A e, f \in EventsOf(m)' : e.version = f.version => e = f
      BY <1>1, <1>2, <1>4, <3>1, <3>2
    <3>6. \A e \in EventsOf(m)' : e.version = r.version => e.status = r.status
      BY <1>1, <1>2, <1>4, <3>1, <3>2
    <3> QED
      BY <2>2, <3>1, <3>3, <3>4, <3>5, <3>6
  <2> QED
    BY <2>1, <2>2
<1>11. HistoryFollowsTheMachine'
  <2> SUFFICES ASSUME NEW n \in Memberships, NEW e \in EventsOf(n)', NEW f \in EventsOf(n)',
                      f.version = e.version + 1
               PROVE  \E a \in MembershipActions :
                          e.status \in MembershipFrom(a) /\ f.status = MembershipTo(a)
    BY DEF HistoryFollowsTheMachine
  <2>1. CASE e \in EventsOf(n) /\ f \in EventsOf(n)
    BY <2>1 DEF HistoryFollowsTheMachine
  <2>2. CASE n = m /\ f = new /\ e # new
    <3>1. e \in EventsOf(m) /\ mem[m].version \in Nat /\ e.version \in Nat
      BY <2>2, <1>4 DEF AuthorityTypeOK, EventsOf
    <3>2. e.version = mem[m].version
      BY <2>2, <3>1, <1>1, <1>2
    <3>3. e.status = mem[m].status
      BY <3>1, <3>2 DEF EveryVersionHasItsEvent
    <3>4. e.status # "none"
      BY <3>1 DEF AuthorityTypeOK, EventsOf, MembershipStates, TenantStates
    <3>5. tx[m].action # "grant"
      <4>1. MembershipFrom("grant") = {"none"}
        BY DEF MembershipFrom
      <4> QED
        BY <4>1, <3>3, <3>4, <1>0 DEF LockedRow
    <3> QED
      BY <2>2, <3>3, <3>5, <1>0, <1>1, <1>2 DEF LockedRow
  <2>3. CASE n = m /\ e = new
    <3>1. e.version = mem[m].version + 1 /\ mem[m].version \in Nat
      BY <2>3, <1>1, <1>2 DEF AuthorityTypeOK
    <3>2. f = new \/ f.version \in 1..mem[m].version
      BY <2>3, <1>4 DEF EveryVersionHasItsEvent
    <3> QED
      BY <2>3, <3>1, <3>2
  <2> QED
    BY <2>1, <2>2, <2>3, <1>4
<1>12. SecurityVersionsFollowVersions'
  <2> SUFFICES ASSUME NEW n \in Memberships, NEW e \in EventsOf(n)', NEW f \in EventsOf(n)',
                      e.version < f.version
               PROVE  e.sec <= f.sec
    BY DEF SecurityVersionsFollowVersions
  <2>1. CASE e \in EventsOf(n) /\ f \in EventsOf(n)
    BY <2>1 DEF SecurityVersionsFollowVersions
  <2>2. CASE n = m /\ f = new /\ e \in EventsOf(m)
    BY <2>2, <1>0, <1>2 DEF LockedRow
  <2>3. CASE n = m /\ e = new
    <3>1. e.version = mem[m].version + 1 /\ mem[m].version \in Nat
      BY <2>3, <1>1, <1>2 DEF AuthorityTypeOK
    <3>2. f = new \/ f.version \in 1..mem[m].version
      BY <2>3, <1>4 DEF EveryVersionHasItsEvent
    <3> QED
      BY <2>3, <3>1, <3>2
  <2> QED
    BY <2>1, <2>2, <2>3, <1>4
<1>13. ActsOnWhatWasShown'
  <2> SUFFICES ASSUME NEW n \in Memberships, tx'[n].action \in MembershipActions
               PROVE  /\ view'[tx'[n].by].id = n
                      /\ view'[tx'[n].by].status = mem'[n].status
                      /\ view'[tx'[n].by].version = mem'[n].version
    BY DEF ActsOnWhatWasShown
  <2>1. n # m /\ tx'[n] = tx[n] /\ mem'[n] = mem[n] /\ tx[n] # NoTx
    BY <1>3 DEF AuthorityTypeOK, NoTx, MembershipActions
  <2>2. tx[n].by \in Callers /\ tx[n].by # tx[m].by
    BY <2>1 DEF Commit, OneTransactionEach, TransactionsHold, LockedRow
  <2>3. view'[tx[n].by] = view[tx[n].by]
    BY <2>2, <1>3 DEF AuthorityTypeOK
  <2> QED
    BY <2>1, <2>2, <2>3 DEF ActsOnWhatWasShown
<1> QED
  BY <1>5, <1>6, <1>7, <1>8, <1>9, <1>10, <1>11, <1>12, <1>13

(* A Tenant transition: its event is no Membership's, and its security version only    *)
(* rises above the ones published.                                                      *)
LEMMA TenantTransitionKeeps ==
    ASSUME AuthorityInv, NEW a \in TenantActions, TenantTransition(a)
    PROVE  AuthorityInv'
<1> USE DEF AuthorityInv
<1>1. /\ tenant' \in [status : TenantStates, version : Nat, sec : Nat]
      /\ tenant'.sec >= tenant.sec
      /\ tenant.sec \in Nat
      /\ UNCHANGED <<mem, tx, view>>
  BY AfterTenantType DEF AuthorityTypeOK, TenantTransition
<1>2. /\ TenantEvent(tenant').id = 0
      /\ TenantEvent(tenant').sec = tenant'.sec
      /\ TenantEvent(tenant') \in [id : Memberships \cup {0},
                                   status : MembershipStates \cup TenantStates,
                                   version : Nat, sec : Nat]
  BY <1>1 DEF TenantEvent
<1>3. events' = events \/ events' = events \cup {TenantEvent(tenant')}
  BY DEF TenantTransition
<1>4. \A m \in Memberships : EventsOf(m)' = EventsOf(m)
  BY <1>2, <1>3, AuthorityAssumption DEF EventsOf, Memberships
<1>5. AuthorityTypeOK'
  BY <1>1, <1>2, <1>3 DEF AuthorityTypeOK
<1>6. TransactionsHold'
  <2> SUFFICES ASSUME NEW m \in Memberships, tx[m] # NoTx
               PROVE  LockedRow(m)'
    BY <1>1 DEF TransactionsHold
  <2>1. LockedRow(m) /\ tx[m].sec \in Nat
    BY DEF TransactionsHold, AuthorityTypeOK
  <2> QED
    BY <2>1, <1>1, <1>4 DEF LockedRow
<1>7. OneTransactionEach' /\ ViewsAreHistory' /\ ActsOnWhatWasShown'
  BY <1>1 DEF OneTransactionEach, ViewsAreHistory, ActsOnWhatWasShown
<1>8. SecurityBound'
  BY <1>1, <1>2, <1>3 DEF SecurityBound, AuthorityTypeOK
<1>9. EveryVersionHasItsEvent' /\ HistoryFollowsTheMachine' /\ SecurityVersionsFollowVersions'
  BY <1>1, <1>4 DEF EveryVersionHasItsEvent, HistoryFollowsTheMachine,
                    SecurityVersionsFollowVersions
<1> QED
  BY <1>5, <1>6, <1>7, <1>8, <1>9

(* Every step of authority keeps the invariant. *)
LEMMA AuthorityInvStep == AuthorityInv /\ [AuthorityNext]_authorityVars => AuthorityInv'
<1> SUFFICES ASSUME AuthorityInv, [AuthorityNext]_authorityVars PROVE AuthorityInv'
  OBVIOUS
<1>1. CASE UNCHANGED authorityVars
  <2>1. UNCHANGED <<tenant, mem, tx, view, events>>
    BY <1>1 DEF authorityVars
  <2>2. AuthorityTypeOK' /\ TransactionsHold' /\ OneTransactionEach' /\ ViewsAreHistory'
    BY <2>1 DEF AuthorityInv, AuthorityTypeOK, TransactionsHold, OneTransactionEach,
                ViewsAreHistory, LockedRow, EventsOf
  <2>3. SecurityBound' /\ ActsOnWhatWasShown'
    BY <2>1 DEF AuthorityInv, SecurityBound, ActsOnWhatWasShown
  <2> QED
    BY <2>1, <2>2, <2>3, HistoryUnchanged DEF AuthorityInv
<1>2. CASE \E c \in Callers, m \in Memberships : Show(c, m) \/ BeginGrant(c, m)
  BY <1>2, ShowKeeps, BeginGrantKeeps
<1>3. CASE \E c \in Callers, a \in MembershipActions : BeginTransition(c, a)
  BY <1>3, BeginTransitionKeeps
<1>4. CASE \E m \in Memberships : Commit(m) \/ Rollback(m)
  BY <1>4, CommitKeeps, RollbackKeeps
<1>5. CASE \E a \in TenantActions \ ProvisioningActions : TenantTransition(a)
  BY <1>5, TenantTransitionKeeps
<1> QED
  BY <1>1, <1>2, <1>3, <1>4, <1>5 DEF AuthorityNext

-----------------------------------------------------------------------------

(* The inductive invariant, from which every safety property below follows. *)
THEOREM AuthorityInvariant == AuthoritySpec => []AuthorityInv
  BY AuthorityInvInit, AuthorityInvStep, PTL DEF AuthoritySpec

(* Every variable of authority keeps its type and no version passes its bound. *)
THEOREM AuthorityTypes == AuthoritySpec => []AuthorityTypeOK
<1>1. AuthorityInv => AuthorityTypeOK
  BY DEF AuthorityInv
<1> QED
  BY <1>1, AuthorityInvariant, PTL

(* Every version a Membership has held has exactly one event, the newest carrying its  *)
(* row's status, whatever transactions interleave and roll back.                        *)
THEOREM OutboxIsComplete == AuthoritySpec => []EveryVersionHasItsEvent
<1>1. AuthorityInv => EveryVersionHasItsEvent
  BY DEF AuthorityInv
<1> QED
  BY <1>1, AuthorityInvariant, PTL

(* In version order a Membership's events follow the state machine. *)
THEOREM HistoryIsLegal == AuthoritySpec => []HistoryFollowsTheMachine
<1>1. AuthorityInv => HistoryFollowsTheMachine
  BY DEF AuthorityInv
<1> QED
  BY <1>1, AuthorityInvariant, PTL

(* The security versions of a Membership's events rise with their versions. *)
THEOREM SecurityIsMonotone == AuthoritySpec => []SecurityVersionsFollowVersions
<1>1. AuthorityInv => SecurityVersionsFollowVersions
  BY DEF AuthorityInv
<1> QED
  BY <1>1, AuthorityInvariant, PTL

(* A transition acts on the Membership its caller was shown. *)
THEOREM NoLostDecision == AuthoritySpec => []ActsOnWhatWasShown
<1>1. AuthorityInv => ActsOnWhatWasShown
  BY DEF AuthorityInv
<1> QED
  BY <1>1, AuthorityInvariant, PTL

-----------------------------------------------------------------------------
(* The refinement. *)

(* Appending a Membership event appends it to the ledger without its security version. *)
LEMMA CommittedMembershipEvent ==
    ASSUME NEW m \in Memberships, NEW r, NEW sec,
           events' = events \cup {MembershipEvent(m, r.status, r.version, sec)}
    PROVE  Committed' = Committed \cup {Ledger!MembershipEvent(m, r)}
<1> DEFINE x == MembershipEvent(m, r.status, r.version, sec)
           forget(e) == [e EXCEPT !.sec = IF e.id = 0 THEN e.sec ELSE 0]
<1>1. m # 0
  BY AuthorityAssumption DEF Memberships
<1>2. forget(x) = Ledger!MembershipEvent(m, r)
  BY <1>1 DEF MembershipEvent, Ledger!MembershipEvent
<1>3. Committed = {forget(e) : e \in events} /\ Committed' = {forget(e) : e \in events'}
  BY DEF Committed
<1> HIDE DEF x, forget
<1>4. events' = events \cup {x}
  BY DEF x
<1> QED
  BY <1>2, <1>3, <1>4

(* A Tenant event is appended to the ledger as it is. *)
LEMMA CommittedTenantEvent ==
    ASSUME NEW t, events' = events \cup {TenantEvent(t)}
    PROVE  Committed' = Committed \cup {Ledger!TenantEvent(t)}
<1> DEFINE x == TenantEvent(t)
           forget(e) == [e EXCEPT !.sec = IF e.id = 0 THEN e.sec ELSE 0]
<1>1. forget(x) = Ledger!TenantEvent(t)
  BY DEF TenantEvent, Ledger!TenantEvent
<1>2. Committed = {forget(e) : e \in events} /\ Committed' = {forget(e) : e \in events'}
  BY DEF Committed
<1> HIDE DEF x, forget
<1>3. events' = events \cup {x}
  BY DEF x
<1> QED
  BY <1>1, <1>2, <1>3

(* The initial states of authority are initial states of the ledger. *)
LEMMA LedgerInitially == AuthorityInit => Ledger!LedgerInit
<1> SUFFICES ASSUME AuthorityInit PROVE Ledger!LedgerInit
  OBVIOUS
<1>1. Committed = {Ledger!TenantEvent(InitialTenant)}
  BY DEF AuthorityInit, Committed, TenantEvent, InitialTenant, Ledger!TenantEvent
<1> QED
  BY <1>1 DEF AuthorityInit, Ledger!LedgerInit, InitialTenant, Ledger!InitialTenant,
              Memberships, Ledger!Memberships, NoMembership, Ledger!NoMembership

(* A commit is a change of the ledger; every other step of a transaction leaves it be. *)
LEMMA LedgerStep ==
    AuthorityInv /\ [AuthorityNext]_authorityVars => [Ledger!LedgerNext]_(Ledger!ledgerVars)
<1> SUFFICES ASSUME AuthorityInv, [AuthorityNext]_authorityVars
             PROVE  Ledger!LedgerNext \/ UNCHANGED <<tenant, mem, Committed>>
  BY DEF Ledger!ledgerVars
<1>1. UNCHANGED events => UNCHANGED Committed
  BY DEF Committed
<1>2. CASE UNCHANGED authorityVars
  BY <1>1, <1>2 DEF authorityVars
<1>3. CASE \E c \in Callers, m \in Memberships : Show(c, m) \/ BeginGrant(c, m)
  BY <1>1, <1>3 DEF Show, BeginGrant
<1>4. CASE \E c \in Callers, a \in MembershipActions : BeginTransition(c, a)
  BY <1>1, <1>4 DEF BeginTransition
<1>5. ASSUME NEW m \in Memberships, Rollback(m)
      PROVE  UNCHANGED <<tenant, mem, Committed>>
  BY <1>1, <1>5 DEF Rollback
<1>6. ASSUME NEW m \in Memberships, Commit(m)
      PROVE  Ledger!LedgerNext
  <2> DEFINE a == tx[m].action
             r == AfterMembership(m)
  <2>1. LockedRow(m)
    BY <1>6 DEF AuthorityInv, TransactionsHold, Commit
  <2>2. mem' = [mem EXCEPT ![m] = r] /\ UNCHANGED tenant /\ mem'[m] = r
    BY <1>6 DEF Commit, AuthorityInv, AuthorityTypeOK
  <2>3. Committed' = Committed \cup {Ledger!MembershipEvent(m, mem'[m])}
    BY <1>6, <2>2, CommittedMembershipEvent DEF Commit
  <2>4. r = [status |-> MembershipTo(a), version |-> mem[m].version + 1]
    BY DEF AfterMembership
  <2>5. Ledger!MembershipChange(m, a)
    BY <2>1, <2>2, <2>3, <2>4
       DEF LockedRow, Ledger!MembershipChange, MembershipFrom, Ledger!MembershipFrom,
           MembershipTo, Ledger!MembershipTo
  <2>6. m \in Ledger!Memberships /\ a \in Ledger!MembershipActions \cup {"grant"}
    BY <2>1 DEF LockedRow, Memberships, Ledger!Memberships, MembershipActions,
                Ledger!MembershipActions
  <2> QED
    BY <2>5, <2>6 DEF Ledger!LedgerNext
<1>7. ASSUME NEW a \in TenantActions \ ProvisioningActions, TenantTransition(a)
      PROVE  Ledger!LedgerNext
  <2>1. ~Silent(a)
    BY DEF Silent, ProvisioningActions
  <2>2. Committed' = Committed \cup {Ledger!TenantEvent(tenant')}
    BY <1>7, <2>1, CommittedTenantEvent DEF TenantTransition
  <2>3. Ledger!TenantChange(a)
    BY <1>7, <2>2
       DEF TenantTransition, Ledger!TenantChange, TenantFrom, Ledger!TenantFrom,
           AfterTenant, Ledger!AfterTenant, TenantTo, Ledger!TenantTo,
           IncrementsSecurity, Ledger!IncrementsSecurity, ProvisioningActions,
           Ledger!ProvisioningActions
  <2>4. a \in Ledger!TenantActions \ Ledger!ProvisioningActions
    BY DEF TenantActions, Ledger!TenantActions, ProvisioningActions, Ledger!ProvisioningActions,
           OffboardingActions, Ledger!OffboardingActions
  <2> QED
    BY <2>3, <2>4 DEF Ledger!LedgerNext
<1> QED
  BY <1>2, <1>3, <1>4, <1>5, <1>6, <1>7 DEF AuthorityNext

(* Authority, with its row locks and open transactions, implements the ledger: outside *)
(* a transaction nothing else can be observed.                                          *)
THEOREM AuthorityImplementsLedger == AuthoritySpec => ImplementsLedger
  BY AuthorityInvariant, LedgerInitially, LedgerStep, PTL
     DEF AuthoritySpec, ImplementsLedger, Ledger!LedgerSpec
==============================================================================
