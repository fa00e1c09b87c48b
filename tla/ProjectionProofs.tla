--------------------------- MODULE ProjectionProofs ---------------------------
(***************************************************************************)
(* The safety properties of Projection, proved for any number of           *)
(* Memberships, any page size and any bounds on versions, bootstraps,      *)
(* repairs and incidents.                                                  *)
(*                                                                         *)
(* Two ideas make them inductive.  First, whatever the consumer holds, was *)
(* sent, buffered, read from a page or was told by a repair is a state     *)
(* that authority committed, and the log has one state of each version; so *)
(* versions can be compared.  Second, the event of authority's current     *)
(* state is always owed, dead-lettered, buffered or handled, and one that  *)
(* was handled shows in the consumer's copy: in its rows and, while a      *)
(* bootstrap runs, in the pages read so far.                               *)
(*                                                                         *)
(* What closing an incident rests on needs a third: ReflectionInv says of  *)
(* every event ever handled, current or not, that the copy is at or past   *)
(* it, or that its row was forgotten; and that whatever will change the    *)
(* copy, a page or a repair of the model the consumer holds now, is at or  *)
(* past it too.                                                            *)
(***************************************************************************)
EXTENDS Projection, FiniteSetTheorems, WellFoundedInduction, TLAPS

RowRecords == [status : MembershipStates \cup {"none"}, version : Nat]
TenantRecords == [status : TenantStates, version : Nat, sec : Nat]
MembershipEvents ==
    [id : Memberships, status : MembershipStates, version : Nat \ {0}, sec : {0}]
TenantEvents == [id : {0}, status : TenantStates, version : Nat, sec : Nat]
ReportRecords == [id : Memberships, version : Nat]
FindingRecords == [id : Memberships, state : RowRecords, projected : Nat]
RepairRecords == [mark : Nat, findings : SUBSET FindingRecords]
SweepRecords == [phase : {"idle", "reported", "compared"}, mark : Nat,
                 report : SUBSET ReportRecords, findings : SUBSET FindingRecords]
BootRecords == [phase : {"none", "reading", "read"}, cursor : Nat,
                page : SUBSET MembershipEvents, tenant : TenantRecords \cup {NoTenant},
                buffer : SUBSET (MembershipEvents \cup TenantEvents), count : Nat]

(* Every variable has its type. *)
ProjectionTypeOK ==
    /\ tenant \in TenantRecords
    /\ mem \in [Memberships -> RowRecords]
    /\ log \in SUBSET (MembershipEvents \cup TenantEvents)
    /\ rows \in [Memberships -> RowRecords]
    /\ ctenant \in TenantRecords
    /\ sweep \in SweepRecords
    /\ repairs \in SUBSET RepairRecords
    /\ boot \in BootRecords

(* The event of a Membership's state, and the Tenant's, as authority has them now. *)
Current(m) == MembershipEvent(m, mem[m])
CurrentTenant == TenantEvent(tenant)

(* The log holds authority's current states, and every other event in it is older; a   *)
(* revocation is never an older one, because nothing follows it.                       *)
LogIsHistory ==
    /\ \A m \in Memberships : mem[m] = NoMembership \/ Current(m) \in log
    /\ CurrentTenant \in log
    /\ \A e \in log : e.id # 0 =>
          \/ e = Current(e.id)
          \/ e.version < mem[e.id].version /\ e.status # "revoked"
    /\ \A e \in log : e.id = 0 => e = CurrentTenant \/ e.sec < tenant.sec

(* What the consumer was sent, holds or has read was committed. *)
CopiesAreCommitted ==
    /\ inbox \subseteq log /\ receipts \subseteq inbox
    /\ owed \subseteq log /\ dead \subseteq log /\ closed \subseteq log
    /\ boot.page \subseteq log /\ boot.buffer \subseteq log
    /\ \A m \in Memberships : rows[m] = NoMembership \/ MembershipEvent(m, rows[m]) \in log
    /\ TenantEvent(ctenant) \in log
    /\ boot.tenant = NoTenant \/ TenantEvent(boot.tenant) \in log

(* A report is not ahead of authority, and a finding carries a committed state: a       *)
(* repair never tells the consumer to remove a row.                                     *)
FindingsAreCommitted ==
    /\ \A r \in sweep.report : r.version <= mem[r.id].version
    /\ \A f \in sweep.findings : MembershipEvent(f.id, f.state) \in log
    /\ \A r \in repairs : \A f \in r.findings : MembershipEvent(f.id, f.state) \in log

(* Only a bootstrap buffers. *)
BufferIsOfABootstrap ==
    /\ boot.phase = "none" => boot.buffer = {}
    /\ boot.count = 0 => boot.phase = "none"

(* The event of a current state is owed, dead-lettered, buffered or handled. *)
Traced(e) == e \in owed \cup dead \cup inbox \cup boot.buffer
CurrentIsTraced ==
    /\ \A m \in Memberships : mem[m] = NoMembership \/ Traced(Current(m))
    /\ Traced(CurrentTenant)

(* A current state whose event was handled shows in the copy, and while a bootstrap     *)
(* runs in what has been read of it.                                                    *)
HandledShows(m) ==
    Current(m) \in inbox =>
        /\ rows[m] = mem[m] \/ (boot.count > 0 /\ mem[m].status # "active")
        /\ boot.phase = "reading" /\ m <= boot.cursor /\ mem[m].status = "active"
              => Current(m) \in boot.page
        /\ boot.phase = "read" /\ mem[m].status = "active" => Current(m) \in boot.page
TenantHandledShows ==
    CurrentTenant \in inbox =>
        ctenant = tenant /\ (boot.phase # "none" => boot.tenant \in {NoTenant, tenant})

ProjectionInv ==
    /\ ProjectionTypeOK
    /\ LogIsHistory
    /\ CopiesAreCommitted
    /\ FindingsAreCommitted
    /\ BufferIsOfABootstrap
    /\ CurrentIsTraced
    /\ \A m \in Memberships : HandledShows(m)
    /\ TenantHandledShows

(* The copy is at or past an event; and a handled one is reflected if it is, or if its  *)
(* row was forgotten.                                                                   *)
AtOrPast(e) == IF e.id = 0 THEN ~TenantNewer(ctenant, e) ELSE rows[e.id].version >= e.version
Reflected(e) == AtOrPast(e) \/ (e.id # 0 /\ Forgotten(e.id))
HandledIsReflected == \A e \in inbox : Reflected(e)

(* What an incident was closed on is an event the consumer handled. *)
ClosedIsHandled ==
    \A e \in closed : \E f \in inbox :
        f.id = e.id /\ (f = e \/ IF e.id = 0 THEN f.sec > e.sec ELSE f.version > e.version)

(* While a bootstrap reads, nothing is handled, and what it has read is at or past all  *)
(* that was.                                                                            *)
PageIsAhead ==
    boot.phase # "none" =>
        /\ \A g \in boot.page, e \in inbox : g.id = e.id => g.version >= e.version
        /\ boot.tenant # NoTenant => \A e \in inbox : e.id = 0 => ~TenantNewer(boot.tenant, e)

(* A sweep or a repair of the model the consumer holds now carries a state that is at or*)
(* past every event handled, unless the row already is.                                 *)
CurrentFor(f) == \A e \in inbox : e.id = f.id => f.state.version >= e.version \/ rows[f.id].version >= e.version
OfThisModel(mark) == mark = boot.count
NotAheadOfModel(mark) == mark <= boot.count /\ (boot.phase # "none" => mark < boot.count)
RepairsAreCurrent ==
    /\ NotAheadOfModel(sweep.mark)
    /\ OfThisModel(sweep.mark) => \A f \in sweep.findings : CurrentFor(f)
    /\ \A p \in repairs : /\ NotAheadOfModel(p.mark)
                          /\ OfThisModel(p.mark) => \A f \in p.findings : CurrentFor(f)

(* The Tenant has one event at each security version. *)
TenantEventsDiffer == \A e, f \in log : e.id = 0 /\ f.id = 0 /\ e.sec = f.sec => e = f

ReflectionInv ==
    /\ HandledIsReflected
    /\ ClosedIsHandled
    /\ PageIsAhead
    /\ RepairsAreCurrent
    /\ TenantEventsDiffer

-----------------------------------------------------------------------------
(* The operators the model is built from. *)

(* A Membership's identifier is a positive number, so it is not the Tenant's. *)
LEMMA MembershipIds == Memberships \subseteq Nat \ {0}
  BY ProjectionAssumption DEF Memberships

(* What is in an event, and that a row or a Tenant is known by its event. *)
LEMMA EventFields ==
    /\ \A m, r : /\ MembershipEvent(m, r).id = m
                 /\ MembershipEvent(m, r).status = r.status
                 /\ MembershipEvent(m, r).version = r.version
                 /\ MembershipEvent(m, r).sec = 0
    /\ \A t : /\ TenantEvent(t).id = 0
              /\ TenantEvent(t).status = t.status
              /\ TenantEvent(t).version = t.version
              /\ TenantEvent(t).sec = t.sec
  BY DEF MembershipEvent, TenantEvent

LEMMA RowFields ==
    /\ NoMembership \in RowRecords /\ NoRow = NoMembership
    /\ NoMembership.status = "none" /\ NoMembership.version = 0
    /\ \A r \in RowRecords : r.status \in MembershipStates \cup {"none"} /\ r.version \in Nat
    /\ \A r, s \in RowRecords : r.status = s.status /\ r.version = s.version => r = s
  BY DEF RowRecords, NoMembership, NoRow

LEMMA EventKinds ==
    /\ \A e \in MembershipEvents :
          /\ e.id \in Memberships /\ e.id # 0 /\ e.version \in Nat /\ e.version > 0
          /\ e.status \in MembershipStates
          /\ e.sec = 0 /\ RowOf(e) \in RowRecords /\ MembershipEvent(e.id, RowOf(e)) = e
          /\ RowOf(e).status = e.status /\ RowOf(e).version = e.version
    /\ \A e \in TenantEvents :
          /\ e.id = 0 /\ e.version \in Nat /\ e.sec \in Nat
          /\ TenantOf(e) \in TenantRecords /\ TenantEvent(TenantOf(e)) = e
          /\ TenantOf(e).sec = e.sec /\ TenantOf(e).version = e.version
    /\ \A t \in TenantRecords :
          /\ t.version \in Nat /\ t.sec \in Nat
          /\ TenantEvent(t) \in TenantEvents /\ TenantOf(TenantEvent(t)) = t
    /\ \A m \in Memberships, r \in RowRecords :
          /\ r.status # "none" /\ r.version # 0 => MembershipEvent(m, r) \in MembershipEvents
          /\ RowOf(MembershipEvent(m, r)) = r
<1>1. \A e \in MembershipEvents :
          /\ e.id \in Memberships /\ e.version \in Nat /\ e.version > 0
          /\ e.status \in MembershipStates
          /\ e.sec = 0 /\ RowOf(e) \in RowRecords /\ MembershipEvent(e.id, RowOf(e)) = e
          /\ RowOf(e).status = e.status /\ RowOf(e).version = e.version
  BY DEF MembershipEvents, RowRecords, RowOf, MembershipEvent
<1>2. \A e \in TenantEvents :
          /\ e.id = 0 /\ e.version \in Nat /\ e.sec \in Nat
          /\ TenantOf(e) \in TenantRecords /\ TenantEvent(TenantOf(e)) = e
          /\ TenantOf(e).sec = e.sec /\ TenantOf(e).version = e.version
  BY DEF TenantEvents, TenantRecords, TenantOf, TenantEvent
<1>3. \A t \in TenantRecords :
          /\ t.version \in Nat /\ t.sec \in Nat
          /\ TenantEvent(t) \in TenantEvents /\ TenantOf(TenantEvent(t)) = t
  BY DEF TenantEvents, TenantRecords, TenantOf, TenantEvent
<1>4. \A m \in Memberships, r \in RowRecords :
          /\ r.status # "none" /\ r.version # 0 => MembershipEvent(m, r) \in MembershipEvents
          /\ RowOf(MembershipEvent(m, r)) = r
  BY DEF MembershipEvents, RowRecords, RowOf, MembershipEvent
<1> QED
  BY <1>1, <1>2, <1>3, <1>4, MembershipIds

(* A row is replaced by an event of a higher version or kept, and by a newest one. *)
LEMMA NewestRowIs ==
    ASSUME NEW r \in RowRecords, NEW es \in SUBSET MembershipEvents
    PROVE  /\ \/ NewestRow(r, es) = r
              \/ \E e \in es : /\ NewestRow(r, es) = RowOf(e) /\ e.version > r.version
                               /\ \A f \in es : f.version <= e.version
           /\ \A e \in es : (\A f \in es : f.version <= e.version) /\ e.version > r.version
                 => \E g \in es : NewestRow(r, es) = RowOf(g) /\ g.version = e.version
           /\ NewestRow(r, {}) = r
<1> DEFINE best == {e \in es : Newer(r, e) /\ \A f \in es : f.version <= e.version}
<1>1. NewestRow(r, es) = IF best = {} THEN r ELSE RowOf(CHOOSE e \in best : TRUE)
  BY DEF NewestRow
<1>2. best # {} => (CHOOSE e \in best : TRUE) \in best
  OBVIOUS
<1>3. NewestRow(r, {}) = r
  BY DEF NewestRow
<1>4. \A e \in es : (\A f \in es : f.version <= e.version) /\ e.version > r.version
                 => \E g \in es : NewestRow(r, es) = RowOf(g) /\ g.version = e.version
  <2> SUFFICES ASSUME NEW e \in es, \A f \in es : f.version <= e.version, e.version > r.version
               PROVE  \E g \in es : NewestRow(r, es) = RowOf(g) /\ g.version = e.version
    OBVIOUS
  <2>1. e \in best
    BY DEF Newer
  <2>2. PICK g \in best : NewestRow(r, es) = RowOf(g)
    BY <1>1, <1>2, <2>1
  <2>3. g.version <= e.version /\ e.version <= g.version /\ g \in es
    BY <2>2
  <2> QED
    BY <2>2, <2>3, EventKinds
<1>5. \/ NewestRow(r, es) = r
      \/ \E e \in es : /\ NewestRow(r, es) = RowOf(e) /\ e.version > r.version
                       /\ \A f \in es : f.version <= e.version
  BY <1>1, <1>2 DEF Newer
<1> QED
  BY <1>3, <1>4, <1>5

(* The Tenant is replaced by an event of a higher pair of versions or kept, and by the *)
(* one event that is above all others when it is there.                                *)
LEMMA NewestTenantIs ==
    ASSUME NEW t \in TenantRecords, NEW es \in SUBSET TenantEvents
    PROVE  /\ \/ NewestTenant(t, es) = t
              \/ \E e \in es : NewestTenant(t, es) = TenantOf(e) /\ TenantNewer(t, e)
           /\ \A c \in TenantRecords :
                 /\ TenantEvent(c) \in es \/ t = c
                 /\ \A e \in es : e = TenantEvent(c) \/ e.sec < c.sec
                 /\ t = c \/ t.sec < c.sec
                 => NewestTenant(t, es) = c
           /\ NewestTenant(t, {}) = t
           /\ \A b \in es :
                 TenantNewer(t, b) /\ (\A f \in es : f = b \/ ~TenantNewer(TenantOf(b), f))
                 => \E c \in es : /\ NewestTenant(t, es) = TenantOf(c) /\ TenantNewer(t, c)
                                 /\ \A f \in es : f = c \/ ~TenantNewer(TenantOf(c), f)
<1> DEFINE best == {e \in es : /\ TenantNewer(t, e)
                               /\ \A f \in es : f = e \/ ~TenantNewer(TenantOf(e), f)}
<1>1. NewestTenant(t, es) = IF best = {} THEN t ELSE TenantOf(CHOOSE e \in best : TRUE)
  BY DEF NewestTenant
<1>2. best # {} => (CHOOSE e \in best : TRUE) \in best
  OBVIOUS
<1>3. NewestTenant(t, {}) = t
  BY DEF NewestTenant
<1>4. ASSUME NEW c \in TenantRecords,
             TenantEvent(c) \in es \/ t = c,
             \A e \in es : e = TenantEvent(c) \/ e.sec < c.sec,
             t = c \/ t.sec < c.sec
      PROVE  NewestTenant(t, es) = c
  <2>0. /\ TenantEvent(c).sec = c.sec /\ TenantEvent(c).version = c.version
        /\ c.sec \in Nat /\ c.version \in Nat /\ t.sec \in Nat /\ t.version \in Nat
        /\ \A e \in es : /\ e.sec \in Nat /\ e.version \in Nat
                         /\ TenantOf(e).sec = e.sec /\ TenantOf(e).version = e.version
    BY EventFields, EventKinds
  <2>1. CASE t = c
    <3>1. best = {}
      BY <1>4, <2>0, <2>1 DEF TenantNewer
    <3> QED
      BY <1>1, <2>1, <3>1
  <2>2. CASE t # c
    <3>1. TenantEvent(c) \in best
      BY <1>4, <2>0, <2>2 DEF TenantNewer
    <3>2. ASSUME NEW e \in best
          PROVE  e = TenantEvent(c)
      <4>1. SUFFICES ASSUME e # TenantEvent(c) PROVE FALSE
        OBVIOUS
      <4>2. e.sec < c.sec
        BY <1>4, <3>2, <4>1
      <4>3. TenantNewer(TenantOf(e), TenantEvent(c))
        BY <4>2, <2>0, <3>2 DEF TenantNewer
      <4> QED
        BY <4>1, <4>3, <3>1, <3>2
    <3>3. NewestTenant(t, es) = TenantOf(TenantEvent(c))
      BY <1>1, <1>2, <3>1, <3>2
    <3> QED
      BY <3>3, EventKinds
  <2> QED
    BY <2>1, <2>2
<1>5. \/ NewestTenant(t, es) = t
      \/ \E e \in es : NewestTenant(t, es) = TenantOf(e) /\ TenantNewer(t, e)
  BY <1>1, <1>2
<1>6. ASSUME NEW b \in es, TenantNewer(t, b),
             \A f \in es : f = b \/ ~TenantNewer(TenantOf(b), f)
      PROVE  \E c \in es : /\ NewestTenant(t, es) = TenantOf(c) /\ TenantNewer(t, c)
                           /\ \A f \in es : f = c \/ ~TenantNewer(TenantOf(c), f)
  <2>1. b \in best
    BY <1>6
  <2> QED
    BY <1>1, <1>2, <2>1
<1> HIDE DEF best
<1> QED
  BY <1>3, <1>4, <1>5, <1>6

-----------------------------------------------------------------------------
(* What the invariant says of a committed state. *)

(* A committed state of a Membership is authority's own or an older one. *)
LEMMA CommittedIsBehind ==
    ASSUME ProjectionTypeOK, LogIsHistory, NEW m \in Memberships, NEW r \in RowRecords,
           r = NoMembership \/ MembershipEvent(m, r) \in log
    PROVE  /\ r.version <= mem[m].version
           /\ r.version = mem[m].version => r = mem[m]
           /\ r.status = "revoked" => r = mem[m]
<1>1. mem[m] \in RowRecords
  BY DEF ProjectionTypeOK
<1>2. mem[m] = NoMembership \/ mem[m].version > 0
  <2>1. mem[m] = NoMembership \/ Current(m) \in MembershipEvents \cup TenantEvents
    BY DEF LogIsHistory, ProjectionTypeOK
  <2>2. Current(m).id # 0 /\ Current(m).version = mem[m].version
    BY EventFields, MembershipIds DEF Current
  <2> QED
    BY <2>1, <2>2, EventKinds
<1>3. CASE r = NoMembership
  BY <1>1, <1>2, <1>3, RowFields
<1>4. CASE MembershipEvent(m, r) \in log
  <2> DEFINE e == MembershipEvent(m, r)
  <2>1. /\ e.id = m /\ e.version = r.version /\ e.status = r.status /\ m # 0
        /\ Current(m).version = mem[m].version /\ Current(m).status = mem[m].status
    BY EventFields, MembershipIds DEF Current
  <2>2. e = Current(m) \/ (e.version < mem[m].version /\ e.status # "revoked")
    BY <1>4, <2>1 DEF LogIsHistory
  <2> HIDE DEF e
  <2>3. CASE e = Current(m)
    BY <1>1, <2>1, <2>3, RowFields
  <2>4. CASE e.version < mem[m].version /\ e.status # "revoked"
    BY <1>1, <2>1, <2>4, RowFields
  <2> QED
    BY <2>2, <2>3, <2>4
<1> QED
  BY <1>3, <1>4

(* A committed state of the Tenant is authority's own or of a lower security version. *)
LEMMA TenantIsBehind ==
    ASSUME ProjectionTypeOK, LogIsHistory, NEW t \in TenantRecords, TenantEvent(t) \in log
    PROVE  t = tenant \/ t.sec < tenant.sec
<1>1. TenantEvent(t).id = 0 /\ TenantEvent(t).sec = t.sec
  BY EventFields
<1>2. TenantEvent(t) = CurrentTenant \/ TenantEvent(t).sec < tenant.sec
  BY <1>1 DEF LogIsHistory
<1>3. TenantEvent(t) = TenantEvent(tenant) => t = tenant
  BY EventKinds DEF ProjectionTypeOK
<1> QED
  BY <1>1, <1>2, <1>3 DEF CurrentTenant

(* An event of a Membership is not above authority, and at its version it is its event. *)
LEMMA EventIsBehind ==
    ASSUME ProjectionTypeOK, LogIsHistory, NEW e \in log, e.id # 0
    PROVE  /\ e \in MembershipEvents /\ e.id \in Memberships
           /\ e.version <= mem[e.id].version
           /\ e.version = mem[e.id].version => e = Current(e.id)
<1>1. e \in MembershipEvents /\ e.id \in Memberships
  BY EventKinds DEF ProjectionTypeOK
<1>2. mem[e.id] \in RowRecords /\ mem[e.id].version \in Nat /\ e.version \in Nat
  BY <1>1, EventKinds, RowFields DEF ProjectionTypeOK
<1>3. e = Current(e.id) \/ e.version < mem[e.id].version
  BY DEF LogIsHistory
<1>4. Current(e.id).version = mem[e.id].version
  BY EventFields DEF Current
<1> QED
  BY <1>1, <1>2, <1>3, <1>4

-----------------------------------------------------------------------------
(* Authority commits. *)

(* The initial state. *)
LEMMA ProjectionInvInit == ProjectionInit => ProjectionInv
<1> SUFFICES ASSUME ProjectionInit PROVE ProjectionInv
  OBVIOUS
<1> USE DEF ProjectionInit, LedgerInit
<1>1. InitialTenant \in TenantRecords
  BY DEF InitialTenant, TenantRecords, TenantStates
<1>2. ProjectionTypeOK
  <2>1. sweep \in SweepRecords
    BY DEF SweepRecords, NoSweep
  <2>2. boot \in BootRecords
    BY DEF BootRecords, NoBoot
  <2>3. log \in SUBSET (MembershipEvents \cup TenantEvents)
    BY <1>1, EventKinds
  <2> QED
    BY <1>1, <2>1, <2>2, <2>3, RowFields DEF ProjectionTypeOK
<1>3. LogIsHistory
  BY EventFields DEF LogIsHistory, CurrentTenant
<1>4. CopiesAreCommitted /\ BufferIsOfABootstrap /\ FindingsAreCommitted
  BY DEF CopiesAreCommitted, BufferIsOfABootstrap, FindingsAreCommitted, NoBoot, NoSweep
<1>5. CurrentIsTraced
  BY DEF CurrentIsTraced, Traced, CurrentTenant
<1>6. (\A m \in Memberships : HandledShows(m)) /\ TenantHandledShows
  BY DEF HandledShows, TenantHandledShows, NoBoot
<1> QED
  BY <1>2, <1>3, <1>4, <1>5, <1>6 DEF ProjectionInv

(* The event of a new version is in no log, inbox or page before. *)
LEMMA NewVersion ==
    ASSUME ProjectionInv, NEW m \in Memberships, NEW a \in MembershipActions \cup {"grant"},
           MembershipChange(m, a)
    PROVE  \E new \in RowRecords :
              /\ new.version = mem[m].version + 1 /\ mem[m].status # "revoked"
              /\ mem' = [mem EXCEPT ![m] = new]
              /\ log' = log \cup {MembershipEvent(m, new)}
              /\ MembershipEvent(m, new) \in MembershipEvents \ log
<1> DEFINE new == [status |-> MembershipTo(a), version |-> mem[m].version + 1]
<1>1. mem[m] \in RowRecords /\ mem[m].version \in Nat
  BY RowFields DEF ProjectionInv, ProjectionTypeOK
<1>2. MembershipTo(a) \in MembershipStates
  BY DEF MembershipTo, MembershipActions, MembershipStates
<1>3. new \in RowRecords /\ new.version = mem[m].version + 1 /\ new.status # "none"
  BY <1>1, <1>2 DEF RowRecords, MembershipStates
<1>4. mem[m].status # "revoked"
  <2>1. "revoked" \notin MembershipFrom(a)
    BY Zenon DEF MembershipFrom, MembershipActions
  <2> QED
    BY <2>1 DEF MembershipChange
<1>5. mem' = [mem EXCEPT ![m] = new] /\ mem'[m] = new
  BY DEF MembershipChange, ProjectionInv, ProjectionTypeOK
<1>6. log' = log \cup {MembershipEvent(m, new)}
  BY <1>5 DEF MembershipChange
<1> HIDE DEF new
<1>7. MembershipEvent(m, new) \in MembershipEvents
  BY <1>1, <1>3, EventKinds
<1>8. MembershipEvent(m, new) \notin log
  <2> SUFFICES ASSUME MembershipEvent(m, new) \in log PROVE FALSE
    OBVIOUS
  <2>1. new.version <= mem[m].version
    BY <1>3, CommittedIsBehind DEF ProjectionInv
  <2> QED
    BY <1>1, <1>3, <2>1
<1> QED
  BY <1>3, <1>4, <1>5, <1>6, <1>7, <1>8

(* A Membership changes. *)
LEMMA MembershipChangeStep ==
    ASSUME ProjectionInv, NEW m \in Memberships, NEW a \in MembershipActions \cup {"grant"},
           MembershipChange(m, a), owed' = owed \cup (log' \ log),
           UNCHANGED <<receipts, dead, closed, consumerVars, sweep, repairs, boot>>
    PROVE  ProjectionInv'
<1>1. PICK new \in RowRecords :
              /\ new.version = mem[m].version + 1 /\ mem[m].status # "revoked"
              /\ mem' = [mem EXCEPT ![m] = new]
              /\ log' = log \cup {MembershipEvent(m, new)}
              /\ MembershipEvent(m, new) \in MembershipEvents \ log
  BY NewVersion
<1> DEFINE E == MembershipEvent(m, new)
<1>2. /\ UNCHANGED <<tenant, receipts, dead, closed, rows, ctenant, inbox, sweep, repairs, boot>>
      /\ mem'[m] = new /\ E.id = m /\ E.version = new.version
      /\ \A k \in Memberships \ {m} : mem'[k] = mem[k]
      /\ log' = log \cup {E} /\ owed' = owed \cup {E} /\ E \in MembershipEvents
      /\ Current(m)' = E /\ E \notin log /\ CurrentTenant' = CurrentTenant
      /\ \A k \in Memberships \ {m} : Current(k)' = Current(k)
  BY <1>1, EventFields DEF MembershipChange, consumerVars, Current, CurrentTenant, ProjectionInv,
     ProjectionTypeOK
<1>3. /\ mem[m] \in RowRecords /\ mem[m].version \in Nat /\ new.version > mem[m].version
      /\ new.version \in Nat
  BY <1>1, RowFields DEF ProjectionInv, ProjectionTypeOK
<1> HIDE DEF E
<1>4. ProjectionTypeOK'
  BY <1>1, <1>2 DEF ProjectionInv, ProjectionTypeOK
<1>5. LogIsHistory'
  <2>1. \A k \in Memberships : mem'[k] = NoMembership \/ Current(k)' \in log'
    BY <1>2 DEF ProjectionInv, LogIsHistory
  <2>2. CurrentTenant' \in log'
    BY <1>2 DEF ProjectionInv, LogIsHistory
  <2>3. ASSUME NEW e \in log', e.id # 0
        PROVE  e = Current(e.id)' \/ (e.version < mem'[e.id].version /\ e.status # "revoked")
    <3>1. CASE e = E
      BY <1>2, <3>1
    <3>2. CASE e \in log
      <4>1. e \in MembershipEvents /\ e.id \in Memberships
        BY <3>2, <2>3, EventKinds DEF ProjectionInv, ProjectionTypeOK
      <4>2. e = Current(e.id) \/ (e.version < mem[e.id].version /\ e.status # "revoked")
        BY <3>2, <2>3 DEF ProjectionInv, LogIsHistory
      <4>3. CASE e.id # m
        BY <4>1, <4>2, <4>3, <1>2
      <4>4. CASE e.id = m
        <5>1. Current(m).version = mem[m].version /\ Current(m).status = mem[m].status
          BY EventFields DEF Current
        <5>2. e.version <= mem[m].version /\ e.status # "revoked" /\ e.version \in Nat
          BY <4>1, <4>2, <4>4, <5>1, <1>1, <1>3, EventKinds
        <5> QED
          BY <5>2, <4>4, <1>2, <1>3
      <4> QED
        BY <4>3, <4>4
    <3> QED
      BY <3>1, <3>2, <1>2
  <2>4. \A e \in log' : e.id = 0 => e = CurrentTenant' \/ e.sec < tenant'.sec
    BY <1>2, EventKinds DEF ProjectionInv, LogIsHistory
  <2> QED
    BY <2>1, <2>2, <2>3, <2>4 DEF LogIsHistory
<1>6. CopiesAreCommitted'
  BY <1>2 DEF ProjectionInv, CopiesAreCommitted
<1>7. FindingsAreCommitted'
  <2>1. ASSUME NEW r \in sweep.report
        PROVE  r.version <= mem'[r.id].version
    <3>1. /\ r.version \in Nat /\ r.id \in Memberships /\ r.version <= mem[r.id].version
          /\ mem[r.id].version \in Nat
      BY RowFields DEF ProjectionInv, FindingsAreCommitted, ProjectionTypeOK, SweepRecords, ReportRecords
    <3> QED
      BY <3>1, <1>2, <1>3
  <2> QED
    BY <1>2, <2>1 DEF ProjectionInv, FindingsAreCommitted
<1>8. BufferIsOfABootstrap'
  BY <1>2 DEF ProjectionInv, BufferIsOfABootstrap
<1>9. CurrentIsTraced'
  BY <1>2 DEF ProjectionInv, CurrentIsTraced, Traced
<1>10. \A k \in Memberships : HandledShows(k)'
  <2>1. E \notin inbox
    BY <1>2 DEF ProjectionInv, CopiesAreCommitted
  <2> QED
    BY <1>2, <2>1 DEF ProjectionInv, HandledShows
<1>11. TenantHandledShows'
  BY <1>2 DEF ProjectionInv, TenantHandledShows
<1> QED
  BY <1>4, <1>5, <1>6, <1>7, <1>8, <1>9, <1>10, <1>11 DEF ProjectionInv

(* The Tenant changes, and its security version with it. *)
LEMMA TenantChangeStep ==
    ASSUME ProjectionInv, NEW a \in TenantActions \ ProvisioningActions, TenantChange(a),
           owed' = owed \cup (log' \ log),
           UNCHANGED <<receipts, dead, closed, consumerVars, sweep, repairs, boot>>
    PROVE  ProjectionInv'
<1> DEFINE E == TenantEvent(tenant')
<1>0. tenant \in TenantRecords /\ tenant.sec \in Nat /\ tenant.version \in Nat
  BY EventKinds DEF ProjectionInv, ProjectionTypeOK
<1>1. tenant' \in TenantRecords /\ tenant'.sec = tenant.sec + 1
  <2>1. TenantTo(a) \in TenantStates
    BY Zenon DEF TenantTo, TenantActions, OffboardingActions, TenantStates
  <2>2. tenant' = [status |-> TenantTo(a), version |-> tenant.version + 1, sec |-> tenant.sec + 1]
    BY DEF TenantChange, AfterTenant, IncrementsSecurity
  <2> QED
    BY <1>0, <2>1, <2>2 DEF TenantRecords
<1>2. /\ UNCHANGED <<mem, receipts, dead, closed, rows, ctenant, inbox, sweep, repairs, boot>>
      /\ E.id = 0 /\ E.sec = tenant'.sec /\ E \in TenantEvents
      /\ log' = log \cup {E} /\ CurrentTenant' = E
      /\ \A k \in Memberships : Current(k)' = Current(k)
      /\ CurrentTenant.sec = tenant.sec
  BY <1>1, EventFields, EventKinds DEF TenantChange, consumerVars, Current, CurrentTenant
<1>3. E \notin log
  <2> SUFFICES ASSUME E \in log PROVE FALSE
    OBVIOUS
  <2>1. tenant' = tenant \/ tenant'.sec < tenant.sec
    BY <1>1, TenantIsBehind DEF ProjectionInv
  <2> QED
    BY <2>1, <1>0, <1>1
<1> HIDE DEF E
<1>4. owed' = owed \cup {E}
  BY <1>2, <1>3
<1>5. ProjectionTypeOK'
  BY <1>1, <1>2 DEF ProjectionInv, ProjectionTypeOK
<1>6. LogIsHistory'
  <2>1. \A e \in log : e.id # 0 \/ e.sec < tenant'.sec
    <3> SUFFICES ASSUME NEW e \in log, e.id = 0 PROVE e.sec < tenant'.sec
      OBVIOUS
    <3>1. e \in TenantEvents /\ e.sec \in Nat
      BY EventKinds DEF ProjectionInv, ProjectionTypeOK
    <3>2. e = CurrentTenant \/ e.sec < tenant.sec
      BY DEF ProjectionInv, LogIsHistory
    <3> QED
      BY <3>1, <3>2, <1>0, <1>1, <1>2
  <2>2. \A e \in log : e.id # 0 => e.id \in Memberships
    BY EventKinds DEF ProjectionInv, ProjectionTypeOK
  <2> QED
    BY <2>1, <2>2, <1>2 DEF ProjectionInv, LogIsHistory
<1>7. CopiesAreCommitted' /\ FindingsAreCommitted' /\ BufferIsOfABootstrap'
  BY <1>2, <1>4 DEF ProjectionInv, CopiesAreCommitted, FindingsAreCommitted, BufferIsOfABootstrap
<1>8. CurrentIsTraced'
  BY <1>2, <1>4 DEF ProjectionInv, CurrentIsTraced, Traced
<1>9. \A k \in Memberships : HandledShows(k)'
  BY <1>2 DEF ProjectionInv, HandledShows
<1>10. TenantHandledShows'
  BY <1>2, <1>3 DEF ProjectionInv, TenantHandledShows, CopiesAreCommitted
<1> QED
  BY <1>5, <1>6, <1>7, <1>8, <1>9, <1>10 DEF ProjectionInv

(* Authority's steps. *)
LEMMA AuthoritySteps ==
    ASSUME ProjectionInv, AuthorityStep
    PROVE  ProjectionInv'
<1>1. /\ owed' = owed \cup (log' \ log)
      /\ UNCHANGED <<receipts, dead, closed, consumerVars, sweep, repairs, boot>>
  BY DEF AuthorityStep
<1>2. ASSUME NEW m \in Memberships, NEW a \in MembershipActions \cup {"grant"},
             MembershipChange(m, a)
      PROVE  ProjectionInv'
  BY <1>1, <1>2, MembershipChangeStep
<1>3. ASSUME NEW a \in TenantActions \ ProvisioningActions, TenantChange(a)
      PROVE  ProjectionInv'
  BY <1>1, <1>3, TenantChangeStep
<1> QED
  BY <1>2, <1>3 DEF AuthorityStep, LedgerNext

-----------------------------------------------------------------------------
(* Delivery and dead letters. *)

(* The consumer and the deliveries leave authority's history as it is. *)
LEMMA LedgerStays ==
    ASSUME LogIsHistory, UNCHANGED ledgerVars
    PROVE  /\ LogIsHistory' /\ UNCHANGED <<tenant, mem, log>>
           /\ CurrentTenant' = CurrentTenant /\ \A m : Current(m)' = Current(m)
  BY DEF LogIsHistory, ledgerVars, Current, CurrentTenant

(* What one applied event does to the copy. *)
LEMMA ApplyOne ==
    ASSUME ProjectionTypeOK, NEW e \in MembershipEvents \cup TenantEvents,
           ApplyAll(rows, ctenant, {e})
    PROVE  /\ e.id # 0 =>
                 /\ rows' = [rows EXCEPT ![e.id] = IF e.version > rows[e.id].version
                                                   THEN RowOf(e) ELSE rows[e.id]]
                 /\ ctenant' = ctenant
           /\ e.id = 0 =>
                 /\ rows' = rows
                 /\ ctenant' = IF TenantNewer(ctenant, e) THEN TenantOf(e) ELSE ctenant
<1> DEFINE mine(m) == {f \in {e} : f.id = m}
<1>0. rows \in [Memberships -> RowRecords] /\ ctenant \in TenantRecords
  BY DEF ProjectionTypeOK
<1>1. /\ rows' = [m \in Memberships |-> NewestRow(rows[m], mine(m))]
      /\ ctenant' = NewestTenant(ctenant, mine(0))
  BY DEF ApplyAll
<1>2. \A m : (e.id = m => mine(m) = {e}) /\ (e.id # m => mine(m) = {})
  OBVIOUS
<1>3. \A m \in Memberships : NewestRow(rows[m], {}) = rows[m]
  BY <1>0, NewestRowIs
<1>4. NewestTenant(ctenant, {}) = ctenant
  BY <1>0, NewestTenantIs
<1> HIDE DEF mine
<1>5. CASE e.id # 0
  <2>1. e \in MembershipEvents /\ e.id \in Memberships /\ e.version \in Nat
    BY <1>5, EventKinds
  <2>2. rows[e.id] \in RowRecords /\ rows[e.id].version \in Nat
    BY <1>0, <2>1, RowFields
  <2>3. NewestRow(rows[e.id], {e}) = IF e.version > rows[e.id].version
                                     THEN RowOf(e) ELSE rows[e.id]
    <3>1. \/ NewestRow(rows[e.id], {e}) = rows[e.id]
          \/ \E g \in {e} : NewestRow(rows[e.id], {e}) = RowOf(g) /\ g.version > rows[e.id].version
      BY <2>1, <2>2, NewestRowIs
    <3>2. e.version > rows[e.id].version =>
             \E g \in {e} : NewestRow(rows[e.id], {e}) = RowOf(g) /\ g.version = e.version
      <4>1. \A g \in {e} : (\A f \in {e} : f.version <= g.version) /\ g.version > rows[e.id].version
                 => \E h \in {e} : NewestRow(rows[e.id], {e}) = RowOf(h) /\ h.version = g.version
        BY <2>1, <2>2, NewestRowIs
      <4> QED
        BY <2>1, <4>1
    <3> QED
      BY <3>1, <3>2
  <2> QED
    BY <1>0, <1>1, <1>2, <1>3, <1>4, <1>5, <2>1, <2>3
<1>6. CASE e.id = 0
  <2>1. e \in TenantEvents
    BY <1>6, EventKinds
  <2>2. NewestTenant(ctenant, {e}) = IF TenantNewer(ctenant, e) THEN TenantOf(e) ELSE ctenant
    <3>1. /\ ctenant.sec \in Nat /\ ctenant.version \in Nat
          /\ e.sec \in Nat /\ e.version \in Nat
      BY <1>0, <2>1, EventKinds
    <3> DEFINE best == {f \in {e} : /\ TenantNewer(ctenant, f)
                                    /\ \A g \in {e} : g = f \/ ~TenantNewer(TenantOf(f), g)}
    <3>2. NewestTenant(ctenant, {e}) = IF best = {} THEN ctenant ELSE TenantOf(CHOOSE f \in best : TRUE)
      BY DEF NewestTenant
    <3>3. best = IF TenantNewer(ctenant, e) THEN {e} ELSE {}
      OBVIOUS
    <3> QED
      BY <3>2, <3>3
  <2>3. \A m \in Memberships : mine(m) = {}
    BY <1>2, <1>6, MembershipIds
  <2> QED
    BY <1>0, <1>1, <1>2, <1>3, <1>6, <2>2, <2>3
<1> QED
  BY <1>5, <1>6

(* What a delivery leaves as it was. *)
DeliveryFrame(e) ==
    /\ UNCHANGED <<ledgerVars, dead, closed, sweep, repairs>>
    /\ owed' \subseteq owed /\ owed \subseteq owed' \cup {e}
    /\ receipts' \subseteq receipts \cup {e}
    /\ e \in receipts' => e \in receipts \/ e \in inbox \/ boot.phase = "none"

(* A delivery of an event that was handled, or that is buffered, changes no row. *)
LEMMA DeliverySetAside ==
    ASSUME ProjectionInv, NEW e \in owed, DeliveryFrame(e),
           UNCHANGED consumerVars,
           \/ e \in inbox /\ boot' = boot
           \/ e \notin inbox /\ boot.phase # "none" /\ boot' = [boot EXCEPT !.buffer = @ \cup {e}]
    PROVE  ProjectionInv'
<1>1. /\ UNCHANGED <<tenant, mem, log, dead, closed, sweep, repairs, rows, ctenant, inbox>>
      /\ CurrentTenant' = CurrentTenant /\ \A k \in Memberships : Current(k)' = Current(k)
      /\ e \in log /\ e \in MembershipEvents \cup TenantEvents
  BY DEF DeliveryFrame, ledgerVars, consumerVars, CurrentTenant, Current, ProjectionInv,
         CopiesAreCommitted, ProjectionTypeOK
<1>2. /\ boot' \in BootRecords
      /\ boot'.phase = boot.phase /\ boot'.count = boot.count /\ boot'.page = boot.page
      /\ boot'.cursor = boot.cursor /\ boot'.tenant = boot.tenant
      /\ boot'.buffer = boot.buffer \/ (boot.phase # "none" /\ boot'.buffer = boot.buffer \cup {e})
      /\ e \in inbox \/ e \in boot'.buffer
  <2>1. boot \in BootRecords
    BY DEF ProjectionInv, ProjectionTypeOK
  <2> QED
    BY <1>1, <2>1 DEF BootRecords
<1>3. ProjectionTypeOK'
  BY <1>1, <1>2 DEF ProjectionInv, ProjectionTypeOK
<1>4. LogIsHistory' /\ FindingsAreCommitted' /\ BufferIsOfABootstrap'
  BY <1>1, <1>2, LedgerStays
     DEF DeliveryFrame, ProjectionInv, FindingsAreCommitted, BufferIsOfABootstrap
<1>5. CopiesAreCommitted'
  BY <1>1, <1>2 DEF ProjectionInv, CopiesAreCommitted, DeliveryFrame, BufferIsOfABootstrap
<1>6. CurrentIsTraced'
  BY <1>1, <1>2 DEF ProjectionInv, CurrentIsTraced, Traced, DeliveryFrame
<1>7. (\A k \in Memberships : HandledShows(k)') /\ TenantHandledShows'
  BY <1>1, <1>2 DEF ProjectionInv, HandledShows, TenantHandledShows
<1> QED
  BY <1>3, <1>4, <1>5, <1>6, <1>7 DEF ProjectionInv

(* A delivery that is applied changes only its row or the Tenant, leaves the copy at or *)
(* past it, and past all the copy was at or past.                                       *)
LEMMA AppliedIs ==
    ASSUME ProjectionInv, NEW e \in owed, DeliveryFrame(e),
           e \notin inbox, boot.phase = "none", boot' = boot,
           ApplyAll(rows, ctenant, {e}), inbox' = inbox \cup {e}
    PROVE  /\ rows' \in [Memberships -> RowRecords] /\ ctenant' \in TenantRecords
           /\ \A k \in Memberships : rows'[k] = NoMembership \/ MembershipEvent(k, rows'[k]) \in log
           /\ TenantEvent(ctenant') \in log
           /\ \A k \in Memberships :
                 rows'[k] = rows[k] \/ (k = e.id /\ rows'[k] = RowOf(e) /\ e.version > rows[k].version)
           /\ ctenant' = ctenant \/ (e.id = 0 /\ ctenant' = TenantOf(e) /\ TenantNewer(ctenant, e))
           /\ \A k \in Memberships : /\ rows'[k].version >= rows[k].version
                                     /\ rows'[k].version \in Nat /\ rows[k].version \in Nat
           /\ \A f \in log : f.id # 0 => f.id \in Memberships /\ f.version \in Nat
           /\ \A f \in log : AtOrPast(f) => AtOrPast(f)'
           /\ AtOrPast(e)'
<1>0. /\ ProjectionTypeOK /\ LogIsHistory /\ CopiesAreCommitted
      /\ e \in log /\ e \in MembershipEvents \cup TenantEvents
      /\ \A k \in Memberships : rows[k] \in RowRecords /\ mem[k] \in RowRecords
      /\ ctenant \in TenantRecords /\ tenant \in TenantRecords
  BY DEF ProjectionInv, CopiesAreCommitted, ProjectionTypeOK
<1>1. /\ UNCHANGED <<tenant, mem, log, dead, closed, sweep, repairs>> /\ LogIsHistory'
      /\ CurrentTenant' = CurrentTenant /\ \A k \in Memberships : Current(k)' = Current(k)
  BY <1>0, LedgerStays DEF DeliveryFrame
<1>2. ASSUME e.id # 0
      PROVE  /\ e \in MembershipEvents /\ e.id \in Memberships
             /\ rows' = [rows EXCEPT ![e.id] = IF e.version > rows[e.id].version
                                               THEN RowOf(e) ELSE rows[e.id]]
             /\ ctenant' = ctenant
  BY <1>0, <1>2, ApplyOne, EventKinds
<1>3. ASSUME e.id = 0
      PROVE  /\ e \in TenantEvents
             /\ rows' = rows
             /\ ctenant' = IF TenantNewer(ctenant, e) THEN TenantOf(e) ELSE ctenant
  BY <1>0, <1>3, ApplyOne, EventKinds
<1>4. /\ rows' \in [Memberships -> RowRecords] /\ ctenant' \in TenantRecords
      /\ \A k \in Memberships : rows'[k] = NoMembership \/ MembershipEvent(k, rows'[k]) \in log
      /\ TenantEvent(ctenant') \in log
      /\ \A k \in Memberships :
            rows'[k] = rows[k] \/ (k = e.id /\ rows'[k] = RowOf(e) /\ e.version > rows[k].version)
      /\ ctenant' = ctenant \/ (e.id = 0 /\ ctenant' = TenantOf(e) /\ TenantNewer(ctenant, e))
  BY <1>0, <1>2, <1>3, EventKinds DEF ProjectionTypeOK, CopiesAreCommitted
<1>5. /\ \A k \in Memberships : rows'[k].version >= rows[k].version
      /\ \A f \in log : f.id # 0 => f.id \in Memberships /\ f.version \in Nat
      /\ \A k \in Memberships : rows'[k].version \in Nat /\ rows[k].version \in Nat
  <2>1. \A k \in Memberships : rows'[k].version \in Nat /\ rows[k].version \in Nat
    BY <1>0, <1>4, RowFields
  <2>2. ASSUME NEW k \in Memberships
        PROVE  rows'[k].version >= rows[k].version
    <3>1. CASE rows'[k] = rows[k]
      BY <2>1, <3>1
    <3>2. CASE k = e.id /\ rows'[k] = RowOf(e) /\ e.version > rows[k].version
      <4>1. RowOf(e).version = e.version /\ e.version \in Nat
        BY <1>0, <3>2, MembershipIds, EventKinds
      <4> QED
        BY <2>1, <3>2, <4>1
    <3> QED
      BY <1>4, <3>1, <3>2
  <2>3. \A f \in log : f.id # 0 => f.id \in Memberships /\ f.version \in Nat
    BY <1>0, EventKinds DEF ProjectionTypeOK
  <2> QED
    BY <2>1, <2>2, <2>3
<1>6. ASSUME NEW f \in TenantEvents, ~TenantNewer(ctenant, f)
      PROVE  ~TenantNewer(ctenant', f)
  BY <1>0, <1>4, <1>6, EventKinds DEF TenantNewer
<1>7. ASSUME NEW f \in log, AtOrPast(f)
      PROVE  AtOrPast(f)'
  <2>1. CASE f.id = 0
    <3>1. f \in TenantEvents
      BY <2>1, <1>0, EventKinds DEF ProjectionTypeOK
    <3> QED
      BY <1>6, <1>7, <2>1, <3>1 DEF AtOrPast
  <2>2. CASE f.id # 0
    BY <1>5, <1>7, <2>2 DEF AtOrPast
  <2> QED
    BY <2>1, <2>2
<1>8. AtOrPast(e)'
  <2>1. CASE e.id = 0
    BY <1>0, <1>3, <2>1, EventKinds DEF AtOrPast, TenantNewer
  <2>2. CASE e.id # 0
    BY <1>0, <1>2, <1>5, <2>2, EventKinds DEF AtOrPast, ProjectionTypeOK
  <2> QED
    BY <2>1, <2>2
<1> QED
  BY <1>4, <1>5, <1>7, <1>8

(* A delivery that is applied: the row it is for is at or past it afterwards. *)
LEMMA DeliveryApplied ==
    ASSUME ProjectionInv, NEW e \in owed, DeliveryFrame(e),
           e \notin inbox, boot.phase = "none", boot' = boot,
           ApplyAll(rows, ctenant, {e}), inbox' = inbox \cup {e}
    PROVE  ProjectionInv'
<1>0. /\ ProjectionTypeOK /\ LogIsHistory /\ CopiesAreCommitted
      /\ e \in log /\ e \in MembershipEvents \cup TenantEvents
      /\ \A k \in Memberships : rows[k] \in RowRecords /\ mem[k] \in RowRecords
      /\ ctenant \in TenantRecords /\ tenant \in TenantRecords
  BY DEF ProjectionInv, CopiesAreCommitted, ProjectionTypeOK
<1>1. /\ UNCHANGED <<tenant, mem, log, dead, closed, sweep, repairs>> /\ LogIsHistory'
      /\ CurrentTenant' = CurrentTenant /\ \A k \in Memberships : Current(k)' = Current(k)
  BY <1>0, LedgerStays DEF DeliveryFrame
<1>4. /\ rows' \in [Memberships -> RowRecords] /\ ctenant' \in TenantRecords
      /\ \A k \in Memberships : rows'[k] = NoMembership \/ MembershipEvent(k, rows'[k]) \in log
      /\ TenantEvent(ctenant') \in log
      /\ ctenant' = ctenant \/ (e.id = 0 /\ ctenant' = TenantOf(e) /\ TenantNewer(ctenant, e))
  BY AppliedIs
<1>5. \A k \in Memberships : /\ rows'[k].version >= rows[k].version
                             /\ rows'[k].version \in Nat /\ rows[k].version \in Nat
  BY AppliedIs
<1>8. AtOrPast(e)'
  BY AppliedIs
<1>9. ProjectionTypeOK'
  BY <1>0, <1>1, <1>4 DEF ProjectionTypeOK
<1>10. CopiesAreCommitted'
  BY <1>0, <1>1, <1>4 DEF CopiesAreCommitted, DeliveryFrame
<1>11. FindingsAreCommitted' /\ BufferIsOfABootstrap'
  BY <1>1 DEF ProjectionInv, FindingsAreCommitted, BufferIsOfABootstrap
<1>12. CurrentIsTraced'
  BY <1>1 DEF ProjectionInv, CurrentIsTraced, Traced, DeliveryFrame
<1>13. ASSUME NEW k \in Memberships
       PROVE  HandledShows(k)'
  <2> SUFFICES ASSUME Current(k) \in inbox'
               PROVE  rows'[k] = mem[k] \/ (boot.count > 0 /\ mem[k].status # "active")
    BY <1>1 DEF HandledShows
  <2>1. /\ rows'[k] \in RowRecords
        /\ rows'[k].version <= mem[k].version
        /\ rows'[k].version = mem[k].version => rows'[k] = mem[k]
    BY <1>0, <1>4, CommittedIsBehind
  <2>2. CASE Current(k) \in inbox
    <3>1. rows[k] = mem[k] \/ (boot.count > 0 /\ mem[k].status # "active")
      BY <2>2 DEF ProjectionInv, HandledShows
    <3> QED
      BY <1>5, <2>1, <3>1
  <2>3. CASE Current(k) = e
    <3>1. e.id = k /\ e.id # 0 /\ e.version = mem[k].version
      BY <2>3, EventFields, MembershipIds DEF Current
    <3>2. rows'[k].version >= mem[k].version
      BY <1>8, <3>1 DEF AtOrPast
    <3> QED
      BY <1>0, <2>1, <3>2, RowFields
  <2> QED
    BY <2>2, <2>3
<1>14. TenantHandledShows'
  <2> SUFFICES ASSUME CurrentTenant \in inbox' PROVE ctenant' = tenant
    BY <1>1 DEF TenantHandledShows
  <2>1. ctenant' = tenant \/ ctenant'.sec < tenant.sec
    BY <1>0, <1>4, TenantIsBehind
  <2>2. /\ ctenant.sec \in Nat /\ ctenant'.sec \in Nat /\ tenant.sec \in Nat
        /\ CurrentTenant.sec = tenant.sec /\ CurrentTenant.id = 0
    BY <1>0, <1>4, EventKinds, EventFields DEF CurrentTenant
  <2>3. CASE CurrentTenant \in inbox
    <3>1. ctenant = tenant
      BY <2>3 DEF ProjectionInv, TenantHandledShows
    <3>2. ctenant'.sec >= ctenant.sec
      BY <1>0, <1>4, <2>2, EventKinds DEF TenantNewer
    <3> QED
      BY <2>1, <2>2, <3>1, <3>2
  <2>4. CASE CurrentTenant = e
    <3>1. ctenant'.sec >= e.sec
      BY <1>8, <2>2, <2>4 DEF AtOrPast, TenantNewer
    <3> QED
      BY <2>1, <2>2, <2>4, <3>1
  <2> QED
    BY <2>3, <2>4
<1> QED
  BY <1>1, <1>9, <1>10, <1>11, <1>12, <1>13, <1>14 DEF ProjectionInv

(* A delivery, acknowledged or not. *)
LEMMA DeliverySteps ==
    ASSUME ProjectionInv, NEW e \in log, Deliver(e) \/ DeliverUnacknowledged(e)
    PROVE  ProjectionInv'
<1>1. e \in owed /\ Accept(e)
  BY DEF Deliver, DeliverUnacknowledged
<1>2. DeliveryFrame(e)
  BY DEF Deliver, DeliverUnacknowledged, DeliveryFrame, deliveryVars
<1>3. CASE e \in inbox
  BY <1>1, <1>2, <1>3, DeliverySetAside DEF Accept, consumerVars
<1>4. CASE e \notin inbox /\ boot.phase # "none"
  BY <1>1, <1>2, <1>4, DeliverySetAside DEF Accept
<1>5. CASE e \notin inbox /\ boot.phase = "none"
  BY <1>1, <1>2, <1>5, DeliveryApplied DEF Accept
<1> QED
  BY <1>3, <1>4, <1>5

(* An event abandoned, owed again, or closed on evidence: nothing current is dropped. *)
LEMMA DeadLetterSteps ==
    ASSUME ProjectionInv, NEW e \in log, Abandon(e) \/ Replay(e) \/ Resolve(e) \/ Supersede(e)
    PROVE  ProjectionInv'
<1>0. /\ ProjectionTypeOK /\ LogIsHistory /\ CopiesAreCommitted
      /\ \A k \in Memberships : rows[k] \in RowRecords /\ mem[k] \in RowRecords
      /\ ctenant \in TenantRecords /\ tenant \in TenantRecords
      /\ UNCHANGED <<ledgerVars, receipts, rows, ctenant, inbox, sweep, repairs, boot>>
  BY DEF ProjectionInv, ProjectionTypeOK, consumerVars, Abandon, Replay, Resolve, Supersede, Close
<1>1. /\ LogIsHistory' /\ UNCHANGED <<tenant, mem, log>>
      /\ CurrentTenant' = CurrentTenant /\ \A k \in Memberships : Current(k)' = Current(k)
  BY <1>0, LedgerStays
<1>2. /\ owed' \subseteq owed \cup {e} /\ dead' \subseteq dead \cup {e} /\ closed' \subseteq closed \cup {e}
      /\ owed \cup dead \subseteq owed' \cup dead' \cup {e}
      /\ \/ closed' = closed /\ e \in owed' \cup dead'
         \/ e \in receipts
         \/ SupersededEvidence(e)
  BY DEF Abandon, Replay, Resolve, Supersede, Close, ReplayedEvidence
<1>3. /\ ProjectionTypeOK' /\ CopiesAreCommitted' /\ FindingsAreCommitted' /\ BufferIsOfABootstrap'
      /\ TenantHandledShows' /\ \A k \in Memberships : HandledShows(k)'
  BY <1>0, <1>1, <1>2 DEF ProjectionInv, ProjectionTypeOK, CopiesAreCommitted, FindingsAreCommitted,
     BufferIsOfABootstrap, TenantHandledShows, HandledShows
<1>4. ASSUME SupersededEvidence(e)
      PROVE  /\ \A k \in Memberships : e # Current(k)
             /\ e # CurrentTenant
  <2>1. PICK f \in receipts :
           f.id = e.id /\ IF e.id = 0 THEN f.sec > e.sec ELSE f.version > e.version
    BY <1>4 DEF SupersededEvidence
  <2>2. f \in log /\ f \in inbox
    BY <1>0 DEF CopiesAreCommitted
  <2>3. CASE e.id = 0
    <3>1. /\ e \in TenantEvents /\ f \in TenantEvents /\ e.sec \in Nat /\ f.sec \in Nat
          /\ ctenant.sec \in Nat /\ ctenant.version \in Nat
          /\ e.version \in Nat /\ f.version \in Nat /\ tenant.sec \in Nat
      BY <1>0, <2>1, <2>2, <2>3, EventKinds DEF ProjectionTypeOK
    <3>2. CurrentTenant.sec = tenant.sec /\ \A k \in Memberships : Current(k).id # 0
      BY EventFields, MembershipIds DEF CurrentTenant, Current
    <3>3. f.sec <= tenant.sec
      BY <1>0, <2>1, <2>2, <2>3, <3>1, <3>2 DEF LogIsHistory
    <3> QED
      BY <2>1, <2>3, <3>1, <3>2, <3>3
  <2>4. CASE e.id # 0
    <3>1. /\ e \in MembershipEvents /\ f \in MembershipEvents /\ e.version \in Nat
          /\ f.version \in Nat /\ e.id \in Memberships
      BY <1>0, <2>1, <2>2, <2>4, EventKinds DEF ProjectionTypeOK
    <3>2. /\ CurrentTenant.id = 0
          /\ \A k \in Memberships : Current(k).id = k /\ Current(k).version = mem[k].version
      BY EventFields, MembershipIds DEF CurrentTenant, Current
    <3>3. f.version <= mem[e.id].version /\ mem[e.id].version \in Nat /\ rows[e.id].version \in Nat
      BY <1>0, <2>1, <2>2, <2>4, <3>1, EventIsBehind, RowFields
    <3> QED
      BY <2>1, <2>4, <3>1, <3>2, <3>3
  <2> QED
    BY <2>3, <2>4
<1>5. CurrentIsTraced'
  <2>1. ASSUME NEW c, Traced(c), c = e => ~SupersededEvidence(e)
        PROVE  Traced(c)'
    BY <1>0, <1>2, <2>1 DEF Traced, CopiesAreCommitted
  <2> QED
    BY <1>1, <1>4, <2>1 DEF ProjectionInv, CurrentIsTraced
<1> QED
  BY <1>1, <1>3, <1>5 DEF ProjectionInv

-----------------------------------------------------------------------------
(* Reconciliation. *)

(* A step that changes only the sweep and the repairs keeps the invariant if what they  *)
(* carry was committed.                                                                 *)
LEMMA OnlyTheSweep ==
    ASSUME ProjectionInv, UNCHANGED <<ledgerVars, deliveryVars, consumerVars, boot>>,
           sweep' \in SweepRecords, repairs' \in SUBSET RepairRecords, FindingsAreCommitted'
    PROVE  ProjectionInv'
<1>1. /\ LogIsHistory' /\ UNCHANGED <<tenant, mem, log>>
      /\ CurrentTenant' = CurrentTenant /\ \A k \in Memberships : Current(k)' = Current(k)
  BY LedgerStays DEF ProjectionInv
<1>2. UNCHANGED <<owed, receipts, dead, closed, rows, ctenant, inbox, boot>>
  BY DEF deliveryVars, consumerVars
<1> QED
  BY <1>1, <1>2 DEF ProjectionInv, ProjectionTypeOK, CopiesAreCommitted, BufferIsOfABootstrap,
     CurrentIsTraced, Traced, HandledShows, TenantHandledShows

(* A report says nothing that authority is not at or past. *)
LEMMA ReportStep ==
    ASSUME ProjectionInv, Report
    PROVE  ProjectionInv'
<1>0. /\ ProjectionTypeOK /\ LogIsHistory /\ CopiesAreCommitted /\ boot.count \in Nat
      /\ \A k \in Memberships : rows[k] \in RowRecords
      /\ DOMAIN rows = Memberships /\ repairs \in SUBSET RepairRecords
      /\ UNCHANGED <<ledgerVars, deliveryVars, consumerVars, boot, repairs>>
  BY DEF ProjectionInv, ProjectionTypeOK, BootRecords, Report
<1> DEFINE R == ActiveReport(rows)
<1>1. sweep' = [phase |-> "reported", findings |-> {}, mark |-> boot.count, report |-> R]
  BY DEF Report
<1>2. ASSUME NEW r \in R
      PROVE  r \in ReportRecords /\ r.version <= mem[r.id].version
  <2>1. PICK k \in Memberships : r = [id |-> k, version |-> rows[k].version]
    BY <1>0, <1>2 DEF ActiveReport
  <2>2. rows[k].version <= mem[k].version /\ rows[k].version \in Nat
    BY <1>0, CommittedIsBehind, RowFields DEF CopiesAreCommitted
  <2> QED
    BY <2>1, <2>2 DEF ReportRecords
<1> HIDE DEF R
<1>3. sweep' \in SweepRecords
  BY <1>0, <1>1, <1>2 DEF SweepRecords
<1>4. UNCHANGED <<mem, log>>
  BY <1>0 DEF ledgerVars
<1>5. FindingsAreCommitted'
  BY <1>0, <1>1, <1>2, <1>4 DEF ProjectionInv, FindingsAreCommitted
<1> QED
  BY <1>0, <1>3, <1>5, OnlyTheSweep

(* What authority finds is its own state, and never a row it does not have. *)
LEMMA CompareStep ==
    ASSUME ProjectionInv, Compare
    PROVE  ProjectionInv'
<1>0. /\ ProjectionTypeOK /\ LogIsHistory /\ FindingsAreCommitted
      /\ \A k \in Memberships : mem[k] \in RowRecords
      /\ DOMAIN mem = Memberships /\ repairs \in SUBSET RepairRecords
      /\ UNCHANGED <<ledgerVars, deliveryVars, consumerVars, boot, repairs>>
      /\ sweep \in SweepRecords /\ sweep.report \in SUBSET ReportRecords
  BY DEF ProjectionInv, ProjectionTypeOK, SweepRecords, Compare
<1> DEFINE F == Findings(mem, sweep.report)
<1>1. sweep' = [sweep EXCEPT !.phase = "compared", !.findings = F]
  BY DEF Compare
<1>2. ASSUME NEW k \in Memberships
      PROVE  /\ ReportedVersion(sweep.report, k) \in Nat
             /\ ReportedVersion(sweep.report, k) # 0 => mem[k] # NoMembership
  <2>1. CASE \E r \in sweep.report : r.id = k
    <3>1. PICK r \in sweep.report : r.id = k /\ ReportedVersion(sweep.report, k) = r.version
      BY <2>1 DEF ReportedVersion
    <3>2. r.version <= mem[k].version /\ r.version \in Nat
      BY <1>0, <3>1 DEF FindingsAreCommitted, ReportRecords
    <3> QED
      BY <1>0, <3>1, <3>2, RowFields
  <2>2. CASE ~\E r \in sweep.report : r.id = k
    BY <2>2 DEF ReportedVersion
  <2> QED
    BY <2>1, <2>2
<1>3. ASSUME NEW f \in F
      PROVE  f \in FindingRecords /\ MembershipEvent(f.id, f.state) \in log
  <2>1. PICK k \in Divergent(mem, sweep.report) :
           f = [id |-> k, state |-> mem[k], projected |-> ReportedVersion(sweep.report, k)]
    BY <1>3 DEF Findings
  <2>2. k \in Memberships /\ mem[k] # NoMembership
    BY <1>0, <1>2, <2>1, RowFields DEF Divergent
  <2>3. MembershipEvent(k, mem[k]) \in log
    BY <1>0, <2>2 DEF LogIsHistory, Current
  <2>4. ReportedVersion(sweep.report, k) \in Nat
    BY <1>2, <2>2
  <2> QED
    BY <1>0, <2>1, <2>2, <2>3, <2>4 DEF FindingRecords
<1> HIDE DEF F
<1>4. /\ sweep' \in SweepRecords /\ sweep'.report = sweep.report /\ sweep'.findings = F
  BY <1>0, <1>1, <1>3 DEF SweepRecords
<1>5. UNCHANGED <<mem, log>>
  BY <1>0 DEF ledgerVars
<1>6. FindingsAreCommitted'
  BY <1>0, <1>3, <1>4, <1>5 DEF FindingsAreCommitted
<1> QED
  BY <1>0, <1>4, <1>6, OnlyTheSweep

(* A sweep that is published or lost. *)
LEMMA SweepEnds ==
    ASSUME ProjectionInv, PublishReconciled \/ LoseSweep
    PROVE  ProjectionInv'
<1>0. /\ ProjectionTypeOK /\ FindingsAreCommitted /\ sweep \in SweepRecords
      /\ repairs \in SUBSET RepairRecords
      /\ UNCHANGED <<ledgerVars, deliveryVars, consumerVars, boot>> /\ sweep' = NoSweep
  BY DEF ProjectionInv, ProjectionTypeOK, PublishReconciled, LoseSweep
<1> DEFINE R == [mark |-> sweep.mark, findings |-> sweep.findings]
<1>1. R \in RepairRecords /\ R.findings = sweep.findings
  BY <1>0 DEF SweepRecords, RepairRecords
<1>2. repairs' \subseteq repairs \cup {R}
  BY DEF PublishReconciled, LoseSweep
<1>3. sweep' \in SweepRecords /\ sweep'.report = {} /\ sweep'.findings = {}
  BY <1>0 DEF SweepRecords, NoSweep
<1>4. UNCHANGED <<mem, log>>
  BY <1>0 DEF ledgerVars
<1> HIDE DEF R
<1>5. FindingsAreCommitted'
  BY <1>0, <1>1, <1>2, <1>3, <1>4 DEF FindingsAreCommitted
<1> QED
  BY <1>0, <1>1, <1>2, <1>3, <1>5, OnlyTheSweep

(* A repaired row is as it was, or a committed state of a higher version. *)
LEMMA RepairedIs ==
    ASSUME ProjectionInv, NEW p \in repairs, NEW k \in Memberships
    PROVE  /\ Repaired(rows[k], p.findings, k) \in RowRecords
           /\ \/ Repaired(rows[k], p.findings, k) = rows[k]
              \/ /\ MembershipEvent(k, Repaired(rows[k], p.findings, k)) \in log
                 /\ Repaired(rows[k], p.findings, k).version > rows[k].version
                 /\ \E f \in p.findings : f.id = k /\ Repaired(rows[k], p.findings, k) = f.state
<1> DEFINE mine == {f \in p.findings : f.id = k}
<1>0. /\ rows[k] \in RowRecords /\ p.findings \in SUBSET FindingRecords
      /\ \A f \in p.findings : MembershipEvent(f.id, f.state) \in log
  BY DEF ProjectionInv, ProjectionTypeOK, RepairRecords, FindingsAreCommitted
<1>1. CASE mine = {}
  <2>1. Repaired(rows[k], p.findings, k) = rows[k]
    BY <1>1 DEF Repaired
  <2> QED
    BY <1>0, <2>1
<1>2. CASE mine # {}
  <2>1. PICK f \in mine : Repaired(rows[k], p.findings, k) =
                IF f.state = NoRow THEN NoRow ELSE IF Newer(rows[k], f.state) THEN f.state ELSE rows[k]
    BY <1>2 DEF Repaired
  <2>2. f.id = k /\ f.state \in RowRecords /\ MembershipEvent(k, f.state) \in log
    BY <1>0, <2>1 DEF FindingRecords
  <2>3. f.state # NoRow
    <3>1. MembershipEvent(k, f.state) \in MembershipEvents
      BY <2>2, EventFields, MembershipIds, EventKinds DEF ProjectionInv, ProjectionTypeOK
    <3> QED
      BY <3>1, EventFields, EventKinds, RowFields
  <2> QED
    BY <1>0, <2>1, <2>2, <2>3 DEF Newer
<1> QED
  BY <1>1, <1>2

(* A repair is applied, or discarded for its mark. *)
LEMMA DeliverRepairStep ==
    ASSUME ProjectionInv, NEW p \in repairs, DeliverRepair(p)
    PROVE  ProjectionInv'
<1>0. /\ ProjectionTypeOK /\ LogIsHistory /\ CopiesAreCommitted
      /\ \A k \in Memberships : rows[k] \in RowRecords /\ mem[k] \in RowRecords
      /\ UNCHANGED <<ledgerVars, owed, receipts, dead, closed, ctenant, inbox, sweep, boot>>
      /\ repairs' \subseteq repairs /\ boot.phase = "none"
  BY DEF ProjectionInv, ProjectionTypeOK, DeliverRepair, deliveryVars
<1>1. /\ LogIsHistory' /\ UNCHANGED <<tenant, mem, log>>
      /\ CurrentTenant' = CurrentTenant /\ \A k \in Memberships : Current(k)' = Current(k)
  BY <1>0, LedgerStays
<1>2. rows' = rows \/ rows' = [k \in Memberships |-> Repaired(rows[k], p.findings, k)]
  BY DEF DeliverRepair
<1>3. /\ rows' \in [Memberships -> RowRecords]
      /\ \A k \in Memberships :
            \/ rows'[k] = rows[k]
            \/ MembershipEvent(k, rows'[k]) \in log /\ rows'[k].version > rows[k].version
  BY <1>0, <1>2, RepairedIs DEF ProjectionTypeOK
<1>4. \A k \in Memberships : /\ rows'[k] \in RowRecords
                             /\ rows'[k].version \in Nat /\ rows[k].version \in Nat
                             /\ rows'[k].version >= rows[k].version
  <2>1. \A k \in Memberships : /\ rows'[k] \in RowRecords
                               /\ rows'[k].version \in Nat /\ rows[k].version \in Nat
    BY <1>0, <1>3, RowFields
  <2> QED
    BY <1>3, <2>1
<1>5. ProjectionTypeOK' /\ CopiesAreCommitted' /\ FindingsAreCommitted' /\ BufferIsOfABootstrap'
  BY <1>0, <1>1, <1>3 DEF ProjectionInv, ProjectionTypeOK, CopiesAreCommitted, FindingsAreCommitted,
                          BufferIsOfABootstrap
<1>6. CurrentIsTraced' /\ TenantHandledShows'
  BY <1>0, <1>1 DEF ProjectionInv, CurrentIsTraced, Traced, TenantHandledShows
<1>7. ASSUME NEW k \in Memberships
      PROVE  HandledShows(k)'
  <2> SUFFICES ASSUME Current(k) \in inbox
               PROVE  rows'[k] = mem[k] \/ (boot.count > 0 /\ mem[k].status # "active")
    BY <1>0, <1>1 DEF HandledShows
  <2>1. rows[k] = mem[k] \/ (boot.count > 0 /\ mem[k].status # "active")
    BY <1>0 DEF ProjectionInv, HandledShows
  <2>2. rows'[k] = NoMembership \/ MembershipEvent(k, rows'[k]) \in log
    BY <1>0, <1>3 DEF CopiesAreCommitted
  <2>3. rows'[k].version <= mem[k].version /\ (rows'[k].version = mem[k].version => rows'[k] = mem[k])
    BY <1>0, <1>4, <2>2, CommittedIsBehind
  <2> QED
    BY <1>4, <2>1, <2>3
<1> QED
  BY <1>1, <1>5, <1>6, <1>7 DEF ProjectionInv

-----------------------------------------------------------------------------
(* The bootstrap. *)

(* A nonempty set of numbers has a least one, and one that is bounded a greatest. *)
LEMMA LeastAndGreatest ==
    ASSUME NEW S \in SUBSET Nat, S # {}
    PROVE  /\ \E x \in S : \A y \in S : x <= y
           /\ \A N \in Nat : (\A x \in S : x <= N) => \E x \in S : \A y \in S : y <= x
<1>1. ASSUME NEW T \in SUBSET Nat, T # {}
      PROVE  \E x \in T : \A y \in T : x <= y
  <2>1. PICK x \in T : \A y \in T : ~(<<y, x>> \in OpToRel(<, Nat))
    BY <1>1, NatLessThanWellFounded, WFMin
  <2>2. \A y : <<y, x>> \in OpToRel(<, Nat) <=> <<y, x>> \in Nat \X Nat /\ y < x
    BY Zenon DEF OpToRel
  <2>3. \A y \in T : ~(<<y, x>> \in Nat \X Nat /\ y < x)
    BY <2>1, <2>2, Zenon
  <2>4. \A y \in T : y \in Nat /\ x \in Nat
    OBVIOUS
  <2>5. \A y \in T : ~(y < x)
    BY ONLY <2>3, <2>4
  <2>6. \A y \in T : x <= y
    BY ONLY <2>4, <2>5
  <2> QED
    BY <2>6
<1>2. ASSUME NEW N \in Nat, \A x \in S : x <= N
      PROVE  \E x \in S : \A y \in S : y <= x
  <2> DEFINE T == {N - x : x \in S}
  <2>1. T \in SUBSET Nat /\ T # {}
    <3>1. \A x \in S : N - x \in Nat
      BY <1>2
    <3>2. PICK x : x \in S
      OBVIOUS
    <3>3. N - x \in T
      BY <3>2
    <3> QED
      BY <3>1, <3>3
  <2>2. PICK t \in T : \A u \in T : t <= u
    BY <1>1, <2>1
  <2>3. PICK x \in S : t = N - x
    BY <2>2
  <2>4. ASSUME NEW y \in S PROVE y <= x
    <3>1. N - x <= N - y
      BY <2>2, <2>3
    <3> QED
      BY <3>1, <1>2
  <2> QED
    BY <2>3, <2>4
<1> QED
  BY <1>1, <1>2

(* A nonempty set of Memberships has a first and a last one. *)
LEMMA FirstAndLast ==
    ASSUME NEW S \in SUBSET Memberships, S # {}
    PROVE  /\ \E x \in S : \A y \in S : x <= y
           /\ \E x \in S : \A y \in S : y <= x
<1>1. S \in SUBSET Nat /\ NMemberships \in Nat /\ \A x \in S : x <= NMemberships
  BY ProjectionAssumption DEF Memberships
<1> QED
  BY <1>1, LeastAndGreatest

(* The active Memberships past a cursor, and those of them before one. *)
ActiveAfter(c) == {k \in Memberships : k > c /\ mem[k].status = "active"}
ActiveBefore(c, m) == {k \in (c + 1)..(m - 1) : mem[k].status = "active"}

(* How many there are before a Membership grows with it, by one at an active one. *)
LEMMA BeforeCounts ==
    ASSUME NEW c \in Nat, NEW m \in Memberships
    PROVE  /\ IsFiniteSet(ActiveBefore(c, m)) /\ Cardinality(ActiveBefore(c, m)) \in Nat
           /\ ActiveBefore(c, m) = {k \in ActiveAfter(c) : k < m}
           /\ \A k \in Memberships : k <= m =>
                 Cardinality(ActiveBefore(c, k)) <= Cardinality(ActiveBefore(c, m))
           /\ \A p \in ActiveAfter(c) :
                 ActiveBefore(c, m) = ActiveBefore(c, p) \cup {p}
                    => Cardinality(ActiveBefore(c, m)) = Cardinality(ActiveBefore(c, p)) + 1
<1>1. ASSUME NEW k \in Memberships
      PROVE  IsFiniteSet(ActiveBefore(c, k)) /\ Cardinality(ActiveBefore(c, k)) \in Nat
  <2>1. c + 1 \in Int /\ k - 1 \in Int
    BY <1>1, MembershipIds
  <2>2. IsFiniteSet((c + 1)..(k - 1))
    BY <2>1, FS_Interval
  <2>3. ActiveBefore(c, k) \in SUBSET ((c + 1)..(k - 1))
    BY DEF ActiveBefore
  <2>4. IsFiniteSet(ActiveBefore(c, k))
    BY <2>2, <2>3, FS_Subset
  <2> QED
    BY <2>4, FS_CardinalityType
<1>2. ASSUME NEW k \in Memberships
      PROVE  ActiveBefore(c, k) = {j \in ActiveAfter(c) : j < k}
  BY <1>2, ProjectionAssumption DEF ActiveBefore, ActiveAfter, Memberships
<1>3. ASSUME NEW k \in Memberships, k <= m
      PROVE  Cardinality(ActiveBefore(c, k)) <= Cardinality(ActiveBefore(c, m))
  <2>1. ActiveBefore(c, k) \in SUBSET ActiveBefore(c, m)
    BY <1>2, <1>3, MembershipIds DEF ActiveAfter
  <2> QED
    BY <1>1, <2>1, FS_Subset
<1>4. ASSUME NEW p \in ActiveAfter(c), ActiveBefore(c, m) = ActiveBefore(c, p) \cup {p}
      PROVE  Cardinality(ActiveBefore(c, m)) = Cardinality(ActiveBefore(c, p)) + 1
  <2>1. p \in Memberships /\ p \notin ActiveBefore(c, p)
    BY <1>2, MembershipIds DEF ActiveAfter
  <2> QED
    BY <1>1, <1>4, <2>1, FS_AddElement
<1> QED
  BY <1>1, <1>2, <1>3, <1>4

(* A page is the active Memberships past the cursor from the first one on, and a page   *)
(* that is not full has all of them.                                                    *)
LEMMA PageIs ==
    ASSUME NEW c \in Nat
    PROVE  /\ PageAfter(c) \subseteq ActiveAfter(c)
           /\ \A m \in PageAfter(c), k \in ActiveAfter(c) : k <= m => k \in PageAfter(c)
           /\ PageAfter(c) = ActiveAfter(c) \/ Cardinality(PageAfter(c)) = PageSize
<1> DEFINE page == PageAfter(c)
           S == ActiveAfter(c)
           N(m) == Cardinality(ActiveBefore(c, m))
<1>1. page = {m \in S : PageSize > N(m)}
  BY DEF PageAfter, ActiveAfter, ActiveBefore
<1>2. S \subseteq Memberships /\ page \subseteq S /\ S \subseteq Nat
  BY <1>1, MembershipIds DEF ActiveAfter
<1>3. /\ \A m \in Memberships : N(m) \in Nat /\ ActiveBefore(c, m) = {k \in S : k < m}
      /\ \A m \in Memberships, k \in Memberships : k <= m => N(k) <= N(m)
      /\ \A m \in Memberships, p \in S :
            ActiveBefore(c, m) = ActiveBefore(c, p) \cup {p} => N(m) = N(p) + 1
  BY BeforeCounts
<1>4. PageSize \in Nat
  BY ProjectionAssumption
<1> HIDE DEF S, page
<1>5. ASSUME NEW m \in page, NEW k \in S, k <= m
      PROVE  k \in page
  <2>1. m \in Memberships /\ k \in Memberships /\ PageSize > N(m)
    BY <1>1, <1>2
  <2>2. N(k) <= N(m) /\ N(k) \in Nat /\ N(m) \in Nat
    BY <1>3, <1>5, <2>1
  <2> QED
    BY <1>1, <1>4, <2>1, <2>2
<1>6. ASSUME page # S
      PROVE  Cardinality(page) = PageSize
  <2>1. S \ page \in SUBSET Memberships /\ S \ page # {}
    BY <1>2, <1>6
  <2>2. PICK m \in S \ page : \A y \in S \ page : m <= y
    BY <2>1, FirstAndLast
  <2>3. m \in Memberships /\ m \in Nat /\ N(m) \in Nat /\ N(m) >= PageSize
    BY <1>1, <1>2, <1>3, <1>4, <2>2
  <2>4. page = ActiveBefore(c, m)
    <3>1. ASSUME NEW k \in page PROVE k \in S /\ k < m
      BY <1>2, <1>5, <2>2, <3>1
    <3>2. ASSUME NEW k \in S, k < m PROVE k \in page
      BY <1>2, <2>2, <3>2
    <3> QED
      BY <1>3, <2>3, <3>1, <3>2
  <2>5. CASE page = {}
    BY <2>3, <2>4, <2>5, <1>4, FS_EmptySet
  <2>6. CASE page # {}
    <3>1. page \in SUBSET Memberships
      BY <1>2
    <3>2. PICK p \in page : \A y \in page : y <= p
      BY <2>6, <3>1, FirstAndLast
    <3>3. p \in S /\ p \in Memberships /\ PageSize > N(p) /\ N(p) \in Nat
      BY <1>1, <1>2, <1>3, <3>2
    <3>4. ActiveBefore(c, m) = ActiveBefore(c, p) \cup {p}
      <4>1. ActiveBefore(c, p) = {k \in S : k < p}
        BY <1>3, <3>3
      <4>2. ASSUME NEW k \in page PROVE k \in S /\ (k < p \/ k = p)
        BY <1>2, <3>2, <4>2
      <4>3. ASSUME NEW k \in S, k < p PROVE k \in page
        BY <1>2, <1>5, <3>2, <3>3, <4>3
      <4> QED
        BY <2>4, <3>2, <4>1, <4>2, <4>3
    <3>5. N(m) = N(p) + 1
      BY <1>3, <2>3, <3>3, <3>4
    <3> QED
      BY <1>4, <2>3, <2>4, <3>3, <3>5
  <2> QED
    BY <2>5, <2>6
<1> QED
  BY <1>2, <1>5, <1>6 DEF S, page

(* What a bootstrap under way leaves alone. *)
BootFrame ==
    /\ UNCHANGED <<ledgerVars, deliveryVars, consumerVars, sweep, repairs>>
    /\ boot' \in BootRecords /\ boot'.phase # "none" /\ boot'.count # 0 /\ boot'.count >= boot.count
    /\ boot'.buffer = boot.buffer

(* A step of a bootstrap keeps the invariant if what was read was committed and shows   *)
(* what was handled.                                                                    *)
LEMMA OnlyTheBootstrap ==
    ASSUME ProjectionInv, BootFrame,
           boot'.page \subseteq log, boot'.tenant = NoTenant \/ TenantEvent(boot'.tenant) \in log,
           \A k \in Memberships : Current(k) \in inbox /\ mem[k].status = "active" =>
              /\ boot'.phase = "reading" /\ k <= boot'.cursor => Current(k) \in boot'.page
              /\ boot'.phase = "read" => Current(k) \in boot'.page,
           CurrentTenant \in inbox => boot'.tenant \in {NoTenant, tenant}
    PROVE  ProjectionInv'
<1>1. /\ LogIsHistory' /\ UNCHANGED <<tenant, mem, log>>
      /\ CurrentTenant' = CurrentTenant /\ \A k \in Memberships : Current(k)' = Current(k)
  BY LedgerStays DEF ProjectionInv, BootFrame
<1>2. UNCHANGED <<owed, receipts, dead, closed, rows, ctenant, inbox, sweep, repairs>>
  BY DEF deliveryVars, consumerVars, BootFrame
<1>3. ProjectionTypeOK'
  BY <1>1, <1>2 DEF ProjectionInv, ProjectionTypeOK, BootFrame
<1>4. CopiesAreCommitted'
  BY <1>1, <1>2 DEF ProjectionInv, CopiesAreCommitted, BootFrame
<1>5. FindingsAreCommitted' /\ BufferIsOfABootstrap' /\ CurrentIsTraced'
  BY <1>1, <1>2 DEF ProjectionInv, FindingsAreCommitted, BufferIsOfABootstrap, CurrentIsTraced, Traced,
                    BootFrame
<1>6. \A k \in Memberships : HandledShows(k)'
  <2>1. boot'.count > 0
    BY DEF BootFrame, BootRecords
  <2> QED
    BY <1>1, <1>2, <2>1 DEF ProjectionInv, HandledShows, BootFrame
<1>7. TenantHandledShows'
  BY <1>1, <1>2 DEF ProjectionInv, TenantHandledShows, BootFrame
<1> QED
  BY <1>1, <1>3, <1>4, <1>5, <1>6, <1>7 DEF ProjectionInv

(* A bootstrap begins with nothing read. *)
LEMMA BeginBootstrapStep ==
    ASSUME ProjectionInv, BeginBootstrap
    PROVE  ProjectionInv'
<1>1. boot \in BootRecords /\ boot.count \in Nat /\ boot.phase = "none" /\ boot.buffer = {}
  BY DEF ProjectionInv, ProjectionTypeOK, BufferIsOfABootstrap, BootRecords, BeginBootstrap
<1>2. boot' = [phase |-> "reading", cursor |-> 0, page |-> {}, tenant |-> NoTenant,
               buffer |-> {}, count |-> boot.count + 1]
  BY DEF BeginBootstrap, NoBoot
<1>3. BootFrame
  BY <1>1, <1>2 DEF BootFrame, BeginBootstrap, BootRecords
<1>4. \A k \in Memberships : ~(k <= 0)
  BY MembershipIds
<1> QED
  BY <1>2, <1>3, <1>4, OnlyTheBootstrap

(* A page is read: the active Memberships up to the new cursor are all in what was read. *)
LEMMA ReadPageStep ==
    ASSUME ProjectionInv, ReadPage
    PROVE  ProjectionInv'
<1> DEFINE page == PageAfter(boot.cursor)
           seen == {MembershipEvent(m, mem[m]) : m \in page}
<1>0. /\ ProjectionTypeOK /\ LogIsHistory /\ CopiesAreCommitted
      /\ boot \in BootRecords /\ boot.count \in Nat /\ boot.phase = "reading" /\ boot.count # 0
      /\ boot.cursor \in Nat /\ \A k \in Memberships : mem[k] \in RowRecords
      /\ tenant \in TenantRecords
  BY DEF ProjectionInv, ProjectionTypeOK, BufferIsOfABootstrap, BootRecords, ReadPage
<1>1. /\ page \subseteq ActiveAfter(boot.cursor)
      /\ \A m \in page, k \in ActiveAfter(boot.cursor) : k <= m => k \in page
      /\ page = ActiveAfter(boot.cursor) \/ Cardinality(page) = PageSize
  BY <1>0, PageIs
<1>2. page \subseteq Memberships /\ \A k \in page : mem[k].status = "active"
  BY <1>1 DEF ActiveAfter
<1>3. \A k \in page : Current(k) \in log /\ Current(k) \in seen
  BY <1>0, <1>2, RowFields DEF LogIsHistory, Current
<1>4. seen \subseteq log /\ seen \subseteq MembershipEvents
  <2>1. ASSUME NEW e \in seen PROVE e \in log /\ e \in MembershipEvents
    <3>1. PICK k \in page : e = Current(k)
      BY <2>1 DEF Current
    <3>2. e.id = k /\ k # 0
      BY <1>2, <3>1, EventFields, MembershipIds DEF Current
    <3> QED
      BY <1>0, <1>3, <3>1, <3>2, EventKinds DEF ProjectionTypeOK
  <2> QED
    BY <2>1
<1> DEFINE last == CHOOSE m \in page : \A k \in page : k <= m
<1>5. page # {} => last \in page /\ \A k \in page : k <= last
  <2>1. page # {} => \E m \in page : \A k \in page : k <= m
    BY <1>2, FirstAndLast
  <2> QED
    BY ONLY <2>1, Zenon
<1>6. boot' = [boot EXCEPT
                 !.page = @ \cup seen,
                 !.tenant = IF page = {} THEN @ ELSE tenant,
                 !.cursor = IF page = {} THEN @ ELSE last,
                 !.phase = IF Cardinality(page) = PageSize THEN "reading" ELSE "read"]
  BY DEF ReadPage
<1> HIDE DEF last, seen, page
<1>7. /\ boot'.page = boot.page \cup seen
      /\ boot'.tenant = IF page = {} THEN boot.tenant ELSE tenant
      /\ boot'.cursor = IF page = {} THEN boot.cursor ELSE last
      /\ boot'.phase = IF Cardinality(page) = PageSize THEN "reading" ELSE "read"
      /\ boot'.buffer = boot.buffer /\ boot'.count = boot.count
      /\ boot' \in BootRecords
  <2>1. page # {} => last \in Nat
    BY <1>2, <1>5, MembershipIds
  <2> QED
    BY <1>0, <1>4, <1>6, <2>1 DEF BootRecords
<1>8. BootFrame
  BY <1>0, <1>7 DEF BootFrame, ReadPage
<1>9. boot'.page \subseteq log
  BY <1>0, <1>4, <1>7 DEF CopiesAreCommitted
<1>10. boot'.tenant = NoTenant \/ TenantEvent(boot'.tenant) \in log
  BY <1>0, <1>7 DEF CopiesAreCommitted, LogIsHistory, CurrentTenant
<1>11. CurrentTenant \in inbox => boot'.tenant \in {NoTenant, tenant}
  BY <1>0, <1>7 DEF ProjectionInv, TenantHandledShows
<1>12. ASSUME NEW k \in Memberships, Current(k) \in inbox, mem[k].status = "active",
              boot'.phase = "read" \/ k <= boot'.cursor
       PROVE  Current(k) \in boot'.page
  <2>1. CASE k <= boot.cursor
    <3>1. Current(k) \in boot.page
      BY <1>0, <1>12, <2>1 DEF ProjectionInv, HandledShows
    <3> QED
      BY <1>7, <3>1
  <2>2. CASE ~(k <= boot.cursor)
    <3>1. k \in ActiveAfter(boot.cursor)
      BY <1>0, <1>12, <2>2, MembershipIds DEF ActiveAfter
    <3>2. k \in page
      <4>1. CASE boot'.phase = "read"
        BY <1>1, <1>7, <3>1, <4>1
      <4>2. CASE k <= boot'.cursor
        <5>1. page # {} /\ k <= last
          BY <1>7, <2>2, <4>2
        <5> QED
          BY <1>1, <1>5, <3>1, <5>1
      <4> QED
        BY <1>12, <4>1, <4>2
    <3> QED
      BY <1>3, <1>7, <3>2
  <2> QED
    BY <2>1, <2>2
<1> QED
  BY <1>8, <1>9, <1>10, <1>11, <1>12, OnlyTheBootstrap

(* The model is replaced by what was read and what was buffered. *)
LEMMA ReplaceModelStep ==
    ASSUME ProjectionInv, ReplaceModel
    PROVE  ProjectionInv'
<1> DEFINE es == boot.page \cup boot.buffer
           mine(k) == {e \in es : e.id = k}
           base == IF boot.tenant = NoTenant THEN ctenant ELSE boot.tenant
<1>0. /\ ProjectionTypeOK /\ LogIsHistory /\ CopiesAreCommitted
      /\ boot \in BootRecords /\ boot.phase = "read" /\ boot.count # 0 /\ boot.count \in Nat
      /\ \A k \in Memberships : mem[k] \in RowRecords /\ mem[k].version \in Nat
      /\ tenant \in TenantRecords /\ ctenant \in TenantRecords
      /\ UNCHANGED <<ledgerVars, owed, dead, closed, sweep, repairs>>
      /\ inbox' = inbox \cup boot.buffer /\ receipts' = receipts \cup boot.buffer
      /\ boot' = NoBoot(boot.count)
  BY RowFields DEF ProjectionInv, ProjectionTypeOK, BufferIsOfABootstrap, BootRecords, ReplaceModel
<1>1. /\ LogIsHistory' /\ UNCHANGED <<tenant, mem, log>>
      /\ CurrentTenant' = CurrentTenant /\ \A k \in Memberships : Current(k)' = Current(k)
  BY <1>0, LedgerStays
<1>2. /\ boot' \in BootRecords /\ boot'.phase = "none" /\ boot'.count = boot.count
      /\ boot'.buffer = {} /\ boot'.page = {} /\ boot'.tenant = NoTenant
  BY <1>0 DEF NoBoot, BootRecords
<1>3. /\ rows' = [k \in Memberships |-> NewestRow(NoMembership, mine(k))]
      /\ ctenant' = NewestTenant(base, mine(0))
  BY DEF ReplaceModel, ApplyAll
<1>4. /\ es \subseteq log
      /\ \A k \in Memberships : mine(k) \in SUBSET MembershipEvents /\ mine(k) \in SUBSET log
      /\ mine(0) \in SUBSET TenantEvents /\ mine(0) \in SUBSET log
  <2>1. es \subseteq log /\ es \subseteq MembershipEvents \cup TenantEvents
    BY <1>0 DEF CopiesAreCommitted, ProjectionTypeOK
  <2> QED
    BY <2>1, EventKinds, MembershipIds
<1>5. base \in TenantRecords /\ TenantEvent(base) \in log
  <2>1. boot.tenant \in TenantRecords \cup {NoTenant}
    BY <1>0 DEF BootRecords
  <2> QED
    BY <1>0, <2>1 DEF CopiesAreCommitted
<1>6. \A k : mine(k) = {e \in es : e.id = k}
  OBVIOUS
<1> HIDE DEF es, mine, base
<1>7. ASSUME NEW k \in Memberships
      PROVE  /\ rows'[k] \in RowRecords
             /\ rows'[k] = NoMembership \/ MembershipEvent(k, rows'[k]) \in log
             /\ Current(k) \in es => rows'[k] = mem[k]
  <2>1. rows'[k] = NewestRow(NoMembership, mine(k))
    BY <1>3
  <2>2. /\ \/ rows'[k] = NoMembership
           \/ \E e \in mine(k) : rows'[k] = RowOf(e) /\ e.version > NoMembership.version
        /\ \A e \in mine(k) :
              (\A f \in mine(k) : f.version <= e.version) /\ e.version > NoMembership.version
                 => \E g \in mine(k) : rows'[k] = RowOf(g) /\ g.version = e.version
    BY <1>4, <2>1, NewestRowIs, RowFields
  <2>3. ASSUME NEW e \in mine(k)
        PROVE  /\ RowOf(e) \in RowRecords /\ MembershipEvent(k, RowOf(e)) \in log
               /\ e.version <= mem[k].version /\ (e.version = mem[k].version => RowOf(e) = mem[k])
    <3>1. e \in MembershipEvents /\ e \in log /\ e.id = k
      BY <1>4, <1>6
    <3>2. RowOf(e) \in RowRecords /\ MembershipEvent(k, RowOf(e)) = e /\ RowOf(e).version = e.version
      BY <3>1, EventKinds
    <3> QED
      BY <1>0, <3>1, <3>2, CommittedIsBehind
  <2>4. ASSUME Current(k) \in es
        PROVE  rows'[k] = mem[k]
    <3>1. Current(k) \in mine(k) /\ Current(k).version = mem[k].version
      BY <1>6, <2>4, EventFields DEF Current
    <3>2. Current(k).version > NoMembership.version
      BY <1>4, <3>1, EventKinds, RowFields
    <3>3. \E g \in mine(k) : rows'[k] = RowOf(g) /\ g.version = mem[k].version
      BY <2>2, <2>3, <3>1, <3>2
    <3> QED
      BY <2>3, <3>3
  <2> QED
    BY <2>2, <2>3, <2>4, RowFields
<1>8. /\ ctenant' \in TenantRecords /\ TenantEvent(ctenant') \in log
      /\ CurrentTenant \in inbox' => ctenant' = tenant
  <2>1. /\ \/ ctenant' = base
           \/ \E e \in mine(0) : ctenant' = TenantOf(e) /\ TenantNewer(base, e)
        /\ /\ TenantEvent(tenant) \in mine(0) \/ base = tenant
           /\ \A e \in mine(0) : e = TenantEvent(tenant) \/ e.sec < tenant.sec
           /\ base = tenant \/ base.sec < tenant.sec
           => ctenant' = tenant
    BY <1>0, <1>3, <1>4, <1>5, NewestTenantIs
  <2>2. base = tenant \/ base.sec < tenant.sec
    BY <1>0, <1>5, TenantIsBehind
  <2>3. \A e \in mine(0) : e = TenantEvent(tenant) \/ e.sec < tenant.sec
    BY <1>0, <1>4, <1>6 DEF LogIsHistory, CurrentTenant
  <2>4. CurrentTenant \in boot.buffer => TenantEvent(tenant) \in mine(0)
    BY <1>6, EventFields DEF CurrentTenant, es
  <2>5. CurrentTenant \in inbox => base = tenant
    BY <1>0 DEF ProjectionInv, TenantHandledShows, base
  <2>6. ctenant' \in TenantRecords /\ TenantEvent(ctenant') \in log
    BY <1>4, <1>5, <2>1, EventKinds
  <2> QED
    BY <1>0, <2>1, <2>2, <2>3, <2>4, <2>5, <2>6
<1>9. ProjectionTypeOK'
  BY <1>0, <1>1, <1>2, <1>3, <1>7, <1>8 DEF ProjectionTypeOK
<1>10. CopiesAreCommitted'
  BY <1>0, <1>1, <1>2, <1>7, <1>8 DEF CopiesAreCommitted
<1>11. FindingsAreCommitted' /\ BufferIsOfABootstrap'
  BY <1>0, <1>1, <1>2 DEF ProjectionInv, FindingsAreCommitted, BufferIsOfABootstrap
<1>12. CurrentIsTraced'
  BY <1>0, <1>1 DEF ProjectionInv, CurrentIsTraced, Traced
<1>13. ASSUME NEW k \in Memberships
       PROVE  HandledShows(k)'
  <2> SUFFICES ASSUME Current(k) \in inbox'
               PROVE  rows'[k] = mem[k] \/ (boot.count > 0 /\ mem[k].status # "active")
    BY <1>1, <1>2 DEF HandledShows
  <2>1. CASE Current(k) \in boot.buffer
    BY <1>7, <2>1 DEF es
  <2>2. CASE Current(k) \in inbox /\ mem[k].status = "active"
    <3>1. Current(k) \in boot.page
      BY <1>0, <2>2 DEF ProjectionInv, HandledShows
    <3> QED
      BY <1>7, <3>1 DEF es
  <2>3. CASE mem[k].status # "active"
    BY <1>0, <2>3
  <2> QED
    BY <1>0, <2>1, <2>2, <2>3
<1>14. TenantHandledShows'
  BY <1>1, <1>2, <1>8 DEF TenantHandledShows
<1> QED
  BY <1>1, <1>9, <1>10, <1>11, <1>12, <1>13, <1>14 DEF ProjectionInv

-----------------------------------------------------------------------------

(* Every step keeps the invariant. *)
LEMMA ProjectionInvStep ==
    ProjectionInv /\ [ProjectionNext]_projectionVars => ProjectionInv'
<1> SUFFICES ASSUME ProjectionInv, [ProjectionNext]_projectionVars PROVE ProjectionInv'
  OBVIOUS
<1>1. CASE AuthorityStep
  BY <1>1, AuthoritySteps
<1>2. ASSUME NEW e \in log, Deliver(e) \/ DeliverUnacknowledged(e)
      PROVE  ProjectionInv'
  BY <1>2, DeliverySteps
<1>3. ASSUME NEW e \in log, Abandon(e) \/ Replay(e) \/ Resolve(e) \/ Supersede(e)
      PROVE  ProjectionInv'
  BY <1>3, DeadLetterSteps
<1>4. CASE Report \/ Compare \/ PublishReconciled \/ LoseSweep
  BY <1>4, ReportStep, CompareStep, SweepEnds
<1>5. ASSUME NEW r \in repairs, DeliverRepair(r)
      PROVE  ProjectionInv'
  BY <1>5, DeliverRepairStep
<1>6. CASE BeginBootstrap \/ ReadPage \/ ReplaceModel
  BY <1>6, BeginBootstrapStep, ReadPageStep, ReplaceModelStep
<1>7. CASE UNCHANGED projectionVars
  <2>1. UNCHANGED <<ledgerVars, deliveryVars, consumerVars, boot>> /\ UNCHANGED <<sweep, repairs, mem, log>>
    BY <1>7 DEF projectionVars, ledgerVars
  <2>2. FindingsAreCommitted' /\ sweep' \in SweepRecords /\ repairs' \in SUBSET RepairRecords
    BY <2>1 DEF ProjectionInv, FindingsAreCommitted, ProjectionTypeOK
  <2> QED
    BY <2>1, <2>2, OnlyTheSweep
<1> QED
  BY <1>1, <1>2, <1>3, <1>4, <1>5, <1>6, <1>7 DEF ProjectionNext, ConsumerNext

(* The inductive invariant: the copy and everything on its way to it is committed, and  *)
(* nothing current is without a trace.                                                  *)
THEOREM ProjectionInvariant == ProjectionSpec => []ProjectionInv
  BY ProjectionInvInit, ProjectionInvStep, PTL DEF ProjectionSpec

-----------------------------------------------------------------------------
(* What was handled stays reflected. *)

LEMMA ReflectionInit == ProjectionInit => ReflectionInv
<1> SUFFICES ASSUME ProjectionInit PROVE ReflectionInv
  OBVIOUS
<1>1. /\ inbox = {TenantEvent(InitialTenant)} /\ log = inbox /\ ctenant = InitialTenant
      /\ closed = {} /\ repairs = {}
      /\ sweep.mark = 0 /\ sweep.findings = {} /\ boot.phase = "none" /\ boot.count = 0
  BY DEF ProjectionInit, LedgerInit, NoSweep, NoBoot
<1>2. HandledIsReflected
  BY <1>1 DEF HandledIsReflected, Reflected, AtOrPast, TenantNewer, InitialTenant, TenantEvent
<1> QED
  BY <1>1, <1>2 DEF ReflectionInv, ClosedIsHandled, PageIsAhead, RepairsAreCurrent, NotAheadOfModel,
     TenantEventsDiffer

(* Where the copy and the inbox stay as they were, and what was read of a bootstrap,     *)
(* so does what they reflect.                                                           *)
LEMMA ReflectionStays ==
    ASSUME ReflectionInv, UNCHANGED <<rows, ctenant, inbox>>,
           boot'.phase = boot.phase, boot'.count = boot.count,
           boot'.page = boot.page, boot'.tenant = boot.tenant
    PROVE  /\ HandledIsReflected' /\ PageIsAhead'
           /\ UNCHANGED closed => ClosedIsHandled'
           /\ UNCHANGED <<sweep, repairs>> => RepairsAreCurrent'
           /\ UNCHANGED log => TenantEventsDiffer'
<1>1. HandledIsReflected' /\ PageIsAhead' /\ (UNCHANGED closed => ClosedIsHandled')
  BY DEF ReflectionInv, HandledIsReflected, Reflected, AtOrPast, Forgotten, PageIsAhead, ClosedIsHandled
<1>2. UNCHANGED <<sweep, repairs>> => RepairsAreCurrent'
  BY DEF ReflectionInv, RepairsAreCurrent, NotAheadOfModel, OfThisModel, CurrentFor
<1>3. UNCHANGED log => TenantEventsDiffer'
  BY DEF ReflectionInv, TenantEventsDiffer
<1> QED
  BY <1>1, <1>2, <1>3

(* Authority's new event is of a higher security version than any the Tenant had. *)
LEMMA AuthorityReflects ==
    ASSUME ProjectionInv, ReflectionInv, AuthorityStep
    PROVE  ReflectionInv'
<1>1. /\ UNCHANGED <<rows, ctenant, inbox, boot, closed, sweep, repairs>>
  BY DEF AuthorityStep, consumerVars
<1>2. ASSUME NEW m \in Memberships, NEW a \in MembershipActions \cup {"grant"},
             MembershipChange(m, a)
      PROVE  TenantEventsDiffer'
  <2>1. log' = log \cup {MembershipEvent(m, mem'[m])} /\ MembershipEvent(m, mem'[m]).id # 0
    BY <1>2, EventFields, MembershipIds DEF MembershipChange
  <2> QED
    BY <2>1 DEF ReflectionInv, TenantEventsDiffer
<1>3. ASSUME NEW a \in TenantActions \ ProvisioningActions, TenantChange(a)
      PROVE  TenantEventsDiffer'
  <2>1. tenant \in TenantRecords /\ tenant.sec \in Nat
    BY EventKinds DEF ProjectionInv, ProjectionTypeOK
  <2>2. /\ log' = log \cup {TenantEvent(tenant')} /\ TenantEvent(tenant').sec = tenant.sec + 1
    BY <1>3, EventFields DEF TenantChange, AfterTenant, IncrementsSecurity
  <2>3. ASSUME NEW e \in log, e.id = 0
        PROVE  e.sec # tenant.sec + 1
    <3>1. e \in TenantEvents /\ e.sec \in Nat
      BY <2>3, EventKinds DEF ProjectionInv, ProjectionTypeOK
    <3>2. e = CurrentTenant \/ e.sec < tenant.sec
      BY <2>3 DEF ProjectionInv, LogIsHistory
    <3>3. CurrentTenant.sec = tenant.sec
      BY EventFields DEF CurrentTenant
    <3> QED
      BY <2>1, <3>1, <3>2, <3>3
  <2> QED
    BY <2>2, <2>3 DEF ReflectionInv, TenantEventsDiffer
<1>4. TenantEventsDiffer'
  BY <1>2, <1>3 DEF AuthorityStep, LedgerNext
<1> QED
  BY <1>1, <1>4, ReflectionStays DEF ReflectionInv

(* A delivery: what was reflected stays so, and an applied event is reflected. *)
LEMMA DeliveryReflects ==
    ASSUME ProjectionInv, ReflectionInv, NEW e \in log, Deliver(e) \/ DeliverUnacknowledged(e)
    PROVE  ReflectionInv'
<1>1. /\ e \in owed /\ Accept(e) /\ DeliveryFrame(e)
      /\ UNCHANGED <<log, closed, sweep, repairs>> /\ boot \in BootRecords
  BY DEF Deliver, DeliverUnacknowledged, DeliveryFrame, deliveryVars, ledgerVars, ProjectionInv,
         ProjectionTypeOK
<1>2. CASE e \in inbox \/ boot.phase # "none"
  <2>1. UNCHANGED <<rows, ctenant, inbox>>
    BY <1>1, <1>2 DEF Accept, consumerVars
  <2>2. boot' = boot \/ boot' = [boot EXCEPT !.buffer = @ \cup {e}]
    BY <1>1, <1>2 DEF Accept
  <2>3. /\ boot'.phase = boot.phase /\ boot'.count = boot.count
        /\ boot'.page = boot.page /\ boot'.tenant = boot.tenant
    BY <1>1, <2>2 DEF BootRecords
  <2> QED
    BY <1>1, <2>1, <2>3, ReflectionStays DEF ReflectionInv
<1>3. CASE e \notin inbox /\ boot.phase = "none"
  <2>1. ApplyAll(rows, ctenant, {e}) /\ inbox' = inbox \cup {e} /\ boot' = boot
    BY <1>1, <1>3 DEF Accept
  <2>2. /\ \A k \in Memberships :
              rows'[k] = rows[k] \/ (k = e.id /\ rows'[k] = RowOf(e) /\ e.version > rows[k].version)
        /\ \A k \in Memberships : /\ rows'[k].version >= rows[k].version
                                  /\ rows'[k].version \in Nat /\ rows[k].version \in Nat
        /\ \A f \in log : f.id # 0 => f.id \in Memberships /\ f.version \in Nat
        /\ \A f \in log : AtOrPast(f) => AtOrPast(f)'
        /\ AtOrPast(e)'
    BY <1>1, <1>3, <2>1, AppliedIs
  <2>3. inbox \subseteq log /\ e \in MembershipEvents \cup TenantEvents
    BY DEF ProjectionInv, CopiesAreCommitted, ProjectionTypeOK
  <2>4. ASSUME NEW k \in Memberships, Forgotten(k)
        PROVE  Forgotten(k)'
    <3>1. k = e.id /\ rows'[k] = RowOf(e) => MembershipEvent(k, rows'[k]) = e
      BY <2>3, EventKinds, MembershipIds
    <3> QED
      BY <2>1, <2>2, <2>4, <3>1 DEF Forgotten
  <2>5. HandledIsReflected'
    <3>1. ASSUME NEW f \in inbox PROVE Reflected(f)'
      BY <2>2, <2>3, <2>4 DEF ReflectionInv, HandledIsReflected, Reflected
    <3> QED
      BY <2>1, <2>2, <3>1 DEF HandledIsReflected, Reflected
  <2>6. ASSUME NEW f, CurrentFor(f), f.id \in Memberships
        PROVE  CurrentFor(f)'
    <3> SUFFICES ASSUME NEW g \in inbox', g.id = f.id
                 PROVE  f.state.version >= g.version \/ rows'[f.id].version >= g.version
      BY DEF CurrentFor
    <3>1. g \in log /\ g.version \in Nat /\ g.id # 0
      BY <2>1, <2>2, <2>3, <2>6, MembershipIds
    <3>2. CASE g = e
      BY <2>2, <3>1, <3>2 DEF AtOrPast
    <3>3. CASE g \in inbox
      <4>1. f.state.version >= g.version \/ rows[f.id].version >= g.version
        BY <2>6, <3>3 DEF CurrentFor
      <4> QED
        BY <2>2, <2>6, <3>1, <4>1
    <3> QED
      BY <2>1, <3>2, <3>3
  <2>7. RepairsAreCurrent'
    <3>1. /\ \A f \in sweep.findings : f.id \in Memberships
          /\ \A p \in repairs : \A f \in p.findings : f.id \in Memberships
      BY DEF ProjectionInv, ProjectionTypeOK, SweepRecords, RepairRecords, FindingRecords
    <3> QED
      BY <1>1, <2>1, <2>6, <3>1 DEF ReflectionInv, RepairsAreCurrent, OfThisModel, NotAheadOfModel
  <2>8. ClosedIsHandled' /\ PageIsAhead' /\ TenantEventsDiffer'
    BY <1>1, <1>3, <2>1 DEF ReflectionInv, ClosedIsHandled, PageIsAhead, TenantEventsDiffer
  <2> QED
    BY <2>5, <2>7, <2>8 DEF ReflectionInv
<1> QED
  BY <1>2, <1>3

(* An incident is closed on evidence that the consumer handled the event or a later one. *)
LEMMA DeadLetterReflects ==
    ASSUME ProjectionInv, ReflectionInv, NEW e \in log,
           Abandon(e) \/ Replay(e) \/ Resolve(e) \/ Supersede(e)
    PROVE  ReflectionInv'
<1>1. UNCHANGED <<log, rows, ctenant, inbox, boot, sweep, repairs>> /\ receipts \subseteq inbox
  BY DEF ProjectionInv, CopiesAreCommitted, Abandon, Replay, Resolve, Supersede, Close, consumerVars,
         ledgerVars
<1>2. closed' = closed \/ (closed' = closed \cup {e} /\ (e \in receipts \/ SupersededEvidence(e)))
  BY DEF Abandon, Replay, Resolve, Supersede, Close, ReplayedEvidence
<1>3. ClosedIsHandled'
  BY <1>1, <1>2 DEF ReflectionInv, ClosedIsHandled, SupersededEvidence
<1> QED
  BY <1>1, <1>3, ReflectionStays DEF ReflectionInv

(* A sweep: what it finds is authority's state, so it is at or past all that was handled. *)
LEMMA SweepReflects ==
    ASSUME ProjectionInv, ReflectionInv, Report \/ Compare \/ PublishReconciled \/ LoseSweep
    PROVE  ReflectionInv'
<1>1. /\ UNCHANGED <<log, mem, rows, ctenant, inbox, boot, closed>>
      /\ boot \in BootRecords /\ boot.count \in Nat /\ sweep \in SweepRecords
      /\ \A p \in repairs : NotAheadOfModel(p.mark) /\ NotAheadOfModel(p.mark)'
      /\ NotAheadOfModel(sweep.mark)
      /\ \A f : CurrentFor(f) => CurrentFor(f)'
  BY DEF Report, Compare, PublishReconciled, LoseSweep, consumerVars, ledgerVars, deliveryVars,
         ProjectionInv, ProjectionTypeOK, BootRecords, ReflectionInv, RepairsAreCurrent,
         NotAheadOfModel, CurrentFor
<1>2. CASE Report
  <2>1. sweep'.mark = boot.count /\ sweep'.findings = {} /\ repairs' = repairs /\ boot.phase = "none"
    BY <1>2 DEF Report
  <2>2. RepairsAreCurrent'
    BY <1>1, <2>1 DEF ReflectionInv, RepairsAreCurrent, NotAheadOfModel, OfThisModel
  <2> QED
    BY <1>1, <2>2, ReflectionStays DEF ReflectionInv
<1>3. CASE Compare
  <2>1. /\ sweep'.mark = sweep.mark /\ sweep'.findings = Findings(mem, sweep.report)
        /\ repairs' = repairs
    BY <1>1, <1>3 DEF Compare, SweepRecords
  <2>2. ASSUME NEW f \in Findings(mem, sweep.report)
        PROVE  CurrentFor(f)
    <3>1. f.id \in DOMAIN mem /\ f.state = mem[f.id]
      BY <2>2 DEF Findings, Divergent
    <3>2. f.id # 0 /\ inbox \subseteq log
      BY <3>1, MembershipIds DEF ProjectionInv, ProjectionTypeOK, CopiesAreCommitted
    <3>3. \A e \in inbox : e.id = f.id => e.version <= mem[f.id].version /\ e.version \in Nat
      BY <3>2, EventIsBehind, EventKinds DEF ProjectionInv
    <3>4. mem[f.id].version \in Nat
      BY <3>1, RowFields DEF ProjectionInv, ProjectionTypeOK
    <3> QED
      BY <3>1, <3>3, <3>4 DEF CurrentFor
  <2>3. RepairsAreCurrent'
    BY <1>1, <2>1, <2>2 DEF ReflectionInv, RepairsAreCurrent, NotAheadOfModel, OfThisModel
  <2> QED
    BY <1>1, <2>3, ReflectionStays DEF ReflectionInv
<1>4. CASE PublishReconciled \/ LoseSweep
  <2>1. /\ repairs' \subseteq repairs \cup {[mark |-> sweep.mark, findings |-> sweep.findings]}
        /\ sweep'.mark = 0 /\ sweep'.findings = {}
    BY <1>4 DEF PublishReconciled, LoseSweep, NoSweep
  <2>2. boot.phase # "none" => 0 < boot.count
    BY <1>1 DEF ProjectionInv, BufferIsOfABootstrap
  <2>3. RepairsAreCurrent'
    BY <1>1, <2>1, <2>2 DEF ReflectionInv, RepairsAreCurrent, NotAheadOfModel, OfThisModel
  <2> QED
    BY <1>1, <2>3, ReflectionStays DEF ReflectionInv
<1> QED
  BY <1>2, <1>3, <1>4

(* A repair: of the model the consumer holds, it carries the state a handled event is    *)
(* reflected by; of an older one, it is discarded.                                      *)
LEMMA RepairReflects ==
    ASSUME ProjectionInv, ReflectionInv, NEW p \in repairs, DeliverRepair(p)
    PROVE  ReflectionInv'
<1>1. /\ UNCHANGED <<log, mem, ctenant, inbox, boot, closed, sweep>>
      /\ repairs' \subseteq repairs /\ boot.phase = "none" /\ boot.count \in Nat /\ p.mark \in Nat
      /\ NotAheadOfModel(p.mark)
      /\ rows' = IF p.mark < boot.count THEN rows
                 ELSE [m \in Memberships |-> Repaired(rows[m], p.findings, m)]
  BY DEF DeliverRepair, ledgerVars, deliveryVars, ProjectionInv, ProjectionTypeOK, BootRecords,
         RepairRecords, ReflectionInv, RepairsAreCurrent
<1>2. CASE p.mark < boot.count
  <2>1. rows' = rows
    BY <1>1, <1>2
  <2>2. RepairsAreCurrent'
    BY <1>1, <2>1 DEF ReflectionInv, RepairsAreCurrent, NotAheadOfModel, OfThisModel, CurrentFor
  <2> QED
    BY <1>1, <2>1, <2>2, ReflectionStays DEF ReflectionInv
<1>3. CASE ~(p.mark < boot.count)
  <2>1. /\ OfThisModel(p.mark) /\ \A f \in p.findings : CurrentFor(f)
        /\ rows' = [m \in Memberships |-> Repaired(rows[m], p.findings, m)]
    BY <1>1, <1>3 DEF NotAheadOfModel, OfThisModel, ReflectionInv, RepairsAreCurrent
  <2>2. \A k \in Memberships :
           /\ rows[k].version \in Nat /\ rows'[k].version \in Nat
           /\ \/ rows'[k] = rows[k]
              \/ /\ rows'[k].version > rows[k].version
                 /\ \E f \in p.findings : f.id = k /\ rows'[k] = f.state
    <3>1. \A k \in Memberships : rows[k] \in RowRecords
      BY DEF ProjectionInv, ProjectionTypeOK
    <3> QED
      BY <2>1, <3>1, RepairedIs, RowFields
  <2>3. \A e \in inbox : e.id # 0 => e.id \in Memberships /\ e.version \in Nat
    BY EventKinds DEF ProjectionInv, ProjectionTypeOK, CopiesAreCommitted
  <2>4. ASSUME NEW e \in inbox
        PROVE  Reflected(e)'
    <3>1. CASE e.id = 0
      BY <1>1, <3>1 DEF ReflectionInv, HandledIsReflected, Reflected, AtOrPast
    <3>2. CASE e.id # 0 /\ rows'[e.id] = rows[e.id]
      BY <1>1, <3>2 DEF ReflectionInv, HandledIsReflected, Reflected, AtOrPast, Forgotten
    <3>3. CASE e.id # 0 /\ rows'[e.id] # rows[e.id]
      <4>1. e.id \in Memberships /\ e.version \in Nat
        BY <2>3, <3>3
      <4>2. PICK f \in p.findings : f.id = e.id /\ rows'[e.id] = f.state
        BY <2>2, <3>3, <4>1
      <4>3. f.state.version >= e.version \/ rows[e.id].version >= e.version
        BY <2>1, <4>2 DEF CurrentFor
      <4>4. rows'[e.id].version >= e.version
        BY <2>2, <3>3, <4>1, <4>2, <4>3
      <4> QED
        BY <3>3, <4>4 DEF Reflected, AtOrPast
    <3> QED
      BY <3>1, <3>2, <3>3
  <2>5. ASSUME NEW f, CurrentFor(f), f.id \in Memberships
        PROVE  CurrentFor(f)'
    <3> SUFFICES ASSUME NEW g \in inbox, g.id = f.id
                 PROVE  f.state.version >= g.version \/ rows'[f.id].version >= g.version
      BY <1>1 DEF CurrentFor
    <3>1. g.version \in Nat /\ (f.state.version >= g.version \/ rows[f.id].version >= g.version)
      BY <2>3, <2>5, MembershipIds DEF CurrentFor
    <3>2. rows'[f.id].version >= rows[f.id].version
      BY <2>2, <2>5
    <3> QED
      BY <2>2, <2>5, <3>1, <3>2
  <2>6. RepairsAreCurrent'
    <3>1. /\ \A f \in sweep.findings : f.id \in Memberships
          /\ \A r \in repairs : \A f \in r.findings : f.id \in Memberships
      BY DEF ProjectionInv, ProjectionTypeOK, SweepRecords, RepairRecords, FindingRecords
    <3> QED
      BY <1>1, <2>5, <3>1 DEF ReflectionInv, RepairsAreCurrent, OfThisModel, NotAheadOfModel
  <2>7. HandledIsReflected'
    BY <1>1, <2>4 DEF HandledIsReflected
  <2>8. ClosedIsHandled' /\ PageIsAhead' /\ TenantEventsDiffer'
    BY <1>1 DEF ReflectionInv, ClosedIsHandled, PageIsAhead, TenantEventsDiffer
  <2> QED
    BY <2>6, <2>7, <2>8 DEF ReflectionInv
<1> QED
  BY <1>2, <1>3

(* A bootstrap reads authority as it is, which is at or past all that was handled. *)
LEMMA ReadingReflects ==
    ASSUME ProjectionInv, ReflectionInv, BeginBootstrap \/ ReadPage
    PROVE  ReflectionInv'
<1>1. /\ UNCHANGED <<log, mem, tenant, rows, ctenant, inbox, closed, sweep, repairs>>
      /\ boot \in BootRecords /\ boot.count \in Nat /\ sweep.mark \in Nat
      /\ \A p \in repairs : p.mark \in Nat
      /\ inbox \subseteq log
  BY DEF BeginBootstrap, ReadPage, consumerVars, ledgerVars, deliveryVars, ProjectionInv,
         ProjectionTypeOK, BootRecords, SweepRecords, RepairRecords, CopiesAreCommitted
<1>2. ClosedIsHandled' /\ TenantEventsDiffer'
  BY <1>1 DEF ReflectionInv, ClosedIsHandled, TenantEventsDiffer
<1>3. CASE BeginBootstrap
  <2>1. /\ boot'.count = boot.count + 1 /\ boot'.page = {} /\ boot'.tenant = NoTenant
    BY <1>3 DEF BeginBootstrap, NoBoot
  <2>2. HandledIsReflected'
    BY <1>1, <2>1 DEF ReflectionInv, HandledIsReflected, Reflected, AtOrPast, Forgotten
  <2>3. RepairsAreCurrent'
    BY <1>1, <2>1 DEF ReflectionInv, RepairsAreCurrent, NotAheadOfModel, OfThisModel
  <2> QED
    BY <1>2, <2>1, <2>2, <2>3 DEF ReflectionInv, PageIsAhead
<1>4. CASE ReadPage
  <2>1. /\ boot'.count = boot.count /\ boot.phase = "reading"
        /\ boot'.page = boot.page \cup {MembershipEvent(m, mem[m]) : m \in PageAfter(boot.cursor)}
        /\ boot'.tenant \in {boot.tenant, tenant} /\ boot'.phase # "none"
    BY <1>1, <1>4 DEF ReadPage, BootRecords
  <2>2. HandledIsReflected'
    BY <1>1, <2>1 DEF ReflectionInv, HandledIsReflected, Reflected, AtOrPast, Forgotten
  <2>3. RepairsAreCurrent'
    BY <1>1, <2>1 DEF ReflectionInv, RepairsAreCurrent, NotAheadOfModel, OfThisModel, CurrentFor
  <2>4. ASSUME NEW g \in boot'.page, NEW e \in inbox, g.id = e.id
        PROVE  g.version >= e.version
    <3>1. CASE g \in boot.page
      BY <2>1, <2>4, <3>1 DEF ReflectionInv, PageIsAhead
    <3>2. CASE g \notin boot.page
      <4>1. PICK m \in PageAfter(boot.cursor) : g = MembershipEvent(m, mem[m])
        BY <2>1, <3>2
      <4>2. m \in Memberships /\ g.id = m /\ m # 0 /\ g.version = mem[m].version
        BY <4>1, EventFields, MembershipIds DEF PageAfter
      <4>3. e \in log /\ e.id # 0 /\ e.version <= mem[m].version
        BY <1>1, <2>4, <4>2, EventIsBehind DEF ProjectionInv
      <4>4. e.version \in Nat /\ mem[m].version \in Nat
        BY <4>2, <4>3, EventIsBehind, EventKinds, RowFields DEF ProjectionInv, ProjectionTypeOK
      <4> QED
        BY <4>2, <4>3, <4>4
    <3> QED
      BY <3>1, <3>2
  <2>5. ASSUME NEW e \in inbox, e.id = 0, boot'.tenant # NoTenant
        PROVE  ~TenantNewer(boot'.tenant, e)
    <3>1. CASE boot'.tenant = boot.tenant
      BY <2>1, <2>5, <3>1 DEF ReflectionInv, PageIsAhead
    <3>2. CASE boot'.tenant = tenant
      <4>1. /\ e \in TenantEvents /\ e.sec \in Nat /\ e.version \in Nat
            /\ tenant.sec \in Nat /\ tenant.version \in Nat
        BY <1>1, <2>5, EventKinds DEF ProjectionInv, ProjectionTypeOK
      <4>2. e = CurrentTenant \/ e.sec < tenant.sec
        BY <1>1, <2>5 DEF ProjectionInv, LogIsHistory
      <4>3. CurrentTenant.sec = tenant.sec /\ CurrentTenant.version = tenant.version
        BY EventFields DEF CurrentTenant
      <4> QED
        BY <3>2, <4>1, <4>2, <4>3 DEF TenantNewer
    <3> QED
      BY <2>1, <3>1, <3>2
  <2>6. PageIsAhead'
    BY <1>1, <2>4, <2>5 DEF PageIsAhead
  <2> QED
    BY <1>2, <2>2, <2>3, <2>6 DEF ReflectionInv
<1> QED
  BY <1>3, <1>4

(* Of events of one Tenant that are of different security versions, one is newest, and   *)
(* the copy made of them is at or past them all and what it was.                        *)
LEMMA NewestTenantPasses ==
    ASSUME NEW t \in TenantRecords, NEW es \in SUBSET TenantEvents, NEW N \in Nat,
           \A e \in es : e.sec <= N, \A e, f \in es : e.sec = f.sec => e = f
    PROVE  /\ NewestTenant(t, es) \in TenantRecords
           /\ \A e \in es : ~TenantNewer(NewestTenant(t, es), e)
           /\ \A e \in TenantEvents : ~TenantNewer(t, e) => ~TenantNewer(NewestTenant(t, es), e)
<1> DEFINE n == NewestTenant(t, es)
<1>1. /\ t.sec \in Nat /\ t.version \in Nat
      /\ \A e \in TenantEvents : /\ e.sec \in Nat /\ e.version \in Nat
                                 /\ TenantOf(e).sec = e.sec /\ TenantOf(e).version = e.version
                                 /\ TenantOf(e) \in TenantRecords
  BY EventKinds
<1>2. n = t \/ \E e \in es : n = TenantOf(e) /\ TenantNewer(t, e)
  BY NewestTenantIs
<1>3. n \in TenantRecords
  BY <1>1, <1>2
<1>4. ASSUME NEW e \in TenantEvents, ~TenantNewer(t, e)
      PROVE  ~TenantNewer(n, e)
  <2>1. CASE n = t
    BY <1>4, <2>1
  <2>2. CASE n # t
    <3>1. PICK c \in es : n = TenantOf(c) /\ TenantNewer(t, c)
      BY <1>2, <2>2
    <3>2. n.sec = c.sec /\ n.version = c.version
      BY <1>1, <3>1
    <3> QED
      BY <1>1, <1>4, <3>1, <3>2 DEF TenantNewer
  <2> QED
    BY <2>1, <2>2
<1>5. CASE \A e \in es : ~TenantNewer(t, e)
  BY <1>3, <1>4, <1>5
<1>6. CASE \E e \in es : TenantNewer(t, e)
  <2> DEFINE newer == {e \in es : TenantNewer(t, e)}
             secs == {e.sec : e \in newer}
  <2>1. secs \in SUBSET Nat /\ secs # {} /\ \A s \in secs : s <= N
    BY <1>1, <1>6
  <2>2. PICK s \in secs : \A u \in secs : u <= s
    BY <2>1, LeastAndGreatest
  <2>3. PICK b \in newer : s = b.sec
    BY <2>2
  <2>4. b \in es /\ TenantNewer(t, b) /\ \A f \in newer : f.sec <= b.sec
    BY <2>2, <2>3
  <2>5. ASSUME NEW f \in es
        PROVE  f = b \/ ~TenantNewer(TenantOf(b), f)
    <3>1. f \in newer => f.sec <= b.sec
      BY <2>4
    <3>2. TenantNewer(t, f) => f \in newer
      OBVIOUS
    <3> HIDE DEF newer, secs
    <3>3. f.sec = b.sec => f = b
      BY <2>4
    <3>4. f.sec > b.sec => TenantNewer(t, f)
      BY <1>1, <2>4 DEF TenantNewer
    <3> QED
      BY <1>1, <2>4, <3>1, <3>2, <3>3, <3>4 DEF TenantNewer
  <2> HIDE DEF newer, secs
  <2>6. PICK c \in es : n = TenantOf(c) /\ \A f \in es : f = c \/ ~TenantNewer(TenantOf(c), f)
    BY <2>4, <2>5, NewestTenantIs
  <2>7. \A f \in es : ~TenantNewer(n, f)
    BY <1>1, <2>6 DEF TenantNewer
  <2> QED
    BY <1>3, <1>4, <2>7
<1> QED
  BY <1>5, <1>6

(* The new model is made of what was read and buffered: a row of the buffer was handled, *)
(* and one of a page is at or past all that was.                                        *)
LEMMA ReplaceReflects ==
    ASSUME ProjectionInv, ReflectionInv, ReplaceModel
    PROVE  ReflectionInv'
<1> DEFINE es == boot.page \cup boot.buffer
           mine(k) == {e \in es : e.id = k}
           base == IF boot.tenant = NoTenant THEN ctenant ELSE boot.tenant
<1>1. /\ UNCHANGED <<log, closed, sweep, repairs>>
      /\ inbox' = inbox \cup boot.buffer
      /\ boot'.phase = "none" /\ boot'.count = boot.count
      /\ boot.phase = "read" /\ boot.count \in Nat /\ boot.count > 0
      /\ rows' = [k \in Memberships |-> NewestRow(NoMembership, mine(k))]
      /\ ctenant' = NewestTenant(base, mine(0))
      /\ sweep.mark \in Nat /\ \A p \in repairs : p.mark \in Nat
  BY DEF ReplaceModel, ApplyAll, ledgerVars, NoBoot, ProjectionInv, ProjectionTypeOK, BootRecords,
         BufferIsOfABootstrap, SweepRecords, RepairRecords
<1>2. /\ es \subseteq log /\ inbox \subseteq log /\ log \subseteq MembershipEvents \cup TenantEvents
      /\ \A k \in Memberships : mine(k) \in SUBSET MembershipEvents
      /\ mine(0) \in SUBSET TenantEvents
  <2>1. es \subseteq log /\ inbox \subseteq log /\ log \subseteq MembershipEvents \cup TenantEvents
    BY DEF ProjectionInv, ProjectionTypeOK, CopiesAreCommitted
  <2> QED
    BY <2>1, EventKinds, MembershipIds
<1>3. base \in TenantRecords
  BY DEF ProjectionInv, ProjectionTypeOK, BootRecords
<1>4. \A k : mine(k) = {e \in es : e.id = k}
  OBVIOUS
<1> HIDE DEF mine
<1>5. ASSUME NEW e \in inbox', e.id # 0
      PROVE  Reflected(e)'
  <2>1. e \in MembershipEvents /\ e.id \in Memberships /\ e.version \in Nat
    BY <1>1, <1>2, <1>5, EventKinds
  <2>2. PICK g : \/ rows'[e.id] = NoMembership
                 \/ /\ g \in mine(e.id) /\ rows'[e.id] = RowOf(g)
                    /\ \A f \in mine(e.id) : f.version <= g.version
    BY <1>1, <1>2, <2>1, NewestRowIs, RowFields
  <2>3. CASE rows'[e.id] = NoMembership
    BY <1>1, <1>5, <2>3 DEF Reflected, Forgotten
  <2>4. CASE rows'[e.id] # NoMembership
    <3>1. /\ g \in es /\ g.id = e.id /\ g \in MembershipEvents /\ rows'[e.id] = RowOf(g)
          /\ \A f \in mine(e.id) : f.version <= g.version
      BY <1>2, <1>4, <2>1, <2>2, <2>4
    <3>2. MembershipEvent(e.id, rows'[e.id]) = g /\ rows'[e.id].version = g.version /\ g.version \in Nat
      BY <3>1, EventKinds
    <3>3. CASE g \in boot.buffer
      BY <1>1, <1>5, <3>2, <3>3 DEF Reflected, Forgotten
    <3>4. CASE g \in boot.page
      <4>1. CASE e \in inbox
        <5>1. g.version >= e.version
          BY <1>1, <3>1, <3>4, <4>1 DEF ReflectionInv, PageIsAhead
        <5> QED
          BY <1>5, <3>2, <5>1 DEF Reflected, AtOrPast
      <4>2. CASE e \in boot.buffer
        <5>1. e.version <= g.version
          BY <1>4, <3>1, <4>2
        <5> QED
          BY <1>5, <2>1, <3>2, <5>1 DEF Reflected, AtOrPast
      <4> QED
        BY <1>1, <4>1, <4>2
    <3> QED
      BY <3>1, <3>3, <3>4
  <2> QED
    BY <2>3, <2>4
<1>6. ASSUME NEW e \in inbox', e.id = 0
      PROVE  Reflected(e)'
  <2>1. e \in TenantEvents /\ tenant.sec \in Nat
    BY <1>1, <1>2, <1>6, EventKinds DEF ProjectionInv, ProjectionTypeOK
  <2>2. \A f \in mine(0) : f \in log /\ f.id = 0 /\ f.sec <= tenant.sec
    <3>1. \A f \in mine(0) : f \in log /\ f.id = 0 /\ f.sec \in Nat
      BY <1>2, <1>4, EventKinds
    <3>2. \A f \in mine(0) : f = CurrentTenant \/ f.sec < tenant.sec
      BY <3>1 DEF ProjectionInv, LogIsHistory
    <3>3. CurrentTenant.sec = tenant.sec
      BY EventFields DEF CurrentTenant
    <3> QED
      BY <2>1, <3>1, <3>2, <3>3
  <2>3. \A f, g \in mine(0) : f.sec = g.sec => f = g
    BY <2>2 DEF ReflectionInv, TenantEventsDiffer
  <2>4. /\ \A f \in mine(0) : ~TenantNewer(ctenant', f)
        /\ \A f \in TenantEvents : ~TenantNewer(base, f) => ~TenantNewer(ctenant', f)
    BY <1>1, <1>2, <1>3, <2>1, <2>2, <2>3, NewestTenantPasses
  <2>5. e \in inbox => ~TenantNewer(base, e)
    <3>1. e \in inbox => ~TenantNewer(ctenant, e)
      BY <1>6 DEF ReflectionInv, HandledIsReflected, Reflected, AtOrPast
    <3> QED
      BY <1>1, <1>6, <3>1 DEF ReflectionInv, PageIsAhead
  <2>6. e \in boot.buffer => e \in mine(0)
    BY <1>4, <1>6
  <2> QED
    BY <1>1, <1>6, <2>1, <2>4, <2>5, <2>6 DEF Reflected, AtOrPast
<1>7. HandledIsReflected'
  BY <1>5, <1>6 DEF HandledIsReflected
<1>8. ClosedIsHandled' /\ TenantEventsDiffer' /\ PageIsAhead'
  BY <1>1 DEF ReflectionInv, ClosedIsHandled, TenantEventsDiffer, PageIsAhead
<1>9. RepairsAreCurrent'
  BY <1>1 DEF ReflectionInv, RepairsAreCurrent, NotAheadOfModel, OfThisModel
<1> QED
  BY <1>7, <1>8, <1>9 DEF ReflectionInv

(* Every step keeps it. *)
LEMMA ReflectionStep ==
    ProjectionInv /\ ReflectionInv /\ [ProjectionNext]_projectionVars => ReflectionInv'
<1> SUFFICES ASSUME ProjectionInv, ReflectionInv, [ProjectionNext]_projectionVars
             PROVE  ReflectionInv'
  OBVIOUS
<1>1. CASE AuthorityStep
  BY <1>1, AuthorityReflects
<1>2. ASSUME NEW e \in log, Deliver(e) \/ DeliverUnacknowledged(e)
      PROVE  ReflectionInv'
  BY <1>2, DeliveryReflects
<1>3. ASSUME NEW e \in log, Abandon(e) \/ Replay(e) \/ Resolve(e) \/ Supersede(e)
      PROVE  ReflectionInv'
  BY <1>3, DeadLetterReflects
<1>4. CASE Report \/ Compare \/ PublishReconciled \/ LoseSweep
  BY <1>4, SweepReflects
<1>5. ASSUME NEW r \in repairs, DeliverRepair(r)
      PROVE  ReflectionInv'
  BY <1>5, RepairReflects
<1>6. CASE BeginBootstrap \/ ReadPage \/ ReplaceModel
  BY <1>6, ReadingReflects, ReplaceReflects
<1>7. CASE UNCHANGED projectionVars
  BY <1>7, ReflectionStays
     DEF projectionVars, ledgerVars, deliveryVars, consumerVars, ReflectionInv
<1> QED
  BY <1>1, <1>2, <1>3, <1>4, <1>5, <1>6, <1>7 DEF ProjectionNext, ConsumerNext

LEMMA ReflectionInvariant == ProjectionSpec => []ReflectionInv
  BY ReflectionInit, ReflectionStep, ProjectionInvariant, PTL DEF ProjectionSpec

(* The consumer is never ahead of authority, and at authority's version it holds        *)
(* authority's status, whatever was repeated, reordered, repaired or read from a page.  *)
THEOREM CopyIsNeverAhead == ProjectionSpec => []AgreesAtSameVersion
<1>1. ProjectionInv => AgreesAtSameVersion
  <2> SUFFICES ASSUME ProjectionInv, NEW m \in Memberships
               PROVE  /\ rows[m].version <= mem[m].version
                      /\ rows[m].version = mem[m].version => rows[m].status = mem[m].status
    BY DEF AgreesAtSameVersion
  <2>1. /\ rows[m] \in RowRecords /\ ProjectionTypeOK /\ LogIsHistory
        /\ rows[m] = NoMembership \/ MembershipEvent(m, rows[m]) \in log
    BY DEF ProjectionInv, ProjectionTypeOK, CopiesAreCommitted
  <2>2. rows[m].version <= mem[m].version /\ (rows[m].version = mem[m].version => rows[m] = mem[m])
    BY <2>1, CommittedIsBehind
  <2> QED
    BY <2>2
<1> QED
  BY <1>1, ProjectionInvariant, PTL

(* What authority and the consumer differ in is owed or dead-lettered; after a          *)
(* replacement of the model only a withdrawal can go unrecorded.                        *)
THEOREM NoDifferenceIsLost == ProjectionSpec => []NothingLost
<1>1. ProjectionInv => NothingLost
  <2> SUFFICES ASSUME ProjectionInv, boot.phase = "none", NEW m \in Memberships
               PROVE  \/ rows[m] = mem[m]
                      \/ MembershipEvent(m, mem[m]) \in owed \cup dead
                      \/ boot.count > 0 /\ mem[m].status # "active"
    BY DEF NothingLost
  <2>1. CASE mem[m] = NoMembership
    <3>1. /\ rows[m] \in RowRecords /\ ProjectionTypeOK /\ LogIsHistory
          /\ rows[m] = NoMembership \/ MembershipEvent(m, rows[m]) \in log
      BY DEF ProjectionInv, ProjectionTypeOK, CopiesAreCommitted
    <3>2. rows[m].version <= mem[m].version /\ (rows[m].version = mem[m].version => rows[m] = mem[m])
      BY <3>1, CommittedIsBehind
    <3> QED
      BY <2>1, <3>1, <3>2, RowFields
  <2>2. CASE Traced(Current(m))
    BY <2>2 DEF Traced, Current, ProjectionInv, BufferIsOfABootstrap, HandledShows
  <2> QED
    BY <2>1, <2>2 DEF ProjectionInv, CurrentIsTraced
<1> QED
  BY <1>1, ProjectionInvariant, PTL

(* The consumer's Tenant is authority's, or the event that brings it forward is owed,   *)
(* buffered or an open incident.                                                        *)
THEOREM TenantIsTraced == ProjectionSpec => []TenantNeverSilentlyStale
<1>1. ProjectionInv => TenantNeverSilentlyStale
  BY DEF ProjectionInv, CurrentIsTraced, Traced, TenantHandledShows, CurrentTenant, TenantNeverSilentlyStale
<1> QED
  BY <1>1, ProjectionInvariant, PTL

(* An incident is closed only when the consumer is at or past its event: its Tenant     *)
(* always, and a Membership unless the replacement of the model forgot the row, which   *)
(* no repair and no page then leaves behind the event.                                  *)
THEOREM ClosureIsEarned == ProjectionSpec => []ClosedIsReflected
<1>1. ProjectionInv /\ ReflectionInv => ClosedIsReflected
  <2> SUFFICES ASSUME ProjectionInv, ReflectionInv, NEW e \in closed
               PROVE  IF e.id = 0 THEN ~TenantNewer(ctenant, e)
                      ELSE rows[e.id].version >= e.version \/ Forgotten(e.id)
    BY DEF ClosedIsReflected
  <2>1. PICK f \in inbox :
           f.id = e.id /\ (f = e \/ IF e.id = 0 THEN f.sec > e.sec ELSE f.version > e.version)
    BY DEF ReflectionInv, ClosedIsHandled
  <2>2. Reflected(f)
    BY <2>1 DEF ReflectionInv, HandledIsReflected
  <2>3. e \in log /\ f \in log /\ log \subseteq MembershipEvents \cup TenantEvents
    BY <2>1 DEF ProjectionInv, ProjectionTypeOK, CopiesAreCommitted
  <2>4. CASE e.id = 0
    <3>1. /\ e.sec \in Nat /\ f.sec \in Nat /\ e.version \in Nat /\ f.version \in Nat
          /\ ctenant.sec \in Nat /\ ctenant.version \in Nat
      BY <2>1, <2>3, <2>4, EventKinds DEF ProjectionInv, ProjectionTypeOK
    <3> QED
      BY <2>1, <2>2, <2>4, <3>1 DEF Reflected, AtOrPast, TenantNewer
  <2>5. CASE e.id # 0
    <3>1. /\ e.version \in Nat /\ f.version \in Nat /\ rows[e.id].version \in Nat
      BY <2>1, <2>3, <2>5, EventKinds, RowFields DEF ProjectionInv, ProjectionTypeOK
    <3> QED
      BY <2>1, <2>2, <2>5, <3>1 DEF Reflected, AtOrPast
  <2> QED
    BY <2>4, <2>5
<1> QED
  BY <1>1, ProjectionInvariant, ReflectionInvariant, PTL

(* The enforcement read calls enforced what the consumer holds: exactly authority's     *)
(* state, but for a withdrawn row a later bootstrap left out.                           *)
THEOREM EnforcedIsHeld == ProjectionSpec => []EnforcedIsReflected
<1>1. ProjectionInv /\ ReflectionInv => EnforcedIsReflected
  <2> SUFFICES ASSUME ProjectionInv, ReflectionInv, NEW m \in Memberships, NEW overdue \in BOOLEAN,
                      Enforcement(m, overdue) = "enforced"
               PROVE  rows[m] = mem[m] \/ (Forgotten(m) /\ mem[m].status # "active")
    BY DEF EnforcedIsReflected
  <2>1. Current(m) \in receipts
    <3>1. Current(m) \in log /\ Derived(Evidence(Current(m)), overdue) = "enforced"
      BY DEF Enforcement, LatestEvent, Current
    <3>2. Evidence(Current(m)) \in {"consumer_applied", "dead_lettered", "pending", "transport_accepted"}
      BY DEF Evidence
    <3>3. Evidence(Current(m)) = "consumer_applied"
      BY <3>1, <3>2 DEF Derived
    <3> QED
      BY <3>3 DEF Evidence
  <2>2. Current(m) \in inbox
    BY <2>1 DEF ProjectionInv, CopiesAreCommitted
  <2>3. rows[m] = mem[m] \/ (boot.count > 0 /\ mem[m].status # "active")
    BY <2>2 DEF ProjectionInv, HandledShows
  <2>4. Current(m).id = m /\ Current(m).version = mem[m].version /\ m # 0
    BY MembershipIds DEF Current, MembershipEvent
  <2>5. rows[m].version >= mem[m].version \/ Forgotten(m)
    BY <2>2, <2>4 DEF ReflectionInv, HandledIsReflected, Reflected, AtOrPast
  <2>6. /\ rows[m] \in RowRecords /\ mem[m] \in RowRecords /\ ProjectionTypeOK /\ LogIsHistory
        /\ rows[m] = NoMembership \/ MembershipEvent(m, rows[m]) \in log
    BY DEF ProjectionInv, ProjectionTypeOK, CopiesAreCommitted
  <2>7. rows[m].version <= mem[m].version /\ (rows[m].version = mem[m].version => rows[m] = mem[m])
    BY <2>6, CommittedIsBehind
  <2> QED
    BY <2>3, <2>5, <2>6, <2>7, RowFields
<1> QED
  BY <1>1, ProjectionInvariant, ReflectionInvariant, PTL

(* A withdrawal the consumer applied is undone only by a later version, and a           *)
(* revocation by none, but for the replacement of the whole model.                      *)
THEOREM WithdrawalsHold == ProjectionSpec => WithdrawalHolds
<1> DEFINE Holds == \A m \in Memberships :
              (rows[m].status \in {"suspended", "revoked"} /\ rows'[m].status = "active")
                  => \/ rows'[m].version > rows[m].version /\ rows[m].status # "revoked"
                     \/ boot.phase = "read" /\ boot'.phase = "none"
<1>1. /\ ProjectionInv /\ ProjectionInv' /\ AgreesAtSameVersion'
      /\ [ProjectionNext]_projectionVars
      => [Holds]_projectionVars
  <2> SUFFICES ASSUME ProjectionInv, ProjectionInv', AgreesAtSameVersion', ProjectionNext,
                      NEW m \in Memberships,
                      rows[m].status \in {"suspended", "revoked"}, rows'[m].status = "active",
                      ~(boot.phase = "read" /\ boot'.phase = "none")
               PROVE  rows'[m].version > rows[m].version /\ rows[m].status # "revoked"
    OBVIOUS
  <2>0. /\ rows'[m] # rows[m] /\ rows[m] \in RowRecords
        /\ rows[m] = NoMembership \/ MembershipEvent(m, rows[m]) \in log
        /\ ProjectionTypeOK /\ LogIsHistory
    BY DEF ProjectionInv, ProjectionTypeOK, CopiesAreCommitted
  <2>1. \/ \E e \in log : e \in owed /\ Accept(e) /\ UNCHANGED mem
        \/ \E p \in repairs : DeliverRepair(p)
    <3>1. ~ReplaceModel
      BY DEF ReplaceModel, NoBoot
    <3>2. rows' # rows
      BY <2>0
    <3> QED
      BY <3>1, <3>2 DEF ProjectionNext, ConsumerNext, AuthorityStep, Deliver, DeliverUnacknowledged,
         Abandon, Replay, Resolve, Supersede, Close, Report, Compare, PublishReconciled, LoseSweep,
         BeginBootstrap, ReadPage, consumerVars, ledgerVars
  <2>2. rows'[m].version > rows[m].version /\ mem' = mem
    <3>1. ASSUME NEW e \in log, Accept(e), UNCHANGED mem
          PROVE  rows'[m].version > rows[m].version /\ mem' = mem
      <4>1. e \in MembershipEvents \cup TenantEvents /\ ApplyAll(rows, ctenant, {e})
        BY <2>0, <3>1 DEF Accept, consumerVars, ProjectionTypeOK
      <4>2. e.id = m /\ e.version > rows[m].version /\ rows'[m] = RowOf(e)
        <5>1. /\ e.id # 0 => rows' = [rows EXCEPT ![e.id] = IF e.version > rows[e.id].version
                                                           THEN RowOf(e) ELSE rows[e.id]]
              /\ e.id = 0 => rows' = rows
          BY <2>0, <4>1, ApplyOne
        <5>2. rows \in [Memberships -> RowRecords] /\ (e.id # 0 => e.id \in Memberships)
          BY <2>0, <4>1, EventKinds DEF ProjectionTypeOK
        <5> QED
          BY ONLY <2>0, <5>1, <5>2, m \in Memberships
      <4>3. e \in MembershipEvents
        BY <4>1, <4>2, MembershipIds, EventKinds
      <4> QED
        BY <3>1, <4>2, <4>3, EventKinds
    <3>2. ASSUME NEW p \in repairs, DeliverRepair(p)
          PROVE  rows'[m].version > rows[m].version /\ mem' = mem
      BY <2>0, <3>2, RepairedIs DEF DeliverRepair, ledgerVars
    <3> QED
      BY <2>1, <3>1, <3>2
  <2>3. rows'[m].version <= mem'[m].version
    BY DEF AgreesAtSameVersion
  <2>4. rows[m].status = "revoked" => rows[m] = mem[m]
    BY <2>0, CommittedIsBehind
  <2>5. rows[m].version \in Nat /\ rows'[m].version \in Nat
    BY RowFields DEF ProjectionInv, ProjectionTypeOK
  <2> QED
    BY <2>2, <2>3, <2>4, <2>5
<1> QED
  BY <1>1, ProjectionInvariant, CopyIsNeverAhead, PTL DEF ProjectionSpec, WithdrawalHolds
==============================================================================
