------------------------ MODULE ConsumerRegistryProofs ------------------------
(***************************************************************************)
(* The safety properties of ConsumerRegistry, proved for every number of   *)
(* consumers, event types, positions and requests in flight.               *)
(*                                                                         *)
(* A request that reads a consumer's row without a lock carries the count  *)
(* of the writings of its subscription.  The invariant says what is still  *)
(* true of the row when that count has not moved: a snapshot covers the    *)
(* types it shows whole, a report has its mark, a waiver its retired       *)
(* consumer.                                                               *)
(***************************************************************************)
EXTENDS ConsumerRegistry, FiniteSetTheorems, WellFoundedInduction, TLAPS

(* A stored mark is a position, or NULL. *)
Marks == {m \in SUBSET Nat : \A j, k \in m : j = k}

Kinds == {"none", "organization", "provider"}

ConsumerRecords ==
    [state : {"none", "active", "retired"}, types : SUBSET Types, mark : Marks,
     reported : Marks, writings : Nat, before : SUBSET Positions, kinds : SUBSET Kinds,
     overlapped : SUBSET {"mark", "report"}]

IncidentRecords ==
    [state : {"none", "open", "closed"}, applied : BOOLEAN, waived : BOOLEAN, read : Nat]

RequestRecords ==
    [step : {"idle", "registering", "snapshot", "bootstrap", "report", "waiving"},
     of : Consumers \cup {NoOne}, types : SUBSET Types, mark : Nat, kind : Kinds,
     holds : SUBSET Positions, writings : Nat]

RegistryTypeOK ==
    /\ stream \in [Positions -> Types \cup {NoOne}]
    /\ consumer \in [Consumers -> ConsumerRecords]
    /\ model \in [Consumers -> SUBSET Positions]
    /\ owed \subseteq Consumers \X Positions
    /\ dead \in [Consumers \X Positions -> IncidentRecords]
    /\ request \in [Requests -> RequestRecords]

(* An event a consumer has, is owed, or has as its debt. *)
Traced(c, p) ==
    p \in model[c] \/ <<c, p>> \in owed \/ dead[<<c, p>>].state = "open"

(* An event the consumer should have: committed under its subscription, or of a type     *)
(* that snapshots of these kinds show whole.                                             *)
Due(c, kinds, p) ==
    /\ stream[p] # NoOne /\ stream[p] \in consumer[c].types
    /\ p \notin consumer[c].before \/ stream[p] \in ShownWhole(kinds)

(* Every event the consumer should have is accounted for, if not by the snapshot in hand.*)
Covered(c, kinds, holds) ==
    \A p \in Positions : Due(c, kinds, p) => p \in holds \/ Traced(c, p)

(* The consumer of a request is enforcing and was not written since the request read it. *)
Fresh(q) == IsActive(q.of) /\ q.writings = consumer[q.of].writings

InFlight == {request[r] : r \in Requests}

(* What a request may still rely on.  While it is fresh, a snapshot and the bootstrap    *)
(* that applied it cover what their kind shows, and a report has its consumer's mark; a  *)
(* waiver read a consumer that did not enforce, so it is never fresh.                    *)
RequestHolds(q) ==
    q.step # "idle" =>
        /\ q.of \in Consumers
        /\ q.writings <= consumer[q.of].writings
        /\ q.step \in {"snapshot", "bootstrap", "report"} => consumer[q.of].state # "none"
        /\ q.step = "snapshot" /\ Fresh(q) => Covered(q.of, {q.kind}, q.holds)
        /\ q.step = "bootstrap" /\ Fresh(q) => Covered(q.of, {q.kind}, {})
        /\ q.step = "report" /\ Fresh(q) => consumer[q.of].mark # NoMark
        /\ q.step = "waiving" => q.mark \in Positions /\ ~Fresh(q)

(* A consumer without a row has no progress.  An enforcing one has what committed under  *)
(* its subscription, and each part of its progress is true unless it was overlapped.     *)
ConsumerHolds(c) ==
    /\ consumer[c].state = "none" => /\ consumer[c].mark = NoMark /\ consumer[c].reported = NoMark
                                     /\ consumer[c].kinds = {}
    /\ IsActive(c) => Covered(c, {}, {})
    /\ IsActive(c) /\ "mark" \notin consumer[c].overlapped
          => /\ Covered(c, consumer[c].kinds, {})
             /\ consumer[c].mark # NoMark => consumer[c].kinds # {}
    /\ IsActive(c) /\ "report" \notin consumer[c].overlapped /\ consumer[c].reported # NoMark
          => consumer[c].mark # NoMark

(* A receipt filed for an incident is of an event in the consumer's model, and a waived  *)
(* incident of an enforcing consumer was waived before the consumer was last written.    *)
IncidentHolds(c, p) ==
    /\ dead[<<c, p>>].applied => p \in model[c]
    /\ dead[<<c, p>>].waived =>
          /\ dead[<<c, p>>].read <= consumer[c].writings
          /\ IsActive(c) => consumer[c].writings > dead[<<c, p>>].read

RegistryInv ==
    /\ RegistryTypeOK
    /\ \A q \in InFlight : RequestHolds(q)
    /\ \A c \in Consumers : ConsumerHolds(c)
    /\ \A c \in Consumers, p \in Positions : IncidentHolds(c, p)

-----------------------------------------------------------------------------
(* Steps, as the requests in flight see them. *)

(* What was accounted for is, and so is what is committed now. *)
AccountsKept(c) ==
    \A p \in Positions :
        /\ Traced(c, p) => Traced(c, p)'
        /\ stream'[p] = stream[p] \/ (stream'[p] \in consumer[c].types => Traced(c, p)')

(* A row may be written anew, retired, or left as it is where a fresh request looks. *)
RowMoves(c) ==
    /\ consumer'[c].writings >= consumer[c].writings
    /\ consumer[c].state # "none" => consumer'[c].state # "none"
    /\ consumer'[c].state = "active" /\ consumer'[c].writings = consumer[c].writings =>
          /\ consumer[c].state = "active"
          /\ consumer[c].mark # NoMark => consumer'[c].mark # NoMark
          /\ \A j, h : Covered(c, j, h) => Covered(c, j, h)'

(* Accounts kept, a subscription covered stays covered. *)
LEMMA CoverKept ==
    ASSUME NEW c \in Consumers, consumer'[c].types = consumer[c].types,
           consumer'[c].before = consumer[c].before, AccountsKept(c)
    PROVE  \A j, h : Covered(c, j, h) => Covered(c, j, h)'
<1> SUFFICES ASSUME NEW j, NEW h, Covered(c, j, h), NEW p \in Positions, Due(c, j, p)'
             PROVE  p \in h \/ Traced(c, p)'
  BY DEF Covered
<1>1. CASE stream'[p] = stream[p]
  <2>1. Due(c, j, p)
    BY <1>1 DEF Due, ShownWhole, ProviderEventTypes
  <2>2. p \in h \/ Traced(c, p)
    BY <2>1 DEF Covered
  <2> QED
    BY <2>2 DEF AccountsKept
<1>2. CASE stream'[p] # stream[p]
  BY <1>2 DEF AccountsKept, Due
<1> QED
  BY <1>1, <1>2

(* What two sets of snapshots cover, their union does. *)
LEMMA CoverUnion ==
    ASSUME NEW c \in Consumers, NEW j, NEW k, Covered(c, j, {}), Covered(c, k, {})
    PROVE  Covered(c, j \cup k, {})
<1> SUFFICES ASSUME NEW p \in Positions, Due(c, j \cup k, p) PROVE Traced(c, p)
  BY DEF Covered
<1>1. Due(c, j, p) \/ Due(c, k, p)
  BY DEF Due, ShownWhole
<1> QED
  BY <1>1 DEF Covered

(* A row nobody writes moves as a row may. *)
LEMMA RowKept ==
    ASSUME RegistryInv, NEW c \in Consumers, consumer'[c] = consumer[c], AccountsKept(c)
    PROVE  RowMoves(c) /\ ConsumerHolds(c)'
<1>1. \A j, h : Covered(c, j, h) => Covered(c, j, h)'
  BY CoverKept
<1>2. consumer[c].writings \in Nat
  BY DEF RegistryInv, RegistryTypeOK, ConsumerRecords
<1>3. RowMoves(c)
  BY <1>1, <1>2 DEF RowMoves
<1>4. ConsumerHolds(c)
  BY DEF RegistryInv
<1> QED
  BY <1>1, <1>3, <1>4 DEF ConsumerHolds, IsActive

(* A request relies on a row that moves as a row may. *)
LEMMA RequestKept ==
    ASSUME RegistryInv, NEW q \in RequestRecords, RequestHolds(q),
           \A c \in Consumers : RowMoves(c) /\ consumer'[c].writings \in Nat
    PROVE  RequestHolds(q)'
<1> SUFFICES ASSUME q.step # "idle" PROVE RequestHolds(q)'
  BY DEF RequestHolds
<1>1. PICK c \in Consumers : c = q.of
  BY DEF RequestHolds
<1>2. RowMoves(c) /\ consumer[c].writings \in Nat /\ consumer'[c].writings \in Nat /\ q.writings \in Nat
      /\ q.writings <= consumer[c].writings
  BY <1>1 DEF RegistryInv, RegistryTypeOK, ConsumerRecords, RequestRecords, RequestHolds
<1>3. Fresh(q)' => Fresh(q) /\ consumer'[c].state = "active" /\ consumer'[c].writings = consumer[c].writings
  BY <1>1, <1>2 DEF Fresh, RowMoves, IsActive
<1>4. Fresh(q)' => /\ consumer[c].mark # NoMark => consumer'[c].mark # NoMark
                   /\ \A j, h : Covered(c, j, h) => Covered(c, j, h)'
  BY <1>2, <1>3 DEF RowMoves
<1>5. /\ q.of \in Consumers /\ q.writings <= consumer'[q.of].writings
      /\ q.step \in {"snapshot", "bootstrap", "report"} => consumer'[q.of].state # "none"
  BY <1>1, <1>2 DEF RequestHolds, RowMoves
<1>6. /\ q.step = "snapshot" /\ Fresh(q)' => Covered(q.of, {q.kind}, q.holds)'
      /\ q.step = "bootstrap" /\ Fresh(q)' => Covered(q.of, {q.kind}, {})'
      /\ q.step = "report" /\ Fresh(q)' => consumer'[q.of].mark # NoMark
  BY <1>1, <1>3, <1>4 DEF RequestHolds
<1>7. q.step = "waiving" => q.mark \in Positions /\ ~Fresh(q)'
  BY <1>3 DEF RequestHolds
<1> QED
  BY <1>5, <1>6, <1>7 DEF RequestHolds

(* One request moves; the others are as they were. *)
LEMMA OneMoves ==
    ASSUME RegistryInv, NEW r \in Requests, NEW n, request' = [request EXCEPT ![r] = n]
    PROVE  \A q \in InFlight' : q = n \/ q \in InFlight
  BY DEF InFlight, RegistryInv, RegistryTypeOK

(* Every request but the one that moves keeps what it relies on. *)
LEMMA RequestsKept ==
    ASSUME RegistryInv, \A c \in Consumers : RowMoves(c) /\ consumer'[c].writings \in Nat,
           NEW n, \A q \in InFlight' : q = n \/ q \in InFlight,
           RequestHolds(n)'
    PROVE  (\A q \in InFlight : RequestHolds(q))'
<1>1. ASSUME NEW q \in InFlight PROVE RequestHolds(q)'
  BY RequestKept DEF RegistryInv, RegistryTypeOK, InFlight
<1>2. ASSUME NEW q \in InFlight' PROVE RequestHolds(q)'
  BY <1>1, <1>2
<1> QED
  BY <1>2

(* A position is a mark, and so is none. *)
LEMMA MarksAre == NoMark \in Marks /\ \A k \in Nat : {k} \in Marks /\ {k} # NoMark
  BY DEF NoMark, Marks

(* A request that ended relies on nothing. *)
LEMMA IdleHolds == RequestHolds(Idle) /\ RequestHolds(Idle)' /\ Idle \in RequestRecords
  BY DEF RequestHolds, Idle, RequestRecords, Kinds

(* Incidents keep what is said of them while nothing newer is. *)
LEMMA IncidentKept ==
    ASSUME RegistryInv, NEW c \in Consumers, NEW p \in Positions,
           RowMoves(c), consumer'[c].writings \in Nat, model[c] \subseteq model'[c],
           dead'[<<c, p>>].applied => dead[<<c, p>>].applied \/ p \in model'[c],
           dead'[<<c, p>>].waived => dead[<<c, p>>].waived /\ dead'[<<c, p>>].read = dead[<<c, p>>].read
    PROVE  IncidentHolds(c, p)'
<1>1. IncidentHolds(c, p) /\ consumer[c].writings \in Nat /\ dead[<<c, p>>].read \in Nat
  BY DEF RegistryInv, RegistryTypeOK, ConsumerRecords, IncidentRecords
<1> QED
  BY <1>1 DEF IncidentHolds, RowMoves, IsActive

(* A receipt is only filed for what is in the model, and no waiver is granted. *)
IncidentsQuiet(c) ==
    /\ model[c] \subseteq model'[c]
    /\ \A p \in Positions :
          /\ dead'[<<c, p>>].applied => dead[<<c, p>>].applied \/ p \in model'[c]
          /\ dead'[<<c, p>>].waived => dead[<<c, p>>].waived /\ dead'[<<c, p>>].read = dead[<<c, p>>].read

(* The stream, the deliveries and the dead letters, with no row or request touched. *)
LEMMA EnvironmentKeeps ==
    ASSUME RegistryInv, RegistryTypeOK', UNCHANGED <<consumer, request>>,
           \A c \in Consumers : AccountsKept(c) /\ IncidentsQuiet(c)
    PROVE  RegistryInv'
<1>1. \A c \in Consumers : RowMoves(c) /\ ConsumerHolds(c)' /\ consumer'[c].writings \in Nat
  BY RowKept DEF RegistryTypeOK, ConsumerRecords
<1>2. \A q \in InFlight' : q = Idle \/ q \in InFlight
  BY DEF InFlight
<1>3. (\A q \in InFlight : RequestHolds(q))'
  BY <1>1, <1>2, IdleHolds, RequestsKept
<1>4. ASSUME NEW c \in Consumers, NEW p \in Positions PROVE IncidentHolds(c, p)'
  BY <1>1, IncidentKept DEF IncidentsQuiet
<1> QED
  BY <1>1, <1>3, <1>4 DEF RegistryInv

(* A committed event is owed to whoever subscribes to it. *)
LEMMA CommitStep ==
    ASSUME RegistryInv, NEW s \in Positions, NEW t \in Types, CommitEvent(s, t)
    PROVE  RegistryInv'
<1>1. RegistryTypeOK'
  BY DEF RegistryInv, RegistryTypeOK, CommitEvent
<1>2. ASSUME NEW c \in Consumers PROVE AccountsKept(c)
  <2>1. /\ stream'[s] = t /\ \A p \in Positions : p # s => stream'[p] = stream[p]
        /\ owed \subseteq owed' /\ UNCHANGED <<consumer, model, dead>>
        /\ t \in consumer[c].types => <<c, s>> \in owed'
    BY DEF CommitEvent, RegistryInv, RegistryTypeOK
  <2> QED
    BY <2>1 DEF AccountsKept, Traced
<1>3. \A c \in Consumers : IncidentsQuiet(c)
  BY DEF CommitEvent, IncidentsQuiet
<1> QED
  BY <1>1, <1>2, <1>3, EnvironmentKeeps DEF CommitEvent

(* An applied delivery is in the model. *)
LEMMA DeliverStep ==
    ASSUME RegistryInv, NEW d \in Consumers, NEW s \in Positions, Deliver(d, s)
    PROVE  RegistryInv'
<1>1. /\ owed' = owed \ {<<d, s>>} /\ UNCHANGED <<stream, consumer, request>>
      /\ model' = [model EXCEPT ![d] = @ \cup {s}]
      /\ dead' = [dead EXCEPT ![<<d, s>>].applied = dead[<<d, s>>].applied \/ dead[<<d, s>>].state = "open"]
  BY DEF Deliver
<1>2. dead \in [Consumers \X Positions -> IncidentRecords] /\ <<d, s>> \in Consumers \X Positions
      /\ dead[<<d, s>>] \in IncidentRecords
  BY DEF RegistryInv, RegistryTypeOK
<1>3. PICK n \in IncidentRecords :
          /\ dead' = [dead EXCEPT ![<<d, s>>] = n]
          /\ n.state = dead[<<d, s>>].state /\ n.waived = dead[<<d, s>>].waived
          /\ n.read = dead[<<d, s>>].read
  <2> DEFINE n == [dead[<<d, s>>] EXCEPT !.applied = dead[<<d, s>>].applied \/ dead[<<d, s>>].state = "open"]
  <2>1. dead' = [dead EXCEPT ![<<d, s>>] = n]
    BY <1>1, <1>2
  <2>2. /\ n \in IncidentRecords
        /\ n.state = dead[<<d, s>>].state /\ n.waived = dead[<<d, s>>].waived
        /\ n.read = dead[<<d, s>>].read
    BY <1>2 DEF IncidentRecords
  <2> QED
    BY <2>1, <2>2
<1>4. RegistryTypeOK'
  BY <1>1, <1>2, <1>3 DEF RegistryInv, RegistryTypeOK
<1>5. /\ s \in model'[d] /\ \A c \in Consumers : model[c] \subseteq model'[c]
      /\ \A c \in Consumers, p \in Positions : <<c, p>> # <<d, s>> => <<c, p>> \in owed' \/ <<c, p>> \notin owed
      /\ \A c \in Consumers, p \in Positions : <<c, p>> # <<d, s>> => dead'[<<c, p>>] = dead[<<c, p>>]
      /\ dead'[<<d, s>>] = n
  BY <1>1, <1>2, <1>3 DEF RegistryInv, RegistryTypeOK
<1>6. ASSUME NEW c \in Consumers, NEW p \in Positions
      PROVE  /\ Traced(c, p) => Traced(c, p)'
             /\ dead'[<<c, p>>].applied => dead[<<c, p>>].applied \/ p \in model'[c]
             /\ dead'[<<c, p>>].waived => dead[<<c, p>>].waived /\ dead'[<<c, p>>].read = dead[<<c, p>>].read
  <2>1. CASE <<c, p>> = <<d, s>>
    BY <1>3, <1>5, <2>1 DEF Traced
  <2>2. CASE <<c, p>> # <<d, s>>
    BY <1>5, <2>2 DEF Traced
  <2> QED
    BY <2>1, <2>2
<1>7. \A c \in Consumers : AccountsKept(c) /\ IncidentsQuiet(c)
  BY <1>1, <1>5, <1>6 DEF AccountsKept, IncidentsQuiet
<1> QED
  BY <1>1, <1>4, <1>7, EnvironmentKeeps

(* One incident moves; the others are as they were. *)
LEMMA OneIncident ==
    ASSUME RegistryInv, NEW d \in Consumers, NEW s \in Positions, NEW n \in IncidentRecords,
           dead' = [dead EXCEPT ![<<d, s>>] = n]
    PROVE  /\ dead' \in [Consumers \X Positions -> IncidentRecords]
           /\ dead'[<<d, s>>] = n
           /\ \A c \in Consumers, p \in Positions :
                 <<c, p>> # <<d, s>> => dead'[<<c, p>>] = dead[<<c, p>>]
  BY DEF RegistryInv, RegistryTypeOK

(* What a dead letter, a closure and an expiry make of an incident. *)
LEMMA IncidentForms ==
    ASSUME NEW i \in IncidentRecords
    PROVE  /\ \E n \in IncidentRecords :
                 n = [i EXCEPT !.state = "open"] /\ n.state = "open"
                 /\ n.applied = i.applied /\ n.waived = i.waived /\ n.read = i.read
           /\ \E n \in IncidentRecords :
                 n = [i EXCEPT !.waived = FALSE, !.read = 0] /\ n.state = i.state
                 /\ n.applied = i.applied /\ n.waived = FALSE
           /\ \E n \in IncidentRecords :
                 n = [NoIncident EXCEPT !.state = "closed"] /\ n.applied = FALSE /\ n.waived = FALSE
<1> DEFINE opened == [i EXCEPT !.state = "open"]
           expired == [i EXCEPT !.waived = FALSE, !.read = 0]
           closed == [NoIncident EXCEPT !.state = "closed"]
<1>1. opened \in IncidentRecords /\ opened.state = "open"
      /\ opened.applied = i.applied /\ opened.waived = i.waived /\ opened.read = i.read
  BY DEF IncidentRecords
<1>2. expired \in IncidentRecords /\ expired.state = i.state
      /\ expired.applied = i.applied /\ expired.waived = FALSE
  BY DEF IncidentRecords
<1>3. closed \in IncidentRecords /\ closed.applied = FALSE /\ closed.waived = FALSE
  BY DEF IncidentRecords, NoIncident
<1> QED
  BY <1>1, <1>2, <1>3

(* A dead letter turns a delivery into a debt. *)
LEMMA DeadLetterStep ==
    ASSUME RegistryInv, NEW d \in Consumers, NEW s \in Positions, DeadLetter(d, s)
    PROVE  RegistryInv'
<1>1. owed' = owed \ {<<d, s>>} /\ UNCHANGED <<stream, consumer, model, request>>
  BY DEF DeadLetter
<1>2. dead \in [Consumers \X Positions -> IncidentRecords] /\ <<d, s>> \in Consumers \X Positions
      /\ dead[<<d, s>>] \in IncidentRecords
  BY DEF RegistryInv, RegistryTypeOK
<1>3. PICK n \in IncidentRecords :
          /\ n = [dead[<<d, s>>] EXCEPT !.state = "open"] /\ n.state = "open"
          /\ n.applied = dead[<<d, s>>].applied
          /\ n.waived = dead[<<d, s>>].waived /\ n.read = dead[<<d, s>>].read
  BY <1>2, IncidentForms
<1>4. dead' = [dead EXCEPT ![<<d, s>>] = n]
  BY <1>2, <1>3 DEF DeadLetter
<1>5. /\ dead' \in [Consumers \X Positions -> IncidentRecords] /\ dead'[<<d, s>>] = n
      /\ \A c \in Consumers, p \in Positions :
            <<c, p>> # <<d, s>> => dead'[<<c, p>>] = dead[<<c, p>>]
  BY <1>4, OneIncident
<1>6. RegistryTypeOK'
  BY <1>1, <1>5 DEF RegistryInv, RegistryTypeOK
<1>7. ASSUME NEW c \in Consumers, NEW p \in Positions
      PROVE  /\ Traced(c, p) => Traced(c, p)'
             /\ dead'[<<c, p>>].applied => dead[<<c, p>>].applied \/ p \in model'[c]
             /\ dead'[<<c, p>>].waived => dead[<<c, p>>].waived /\ dead'[<<c, p>>].read = dead[<<c, p>>].read
  <2>1. CASE <<c, p>> = <<d, s>>
    BY <1>3, <1>5, <2>1 DEF Traced
  <2>2. CASE <<c, p>> # <<d, s>>
    BY <1>1, <1>5, <2>2 DEF Traced
  <2> QED
    BY <2>1, <2>2
<1>8. \A c \in Consumers : AccountsKept(c) /\ IncidentsQuiet(c)
  BY <1>1, <1>7 DEF AccountsKept, IncidentsQuiet
<1> QED
  BY <1>1, <1>6, <1>8, EnvironmentKeeps

(* A replay owes the delivery again. *)
LEMMA ReplayStep ==
    ASSUME RegistryInv, NEW d \in Consumers, NEW s \in Positions, Replay(d, s)
    PROVE  RegistryInv'
<1>1. owed' = owed \cup {<<d, s>>} /\ UNCHANGED <<stream, consumer, model, dead, request>>
  BY DEF Replay
<1>2. RegistryTypeOK'
  BY <1>1 DEF RegistryInv, RegistryTypeOK
<1>3. \A c \in Consumers : AccountsKept(c) /\ IncidentsQuiet(c)
  BY <1>1 DEF AccountsKept, IncidentsQuiet, Traced
<1> QED
  BY <1>1, <1>2, <1>3, EnvironmentKeeps

(* A debt is closed on a receipt, whose event is in the model; an expiry ends a waiver. *)
LEMMA CloseStep ==
    ASSUME RegistryInv, NEW d \in Consumers, NEW s \in Positions,
           Resolve(d, s) \/ WaiverExpires(d, s)
    PROVE  RegistryInv'
<1>1. UNCHANGED <<stream, consumer, model, owed, request>>
  BY DEF Resolve, WaiverExpires
<1>2. dead \in [Consumers \X Positions -> IncidentRecords] /\ <<d, s>> \in Consumers \X Positions
      /\ dead[<<d, s>>] \in IncidentRecords
  BY DEF RegistryInv, RegistryTypeOK
<1>3. PICK n \in IncidentRecords :
          /\ dead' = [dead EXCEPT ![<<d, s>>] = n]
          /\ n.state = dead[<<d, s>>].state \/ s \in model[d]
          /\ n.applied => dead[<<d, s>>].applied
          /\ n.waived = FALSE
  <2>1. CASE Resolve(d, s)
    <3>1. s \in model[d]
      BY <2>1 DEF Resolve, RegistryInv, IncidentHolds
    <3>2. PICK n \in IncidentRecords :
            n = [NoIncident EXCEPT !.state = "closed"] /\ n.applied = FALSE /\ n.waived = FALSE
      BY <1>2, IncidentForms
    <3>3. dead' = [dead EXCEPT ![<<d, s>>] = n]
      BY <2>1, <3>2 DEF Resolve
    <3> QED
      BY <3>1, <3>2, <3>3
  <2>2. CASE WaiverExpires(d, s)
    <3>1. PICK n \in IncidentRecords :
            n = [dead[<<d, s>>] EXCEPT !.waived = FALSE, !.read = 0] /\ n.state = dead[<<d, s>>].state
            /\ n.applied = dead[<<d, s>>].applied /\ n.waived = FALSE
      BY <1>2, IncidentForms
    <3>2. dead' = [dead EXCEPT ![<<d, s>>] = n]
      BY <2>2, <3>1 DEF WaiverExpires
    <3> QED
      BY <3>1, <3>2
  <2> QED
    BY <2>1, <2>2
<1>4. /\ dead' \in [Consumers \X Positions -> IncidentRecords] /\ dead'[<<d, s>>] = n
      /\ \A c \in Consumers, p \in Positions :
            <<c, p>> # <<d, s>> => dead'[<<c, p>>] = dead[<<c, p>>]
  BY <1>3, OneIncident
<1>5. RegistryTypeOK'
  BY <1>1, <1>4 DEF RegistryInv, RegistryTypeOK
<1>6. ASSUME NEW c \in Consumers, NEW p \in Positions
      PROVE  /\ Traced(c, p) => Traced(c, p)'
             /\ dead'[<<c, p>>].applied => dead[<<c, p>>].applied \/ p \in model'[c]
             /\ dead'[<<c, p>>].waived => dead[<<c, p>>].waived /\ dead'[<<c, p>>].read = dead[<<c, p>>].read
  <2>1. CASE <<c, p>> = <<d, s>>
    BY <1>1, <1>3, <1>4, <2>1 DEF Traced
  <2>2. CASE <<c, p>> # <<d, s>>
    BY <1>1, <1>4, <2>2 DEF Traced
  <2> QED
    BY <2>1, <2>2
<1>7. \A c \in Consumers : AccountsKept(c) /\ IncidentsQuiet(c)
  BY <1>1, <1>6 DEF AccountsKept, IncidentsQuiet
<1> QED
  BY <1>1, <1>5, <1>7, EnvironmentKeeps

-----------------------------------------------------------------------------
(* Requests that read. *)

(* The highest of some positions, or 0, is one of them: what lies above them all has a  *)
(* least element.                                                                       *)
LEMMA HighestIsOne ==
    ASSUME NEW S \in SUBSET Positions
    PROVE  Max(S \cup {0}) \in S \cup {0} /\ Max(S \cup {0}) \in Nat
<1> DEFINE T == S \cup {0}
           above == {k \in Nat : \A y \in T : y <= k}
<1>1. T \in SUBSET Nat /\ MaxSequence \in above /\ MaxSequence \in Nat
  BY RegistryAssumption DEF Positions
<1> HIDE DEF T
<1>2. above \subseteq Nat /\ above # {}
  BY <1>1
<1> HIDE DEF above
<1>3. \E x \in above : \A y \in above : ~(<<y, x>> \in OpToRel(<, Nat))
  BY <1>2, NatLessThanWellFounded, WFMin
<1>4. PICK x \in above : \A y \in above : ~(<<y, x>> \in OpToRel(<, Nat))
  BY <1>3
<1>5. \A y \in above : ~(y < x)
  <2>1. \A y : <<y, x>> \in OpToRel(<, Nat) <=> <<y, x>> \in Nat \X Nat /\ y < x
    BY Zenon DEF OpToRel
  <2>2. \A y \in above : ~(<<y, x>> \in Nat \X Nat /\ y < x)
    BY <1>4, <2>1, Zenon
  <2>3. \A y \in above : y \in Nat /\ x \in Nat
    BY <1>2
  <2> QED
    BY ONLY <2>2, <2>3
<1> HIDE <1>4
<1>6. x \in Nat /\ \A y \in T : y <= x
  BY ONLY x \in above DEF above
<1>7. x \in T
  <2> SUFFICES ASSUME x \notin T PROVE FALSE
    OBVIOUS
  <2>1. \A y \in T : y \in Nat /\ y <= x /\ y # x
    BY ONLY <1>1, <1>6, x \notin T
  <2>2. x # 0 /\ x - 1 \in Nat
    BY <1>6, <2>1 DEF T
  <2>3. x - 1 \in above
    BY ONLY <1>6, <2>1, <2>2 DEF above
  <2> QED
    BY ONLY <1>5, <1>6, <2>2, <2>3
<1>8. \E z \in T : \A y \in T : z >= y
  BY ONLY <1>1, <1>6, <1>7
<1>9. Max(T) \in T
  BY ONLY <1>8, Zenon DEF Max
<1> QED
  BY ONLY <1>1, <1>9 DEF T

(* A request that only reads: what it may rely on is what it read. *)
LEMMA ReadKeeps ==
    ASSUME RegistryInv, NEW r \in Requests, NEW n \in RequestRecords,
           request' = [request EXCEPT ![r] = n], RequestHolds(n),
           UNCHANGED <<stream, consumer, model, owed, dead>>
    PROVE  RegistryInv'
<1>1. RegistryTypeOK'
  BY DEF RegistryInv, RegistryTypeOK
<1>2. ASSUME NEW c \in Consumers PROVE AccountsKept(c)
  BY DEF AccountsKept, Traced
<1>3. \A c \in Consumers : RowMoves(c) /\ ConsumerHolds(c)' /\ consumer'[c].writings \in Nat
  BY <1>1, <1>2, RowKept DEF RegistryTypeOK, ConsumerRecords
<1>4. RequestHolds(n)'
  BY <1>3, RequestKept
<1>5. (\A q \in InFlight : RequestHolds(q))'
  BY <1>3, <1>4, OneMoves, RequestsKept
<1>6. ASSUME NEW c \in Consumers, NEW p \in Positions PROVE IncidentHolds(c, p)'
  BY <1>3, IncidentKept
<1> QED
  BY <1>1, <1>3, <1>5, <1>6 DEF RegistryInv

(* A first registration reads that there is no row. *)
LEMMA RegisterReadStep ==
    ASSUME RegistryInv, NEW r \in Requests, NEW c \in Consumers, NEW types \in SUBSET Types,
           RegisterRead(r, c, types)
    PROVE  RegistryInv'
<1>1. PICK n \in RequestRecords :
        /\ request' = [request EXCEPT ![r] = n]
        /\ n.step = "registering" /\ n.of = c /\ n.writings = 0
  <2> DEFINE n == [Idle EXCEPT !.step = "registering", !.of = c, !.types = types]
  <2>1. n \in RequestRecords /\ n.step = "registering" /\ n.of = c /\ n.writings = 0
    BY MarksAre DEF RequestRecords, Idle, Kinds
  <2> QED
    BY <2>1 DEF RegisterRead
<1>2. RequestHolds(n)
  BY <1>1 DEF RequestHolds, RegistryInv, RegistryTypeOK, ConsumerRecords
<1> QED
  BY <1>1, <1>2, ReadKeeps DEF RegisterRead

(* The first page of a snapshot covers what its kind shows whole. *)
LEMMA FirstPageStep ==
    ASSUME RegistryInv, NEW r \in Requests, NEW c \in Consumers, NEW kind \in Kinds,
           NEW holds \in SUBSET Positions, CommittedOf(ShownWhole({kind})) \subseteq holds,
           FirstPage(r, c, kind, holds)
    PROVE  RegistryInv'
<1>1. PICK n \in RequestRecords :
        /\ request' = [request EXCEPT ![r] = n]
        /\ n.step = "snapshot" /\ n.of = c /\ n.kind = kind /\ n.holds = holds
        /\ n.writings = consumer[c].writings
  <2> DEFINE n == [Idle EXCEPT !.step = "snapshot", !.of = c, !.kind = kind, !.holds = holds,
                               !.mark = HighestCommitted, !.writings = consumer[c].writings]
  <2>1. Committed \in SUBSET Positions
    BY DEF Committed
  <2>2. HighestCommitted \in Nat /\ consumer[c].writings \in Nat
    BY <2>1, HighestIsOne DEF HighestCommitted, RegistryInv, RegistryTypeOK, ConsumerRecords
  <2>3. n \in RequestRecords /\ n.step = "snapshot" /\ n.of = c /\ n.kind = kind /\ n.holds = holds
        /\ n.writings = consumer[c].writings
    BY <2>2 DEF RequestRecords, Idle, Kinds
  <2>4. request' = [request EXCEPT ![r] = n]
    BY DEF FirstPage
  <2> HIDE DEF n
  <2> QED
    BY <2>3, <2>4
<1>2. consumer[c].writings \in Nat /\ consumer[c].state = "active" /\ Covered(c, {}, {})
  BY DEF RegistryInv, RegistryTypeOK, ConsumerRecords, ConsumerHolds, FirstPage, IsActive
<1>3. Covered(c, {kind}, holds)
  <2> SUFFICES ASSUME NEW p \in Positions, Due(c, {kind}, p) PROVE p \in holds \/ Traced(c, p)
    BY DEF Covered
  <2>1. CASE p \notin consumer[c].before
    BY <1>2, <2>1 DEF Covered, Due
  <2>2. CASE stream[p] \in ShownWhole({kind})
    BY <2>2 DEF CommittedOf, Committed, Due
  <2> QED
    BY <2>1, <2>2 DEF Due
<1>4. RequestHolds(n)
  BY <1>1, <1>2, <1>3 DEF RequestHolds
<1> QED
  BY <1>1, <1>4, ReadKeeps DEF FirstPage

(* Either snapshot begins with such a page. *)
LEMMA SnapshotStep ==
    ASSUME RegistryInv, NEW r \in Requests, NEW c \in Consumers,
           (\E tenants \in SUBSET Positions : Snapshot(r, c, tenants)) \/ ProviderSnapshot(r, c)
    PROVE  RegistryInv'
<1>1. ASSUME NEW tenants \in SUBSET Positions, Snapshot(r, c, tenants) PROVE RegistryInv'
  <2> DEFINE holds == CommittedOf({"membership"}) \cup tenants
  <2>1. holds \in SUBSET Positions /\ "organization" \in Kinds
    BY DEF CommittedOf, Committed, Kinds
  <2>2. CommittedOf(ShownWhole({"organization"})) \subseteq holds
    BY DEF CommittedOf, ShownWhole
  <2>3. FirstPage(r, c, "organization", holds)
    BY <1>1 DEF Snapshot
  <2> HIDE DEF holds
  <2> QED
    BY <2>1, <2>2, <2>3, FirstPageStep
<1>2. ASSUME ProviderSnapshot(r, c) PROVE RegistryInv'
  <2> DEFINE holds == CommittedOf(ProviderEventTypes)
  <2>1. holds \in SUBSET Positions /\ "provider" \in Kinds
    BY DEF CommittedOf, Committed, Kinds
  <2>2. CommittedOf(ShownWhole({"provider"})) \subseteq holds
    BY DEF CommittedOf, ShownWhole
  <2>3. FirstPage(r, c, "provider", holds)
    BY <1>2 DEF ProviderSnapshot
  <2> HIDE DEF holds
  <2> QED
    BY <2>1, <2>2, <2>3, FirstPageStep
<1> QED
  BY <1>1, <1>2

(* A later page only adds to what the snapshot covers. *)
LEMMA NextPageStep ==
    ASSUME RegistryInv, NEW r \in Requests, NEW more \in SUBSET Positions, NextPage(r, more)
    PROVE  RegistryInv'
<1>1. PICK q \in RequestRecords : q = request[r]
  BY DEF RegistryInv, RegistryTypeOK
<1>2. q.step = "snapshot" /\ RequestHolds(q)
  BY <1>1 DEF NextPage, RegistryInv, InFlight
<1> DEFINE n == [q EXCEPT !.holds = q.holds \cup more]
           served == IsActive(q.of) /\ SubscribesToAny(q.of, SnapshotTypes(q.kind))
<1>3. /\ n \in RequestRecords /\ n.step = q.step /\ n.of = q.of /\ n.kind = q.kind
      /\ n.writings = q.writings /\ q.holds \subseteq n.holds
  BY DEF RequestRecords
<1>4. request' = [request EXCEPT ![r] = IF served THEN n ELSE Idle]
  BY <1>1 DEF NextPage
<1>5. UNCHANGED <<stream, consumer, model, owed, dead>>
  BY DEF NextPage
<1> HIDE DEF n, served
<1>6. RequestHolds(n)
  <2>1. Covered(q.of, {q.kind}, q.holds) => Covered(q.of, {q.kind}, n.holds)
    BY <1>3 DEF Covered
  <2>2. Fresh(n) = Fresh(q)
    BY <1>3 DEF Fresh
  <2> QED
    BY <1>2, <1>3, <2>1, <2>2 DEF RequestHolds
<1>7. CASE served
  BY <1>3, <1>4, <1>5, <1>6, <1>7, ReadKeeps
<1>8. CASE ~served
  BY <1>4, <1>5, <1>8, IdleHolds, ReadKeeps
<1> QED
  BY <1>7, <1>8

(* A report is of a consumer with a mark. *)
LEMMA ReportReadStep ==
    ASSUME RegistryInv, NEW r \in Requests, NEW c \in Consumers, NEW mark \in Positions \cup {0},
           ReportRead(r, c, mark)
    PROVE  RegistryInv'
<1>1. consumer[c].writings \in Nat /\ mark \in Nat
      /\ consumer[c].state = "active" /\ consumer[c].mark # NoMark
  BY RegistryAssumption DEF RegistryInv, RegistryTypeOK, ConsumerRecords, ReportRead, IsActive, Positions
<1>2. PICK n \in RequestRecords :
        /\ request' = [request EXCEPT ![r] = n]
        /\ n.step = "report" /\ n.of = c /\ n.writings = consumer[c].writings
  <2> DEFINE n == [Idle EXCEPT !.step = "report", !.of = c, !.mark = mark,
                               !.writings = consumer[c].writings]
  <2>1. n \in RequestRecords /\ n.step = "report" /\ n.of = c /\ n.writings = consumer[c].writings
    BY <1>1 DEF RequestRecords, Idle, Kinds
  <2>2. request' = [request EXCEPT ![r] = n]
    BY DEF ReportRead
  <2> HIDE DEF n
  <2> QED
    BY <2>1, <2>2
<1>3. RequestHolds(n)
  BY <1>1, <1>2 DEF RequestHolds
<1> QED
  BY <1>2, <1>3, ReadKeeps DEF ReportRead

(* A waiver reads a consumer that does not enforce. *)
LEMMA WaiveReadStep ==
    ASSUME RegistryInv, NEW r \in Requests, NEW c \in Consumers, NEW p \in Positions,
           WaiveRead(r, c, p)
    PROVE  RegistryInv'
<1>1. consumer[c].writings \in Nat /\ p \in Nat /\ ~IsActive(c)
  BY RegistryAssumption DEF RegistryInv, RegistryTypeOK, ConsumerRecords, WaiveRead, MayWaive, Positions
<1>2. PICK n \in RequestRecords :
        /\ request' = [request EXCEPT ![r] = n]
        /\ n.step = "waiving" /\ n.of = c /\ n.mark = p /\ n.writings = consumer[c].writings
  <2> DEFINE n == [Idle EXCEPT !.step = "waiving", !.of = c, !.mark = p, !.writings = consumer[c].writings]
  <2>1. n \in RequestRecords /\ n.step = "waiving" /\ n.of = c /\ n.mark = p
        /\ n.writings = consumer[c].writings
    BY <1>1, MarksAre DEF RequestRecords, Idle, Kinds
  <2>2. request' = [request EXCEPT ![r] = n]
    BY DEF WaiveRead
  <2> HIDE DEF n
  <2> QED
    BY <2>1, <2>2
<1>3. RequestHolds(n)
  BY <1>1, <1>2 DEF RequestHolds, Fresh
<1> QED
  BY <1>2, <1>3, ReadKeeps DEF WaiveRead

(* A bootstrap's model holds what its snapshot held. *)
LEMMA BootstrapReadStep ==
    ASSUME RegistryInv, NEW r \in Requests, BootstrapRead(r)
    PROVE  RegistryInv'
<1>1. PICK q \in RequestRecords : q = request[r]
  BY DEF RegistryInv, RegistryTypeOK
<1>2. q.step = "snapshot" /\ RequestHolds(q)
  BY <1>1 DEF BootstrapRead, RegistryInv, InFlight
<1>3. PICK c \in Consumers : c = q.of
  BY <1>2 DEF RequestHolds
<1>4. /\ model' = [model EXCEPT ![c] = model[c] \cup q.holds] /\ q.holds \in SUBSET Positions
      /\ UNCHANGED <<stream, consumer, owed, dead>>
      /\ consumer[c].mark \in Marks /\ consumer[c].writings \in Nat
  BY <1>1, <1>3 DEF BootstrapRead, RequestRecords, RegistryInv, RegistryTypeOK, ConsumerRecords
<1>5. PICK n \in RequestRecords :
        /\ request' = [request EXCEPT ![r] = n]
        /\ \/ n = Idle
           \/ /\ n.step = "bootstrap" /\ n.of = c /\ n.writings = q.writings
              /\ n.kind = q.kind
  <2> DEFINE n == [q EXCEPT !.step = "bootstrap"]
  <2>1. n \in RequestRecords /\ n.step = "bootstrap" /\ n.of = c /\ n.writings = q.writings
        /\ n.kind = q.kind
    BY <1>3, <1>4 DEF RequestRecords
  <2>2. request' = [request EXCEPT ![r] = IF IsActive(c) /\ NotBelow(q.mark, consumer[c].mark)
                                          THEN n ELSE Idle]
    BY <1>1, <1>3 DEF BootstrapRead
  <2> HIDE DEF n
  <2>3. CASE IsActive(c) /\ NotBelow(q.mark, consumer[c].mark)
    BY <2>1, <2>2, <2>3
  <2>4. CASE ~(IsActive(c) /\ NotBelow(q.mark, consumer[c].mark))
    BY <2>2, <2>4, IdleHolds
  <2> QED
    BY <2>3, <2>4
<1>6. RegistryTypeOK'
  BY <1>4, <1>5 DEF RegistryInv, RegistryTypeOK
<1>7. model'[c] = model[c] \cup q.holds /\ \A d \in Consumers : model[d] \subseteq model'[d]
  BY <1>4 DEF RegistryInv, RegistryTypeOK
<1>8. ASSUME NEW d \in Consumers PROVE AccountsKept(d)
  BY <1>4, <1>7 DEF AccountsKept, Traced
<1>9. \A d \in Consumers : RowMoves(d) /\ ConsumerHolds(d)' /\ consumer'[d].writings \in Nat
  BY <1>4, <1>6, <1>8, RowKept DEF RegistryTypeOK, ConsumerRecords
<1>10. Covered(c, {q.kind}, q.holds) => Covered(c, {q.kind}, {})'
  BY <1>4, <1>7 DEF Covered, Traced, Due, ShownWhole, ProviderEventTypes
<1>11. RequestHolds(n)'
  <2>1. CASE n = Idle
    BY <2>1, IdleHolds
  <2>2. CASE n # Idle
    <3>1. n.step = "bootstrap" /\ n.of = c /\ n.writings = q.writings /\ n.kind = q.kind
      BY <1>5, <2>2
    <3>2. /\ q.writings <= consumer'[c].writings /\ consumer'[c].state # "none"
          /\ Fresh(n)' => Covered(c, {q.kind}, q.holds)
      BY <1>2, <1>3, <1>4, <3>1 DEF RequestHolds, Fresh, IsActive
    <3> QED
      BY <1>10, <3>1, <3>2 DEF RequestHolds
  <2> QED
    BY <2>1, <2>2
<1>12. (\A p \in InFlight : RequestHolds(p))'
  BY <1>5, <1>9, <1>11, OneMoves, RequestsKept
<1>13. ASSUME NEW d \in Consumers, NEW p \in Positions PROVE IncidentHolds(d, p)'
  BY <1>4, <1>7, <1>9, IncidentKept
<1> QED
  BY <1>6, <1>9, <1>12, <1>13 DEF RegistryInv

(* A waiver is granted on the row it read; its consumer may have been revived since. *)
LEMMA WaiveWriteStep ==
    ASSUME RegistryInv, NEW r \in Requests, WaiveWrite(r)
    PROVE  RegistryInv'
<1>1. PICK q \in RequestRecords : q = request[r]
  BY DEF RegistryInv, RegistryTypeOK
<1>2. q.step = "waiving" /\ RequestHolds(q)
  BY <1>1 DEF WaiveWrite, RegistryInv, InFlight
<1>3. PICK c \in Consumers, s \in Positions : c = q.of /\ s = q.mark
  BY <1>2 DEF RequestHolds
<1>4. /\ UNCHANGED <<stream, consumer, model, owed>>
      /\ request' = [request EXCEPT ![r] = Idle]
  BY DEF WaiveWrite
<1>5. /\ q.writings <= consumer[c].writings
      /\ IsActive(c) => q.writings # consumer[c].writings
      /\ q.writings \in Nat /\ consumer[c].writings \in Nat
  BY <1>2, <1>3 DEF RequestHolds, Fresh, RequestRecords, RegistryInv, RegistryTypeOK, ConsumerRecords
<1>6. dead \in [Consumers \X Positions -> IncidentRecords] /\ <<c, s>> \in Consumers \X Positions
      /\ dead[<<c, s>>] \in IncidentRecords
  BY DEF RegistryInv, RegistryTypeOK
<1>7. PICK n \in IncidentRecords :
        /\ dead' = [dead EXCEPT ![<<c, s>>] = n]
        /\ n.state = dead[<<c, s>>].state /\ n.applied = dead[<<c, s>>].applied
        /\ n = dead[<<c, s>>] \/ (n.waived /\ n.read = q.writings)
  <2> DEFINE n == [dead[<<c, s>>] EXCEPT !.waived = TRUE, !.read = q.writings]
  <2>1. n \in IncidentRecords /\ n.state = dead[<<c, s>>].state /\ n.applied = dead[<<c, s>>].applied
        /\ n.waived /\ n.read = q.writings
    BY <1>5, <1>6 DEF IncidentRecords
  <2>2. dead' = IF dead[<<c, s>>].state = "open" THEN [dead EXCEPT ![<<c, s>>] = n] ELSE dead
    BY <1>1, <1>3 DEF WaiveWrite
  <2> HIDE DEF n
  <2>3. CASE dead[<<c, s>>].state = "open"
    BY <2>1, <2>2, <2>3
  <2>4. CASE dead[<<c, s>>].state # "open"
    <3>1. dead' = [dead EXCEPT ![<<c, s>>] = dead[<<c, s>>]]
      BY <1>6, <2>2, <2>4
    <3> QED
      BY <1>6, <3>1
  <2> QED
    BY <2>3, <2>4
<1>8. /\ dead' \in [Consumers \X Positions -> IncidentRecords] /\ dead'[<<c, s>>] = n
      /\ \A d \in Consumers, p \in Positions :
            <<d, p>> # <<c, s>> => dead'[<<d, p>>] = dead[<<d, p>>]
  BY <1>7, OneIncident
<1>9. RegistryTypeOK'
  BY <1>4, <1>8, IdleHolds DEF RegistryInv, RegistryTypeOK
<1>10. ASSUME NEW d \in Consumers, NEW p \in Positions
       PROVE  Traced(d, p) => Traced(d, p)'
  <2>1. CASE <<d, p>> = <<c, s>>
    BY <1>4, <1>7, <1>8, <2>1 DEF Traced
  <2>2. CASE <<d, p>> # <<c, s>>
    BY <1>4, <1>8, <2>2 DEF Traced
  <2> QED
    BY <2>1, <2>2
<1>11. \A d \in Consumers : AccountsKept(d)
  BY <1>4, <1>10 DEF AccountsKept
<1>12. \A d \in Consumers : RowMoves(d) /\ ConsumerHolds(d)' /\ consumer'[d].writings \in Nat
  BY <1>4, <1>9, <1>11, RowKept DEF RegistryTypeOK, ConsumerRecords
<1>13. (\A p \in InFlight : RequestHolds(p))'
  BY <1>4, <1>12, OneMoves, RequestsKept, IdleHolds
<1>14. ASSUME NEW d \in Consumers, NEW p \in Positions PROVE IncidentHolds(d, p)'
  <2>1. CASE dead'[<<d, p>>] = dead[<<d, p>>]
    BY <1>4, <1>12, <2>1, IncidentKept
  <2>2. CASE dead'[<<d, p>>] # dead[<<d, p>>]
    <3>1. d = c /\ p = s /\ n.waived /\ n.read = q.writings
      BY <1>7, <1>8, <2>2
    <3>2. dead[<<c, s>>].applied => s \in model[c]
      BY DEF RegistryInv, IncidentHolds
    <3> QED
      BY <1>4, <1>5, <1>7, <1>8, <3>1, <3>2 DEF IncidentHolds, IsActive
  <2> QED
    BY <2>1, <2>2
<1> QED
  BY <1>9, <1>12, <1>13, <1>14 DEF RegistryInv

-----------------------------------------------------------------------------
(* Steps that write a consumer's row. *)

(* One row is written; every request, incident and other row keeps what is said of it. *)
LEMMA WriteKeeps ==
    ASSUME RegistryInv, RegistryTypeOK', NEW c \in Consumers,
           RowMoves(c), ConsumerHolds(c)',
           \A d \in Consumers : d # c => consumer'[d] = consumer[d],
           \A d \in Consumers : d # c => AccountsKept(d),
           UNCHANGED <<stream, model, dead>>,
           \A q \in InFlight' : q = Idle \/ q \in InFlight
    PROVE  RegistryInv'
<1>1. \A d \in Consumers : RowMoves(d) /\ ConsumerHolds(d)' /\ consumer'[d].writings \in Nat
  BY RowKept DEF RegistryTypeOK, ConsumerRecords
<1>2. (\A q \in InFlight : RequestHolds(q))'
  BY <1>1, IdleHolds, RequestsKept
<1>3. ASSUME NEW d \in Consumers, NEW p \in Positions PROVE IncidentHolds(d, p)'
  BY <1>1, IncidentKept
<1> QED
  BY <1>1, <1>2, <1>3 DEF RegistryInv

(* Rows aside, nothing that accounts for an event was touched. *)
LEMMA NothingElse ==
    ASSUME UNCHANGED <<stream, model, owed, dead>>
    PROVE  /\ \A d \in Consumers : AccountsKept(d)
           /\ UNCHANGED request => \A q \in InFlight' : q = Idle \/ q \in InFlight
<1>1. \A d \in Consumers : AccountsKept(d)
  BY DEF AccountsKept, Traced
<1>2. UNCHANGED request => \A q \in InFlight' : q = Idle \/ q \in InFlight
  BY DEF InFlight
<1> QED
  BY <1>1, <1>2

(* A written subscription keeps the row's progress; resetting it drops that. *)
LEMMA SubscribedForm ==
    ASSUME NEW row \in ConsumerRecords, NEW types \in SUBSET Types
    PROVE  LET n == Subscribed(row, types) IN
           /\ n \in ConsumerRecords /\ n.state = "active" /\ n.types = types
           /\ n.writings = row.writings + 1 /\ n.mark = row.mark /\ n.reported = row.reported
           /\ n.before = Committed /\ n.kinds = row.kinds /\ n.overlapped = row.overlapped
<1> Committed \in SUBSET Positions
  BY DEF Committed
<1> row.writings + 1 \in Nat
  BY DEF ConsumerRecords
<1> QED
  BY DEF ConsumerRecords, Subscribed

(* Progress reset is progress not begun. *)
LEMMA ResetForm ==
    ASSUME NEW row \in ConsumerRecords
    PROVE  LET n == ResetProgress(row) IN
           /\ n \in ConsumerRecords /\ n.state = row.state /\ n.writings = row.writings
           /\ n.mark = NoMark /\ n.reported = NoMark /\ n.kinds = {} /\ n.before = row.before
  BY MarksAre DEF ConsumerRecords, ResetProgress

(* A subscription just written is owed nothing yet. *)
LEMMA NewlyCovered ==
    ASSUME NEW c \in Consumers, consumer'[c].before = Committed, UNCHANGED stream
    PROVE  /\ Covered(c, {}, {})'
           /\ consumer'[c].kinds = {} => Covered(c, consumer[c].kinds, {})'
  BY DEF Covered, Due, ShownWhole, Committed

(* A registration of a known consumer begins its progress anew. *)
LEMMA RegisterStep ==
    ASSUME RegistryInv, NEW c \in Consumers, NEW types \in SUBSET Types, Register(c, types)
    PROVE  RegistryInv'
<1>1. consumer[c] \in ConsumerRecords /\ consumer \in [Consumers -> ConsumerRecords]
  BY DEF RegistryInv, RegistryTypeOK
<1>2. PICK n \in ConsumerRecords :
        /\ consumer' = [consumer EXCEPT ![c] = n]
        /\ n.state = "active" /\ n.mark = NoMark /\ n.reported = NoMark
        /\ n.writings = consumer[c].writings + 1 /\ n.kinds = {} /\ n.before = Committed
  <2> DEFINE n == ResetProgress(Subscribed(consumer[c], types))
  <2>1. n \in ConsumerRecords /\ n.state = "active" /\ n.mark = NoMark /\ n.reported = NoMark
        /\ n.writings = consumer[c].writings + 1 /\ n.kinds = {} /\ n.before = Committed
    BY <1>1, SubscribedForm, ResetForm
  <2>2. consumer' = [consumer EXCEPT ![c] = n]
    BY DEF Register
  <2> HIDE DEF n
  <2> QED
    BY <2>1, <2>2
<1>3. consumer'[c] = n /\ \A d \in Consumers : d # c => consumer'[d] = consumer[d]
  BY <1>1, <1>2
<1>4. RegistryTypeOK'
  BY <1>2 DEF RegistryInv, RegistryTypeOK, Register
<1>5. Covered(c, {}, {})' /\ Covered(c, consumer[c].kinds, {})'
  BY <1>2, <1>3, NewlyCovered DEF Register
<1>6. RowMoves(c) /\ ConsumerHolds(c)'
  BY <1>1, <1>2, <1>3, <1>5 DEF RowMoves, ConsumerHolds, IsActive, ConsumerRecords
<1> QED
  BY <1>3, <1>4, <1>6, NothingElse, WriteKeeps DEF Register

(* Retirement takes the subscription and what was owed; no other consumer's. *)
LEMMA RetireStep ==
    ASSUME RegistryInv, NEW c \in Consumers, Retire(c)
    PROVE  RegistryInv'
<1>1. consumer[c] \in ConsumerRecords /\ consumer \in [Consumers -> ConsumerRecords]
  BY DEF RegistryInv, RegistryTypeOK
<1>2. /\ consumer'[c].state = "retired" /\ consumer'[c].writings = consumer[c].writings
      /\ \A d \in Consumers : d # c => consumer'[d] = consumer[d]
      /\ consumer' \in [Consumers -> ConsumerRecords]
  BY <1>1 DEF Retire, ConsumerRecords
<1>3. UNCHANGED <<stream, model, dead, request>> /\ owed' \subseteq owed
      /\ \A d \in Consumers, p \in Positions : d # c /\ <<d, p>> \in owed => <<d, p>> \in owed'
  BY DEF Retire
<1>4. RegistryTypeOK'
  BY <1>2, <1>3 DEF RegistryInv, RegistryTypeOK
<1>5. RowMoves(c) /\ ConsumerHolds(c)'
  BY <1>1, <1>2 DEF RowMoves, ConsumerHolds, IsActive, ConsumerRecords
<1>6. ASSUME NEW d \in Consumers, d # c PROVE AccountsKept(d)
  BY <1>3, <1>6 DEF AccountsKept, Traced
<1>7. \A q \in InFlight' : q = Idle \/ q \in InFlight
  BY <1>3 DEF InFlight
<1> QED
  BY <1>2, <1>3, <1>4, <1>5, <1>6, <1>7, WriteKeeps

(* A first registration that was overtaken marks the progress it keeps. *)
LEMMA RegisterWriteStep ==
    ASSUME RegistryInv, NEW r \in Requests, RegisterWrite(r)
    PROVE  RegistryInv'
<1>1. PICK q \in RequestRecords : q = request[r]
  BY DEF RegistryInv, RegistryTypeOK
<1>2. q.step = "registering" /\ RequestHolds(q)
  BY <1>1 DEF RegisterWrite, RegistryInv, InFlight
<1>3. PICK c \in Consumers : c = q.of
  BY <1>2 DEF RequestHolds
<1>4. consumer[c] \in ConsumerRecords /\ consumer \in [Consumers -> ConsumerRecords] /\ ConsumerHolds(c)
      /\ q.types \in SUBSET Types
  BY DEF RegistryInv, RegistryTypeOK, RequestRecords
<1>5. PICK n \in ConsumerRecords :
        /\ consumer' = [consumer EXCEPT ![c] = n]
        /\ n.state = "active" /\ n.mark = consumer[c].mark /\ n.reported = consumer[c].reported
        /\ n.writings = consumer[c].writings + 1
        /\ n.before = Committed /\ n.kinds = consumer[c].kinds
        /\ consumer[c].state # "none" => n.overlapped = {"mark", "report"}
  <2> DEFINE o == IF consumer[c].state = "none" THEN {} ELSE {"mark", "report"}
             n == [Subscribed(consumer[c], q.types) EXCEPT !.overlapped = o]
  <2>1. consumer' = [consumer EXCEPT ![c] = n]
    BY <1>1, <1>3 DEF RegisterWrite
  <2>2. o \in SUBSET {"mark", "report"} /\ (consumer[c].state # "none" => o = {"mark", "report"})
    OBVIOUS
  <2> HIDE DEF o
  <2>3. PICK s \in ConsumerRecords : s = Subscribed(consumer[c], q.types)
    BY <1>4, SubscribedForm
  <2>4. s.state = "active" /\ s.mark = consumer[c].mark /\ s.reported = consumer[c].reported
        /\ s.writings = consumer[c].writings + 1
        /\ s.before = Committed /\ s.kinds = consumer[c].kinds
    BY <1>4, <2>3, SubscribedForm
  <2>5. n \in ConsumerRecords /\ n.state = s.state /\ n.mark = s.mark /\ n.reported = s.reported
        /\ n.writings = s.writings /\ n.overlapped = o /\ n.before = s.before /\ n.kinds = s.kinds
    BY <2>2, <2>3 DEF ConsumerRecords
  <2> HIDE DEF n
  <2> QED
    BY <2>1, <2>2, <2>4, <2>5
<1>6. consumer'[c] = n /\ \A d \in Consumers : d # c => consumer'[d] = consumer[d]
  BY <1>4, <1>5
<1>7. UNCHANGED <<stream, model, owed, dead>> /\ request' = [request EXCEPT ![r] = Idle]
  BY DEF RegisterWrite
<1>8. RegistryTypeOK'
  BY <1>4, <1>5, <1>7, IdleHolds DEF RegistryInv, RegistryTypeOK
<1>9. Covered(c, {}, {})' /\ (consumer'[c].kinds = {} => Covered(c, consumer[c].kinds, {})')
  BY <1>5, <1>6, <1>7, NewlyCovered
<1>10. RowMoves(c) /\ ConsumerHolds(c)'
  BY <1>4, <1>5, <1>6, <1>9 DEF RowMoves, ConsumerHolds, IsActive, ConsumerRecords
<1> QED
  BY <1>6, <1>7, <1>8, <1>10, NothingElse, OneMoves, WriteKeeps

(* The mark a bootstrap writes is true, or is marked as overlapped. *)
LEMMA BootstrapWriteStep ==
    ASSUME RegistryInv, NEW r \in Requests, BootstrapWrite(r)
    PROVE  RegistryInv'
<1>1. PICK q \in RequestRecords : q = request[r]
  BY DEF RegistryInv, RegistryTypeOK
<1>2. q.step = "bootstrap" /\ RequestHolds(q)
  BY <1>1 DEF BootstrapWrite, RegistryInv, InFlight
<1>3. PICK c \in Consumers : c = q.of
  BY <1>2 DEF RequestHolds
<1>4. /\ consumer[c] \in ConsumerRecords /\ consumer \in [Consumers -> ConsumerRecords]
      /\ ConsumerHolds(c) /\ {q.mark} \in Marks /\ {q.mark} # NoMark
      /\ consumer[c].overlapped \in SUBSET {"mark", "report"} /\ consumer[c].writings \in Nat
      /\ consumer[c].state # "none"
  BY <1>2, <1>3, MarksAre DEF RegistryInv, RegistryTypeOK, RequestRecords, ConsumerRecords, RequestHolds
<1>5. PICK o \in SUBSET {"mark", "report"} :
        /\ o = Overlapped(q, "mark", consumer[c])
        /\ "report" \in o <=> "report" \in consumer[c].overlapped
        /\ "mark" \notin o => q.writings = consumer[c].writings
  BY <1>4 DEF Overlapped
<1>6. PICK k \in SUBSET Kinds :
        /\ k = Recorded(q, consumer[c])
        /\ "mark" \notin o /\ "mark" \in consumer[c].overlapped => k = {q.kind}
        /\ "mark" \notin o /\ "mark" \notin consumer[c].overlapped => k = consumer[c].kinds \cup {q.kind}
  <2>1. q.kind \in Kinds /\ consumer[c].kinds \in SUBSET Kinds
    BY <1>4 DEF RequestRecords, ConsumerRecords
  <2>2. CASE q.writings # consumer[c].writings
    <3>1. Recorded(q, consumer[c]) = consumer[c].kinds
      BY <2>2 DEF Recorded
    <3> QED
      BY <1>5, <2>1, <2>2, <3>1
  <2>3. CASE q.writings = consumer[c].writings /\ "mark" \in consumer[c].overlapped
    <3>1. Recorded(q, consumer[c]) = {q.kind}
      BY <2>3 DEF Recorded
    <3> QED
      BY <2>1, <2>3, <3>1
  <2>4. CASE q.writings = consumer[c].writings /\ "mark" \notin consumer[c].overlapped
    <3>1. Recorded(q, consumer[c]) = consumer[c].kinds \cup {q.kind}
      BY <2>4 DEF Recorded
    <3> QED
      BY <2>1, <2>4, <3>1
  <2> QED
    BY <2>2, <2>3, <2>4
<1>7. PICK n \in ConsumerRecords :
        /\ n = [consumer[c] EXCEPT !.mark = {q.mark}, !.kinds = k, !.overlapped = o]
        /\ n.state = consumer[c].state /\ n.types = consumer[c].types
        /\ n.writings = consumer[c].writings /\ n.before = consumer[c].before /\ n.kinds = k
        /\ n.mark = {q.mark} /\ n.reported = consumer[c].reported /\ n.overlapped = o
  <2> DEFINE n == [consumer[c] EXCEPT !.mark = {q.mark}, !.kinds = k, !.overlapped = o]
  <2>1. n = [consumer[c] EXCEPT !.mark = {q.mark}, !.kinds = k, !.overlapped = o]
    OBVIOUS
  <2> HIDE DEF n
  <2>2. /\ n \in ConsumerRecords /\ n.state = consumer[c].state /\ n.types = consumer[c].types
        /\ n.writings = consumer[c].writings /\ n.before = consumer[c].before /\ n.kinds = k
        /\ n.mark = {q.mark} /\ n.reported = consumer[c].reported /\ n.overlapped = o
    BY <1>4, <2>1 DEF ConsumerRecords
  <2> QED
    BY <2>1, <2>2
<1>8. consumer' = [consumer EXCEPT ![c] = n]
  BY <1>1, <1>3, <1>5, <1>6, <1>7 DEF BootstrapWrite
<1>9. consumer'[c] = n /\ \A d \in Consumers : d # c => consumer'[d] = consumer[d]
  BY <1>4, <1>8
<1>10. UNCHANGED <<stream, model, owed, dead>> /\ request' = [request EXCEPT ![r] = Idle]
  BY DEF BootstrapWrite
<1>11. RegistryTypeOK'
  BY <1>4, <1>8, <1>10, IdleHolds DEF RegistryInv, RegistryTypeOK
<1>12. \A j, h : Covered(c, j, h) => Covered(c, j, h)'
  BY <1>7, <1>9, <1>10, NothingElse, CoverKept
<1>13. RowMoves(c)
  BY <1>4, <1>7, <1>9, <1>12 DEF RowMoves
<1>14. ConsumerHolds(c)'
  <2>1. consumer[c].state = "active" /\ "mark" \notin o => Covered(c, {q.kind}, {})
    BY <1>2, <1>3, <1>5 DEF RequestHolds, Fresh, IsActive
  <2>2. consumer[c].state = "active" /\ "mark" \notin o => Covered(c, k, {})
    BY <1>4, <1>6, <2>1, CoverUnion DEF ConsumerHolds, IsActive
  <2>3. "mark" \notin o => k # {}
    BY <1>6
  <2> QED
    BY <1>4, <1>5, <1>7, <1>9, <1>12, <2>2, <2>3 DEF ConsumerHolds, IsActive
<1> QED
  BY <1>9, <1>10, <1>11, <1>13, <1>14, NothingElse, OneMoves, WriteKeeps

(* The position a report writes stands beside a mark, or is marked as overlapped. *)
LEMMA ReportWriteStep ==
    ASSUME RegistryInv, NEW r \in Requests, ReportWrite(r)
    PROVE  RegistryInv'
<1>1. PICK q \in RequestRecords : q = request[r]
  BY DEF RegistryInv, RegistryTypeOK
<1>2. q.step = "report" /\ RequestHolds(q)
  BY <1>1 DEF ReportWrite, RegistryInv, InFlight
<1>3. PICK c \in Consumers : c = q.of
  BY <1>2 DEF RequestHolds
<1>4. /\ consumer[c] \in ConsumerRecords /\ consumer \in [Consumers -> ConsumerRecords]
      /\ ConsumerHolds(c) /\ {q.mark} \in Marks
      /\ consumer[c].overlapped \in SUBSET {"mark", "report"} /\ consumer[c].writings \in Nat
      /\ consumer[c].state # "none"
  BY <1>2, <1>3, MarksAre DEF RegistryInv, RegistryTypeOK, RequestRecords, ConsumerRecords, RequestHolds
<1>5. PICK o \in SUBSET {"mark", "report"} :
        /\ o = Overlapped(q, "report", consumer[c])
        /\ "mark" \in o <=> "mark" \in consumer[c].overlapped
        /\ "report" \notin o => q.writings = consumer[c].writings
  BY <1>4 DEF Overlapped
<1>6. PICK n \in ConsumerRecords :
        /\ n = [consumer[c] EXCEPT !.reported = {q.mark}, !.overlapped = o]
        /\ n.state = consumer[c].state /\ n.types = consumer[c].types
        /\ n.writings = consumer[c].writings /\ n.before = consumer[c].before /\ n.kinds = consumer[c].kinds
        /\ n.mark = consumer[c].mark /\ n.reported = {q.mark} /\ n.overlapped = o
  <2> DEFINE n == [consumer[c] EXCEPT !.reported = {q.mark}, !.overlapped = o]
  <2>1. n = [consumer[c] EXCEPT !.reported = {q.mark}, !.overlapped = o]
    OBVIOUS
  <2> HIDE DEF n
  <2>2. /\ n \in ConsumerRecords /\ n.state = consumer[c].state /\ n.types = consumer[c].types
        /\ n.writings = consumer[c].writings /\ n.before = consumer[c].before /\ n.kinds = consumer[c].kinds
        /\ n.mark = consumer[c].mark /\ n.reported = {q.mark} /\ n.overlapped = o
    BY <1>4, <2>1 DEF ConsumerRecords
  <2> QED
    BY <2>1, <2>2
<1>7. consumer' = [consumer EXCEPT ![c] = n]
  BY <1>1, <1>3, <1>5, <1>6 DEF ReportWrite
<1>8. consumer'[c] = n /\ \A d \in Consumers : d # c => consumer'[d] = consumer[d]
  BY <1>4, <1>7
<1>9. UNCHANGED <<stream, model, owed, dead>> /\ request' = [request EXCEPT ![r] = Idle]
  BY DEF ReportWrite
<1>10. RegistryTypeOK'
  BY <1>4, <1>7, <1>9, IdleHolds DEF RegistryInv, RegistryTypeOK
<1>11. \A j, h : Covered(c, j, h) => Covered(c, j, h)'
  BY <1>6, <1>8, <1>9, NothingElse, CoverKept
<1>12. RowMoves(c)
  BY <1>4, <1>6, <1>8, <1>11 DEF RowMoves
<1>13. ConsumerHolds(c)'
  <2>1. consumer[c].state = "active" /\ "report" \notin o => consumer[c].mark # NoMark
    BY <1>2, <1>3, <1>5 DEF RequestHolds, Fresh, IsActive
  <2> QED
    BY <1>4, <1>5, <1>6, <1>8, <1>11, <2>1 DEF ConsumerHolds, IsActive
<1> QED
  BY <1>8, <1>9, <1>10, <1>12, <1>13, NothingElse, OneMoves, WriteKeeps

-----------------------------------------------------------------------------
(* The invariant holds at first. *)
LEMMA RegistryInvInit == RegistryInit => RegistryInv
<1> SUFFICES ASSUME RegistryInit PROVE RegistryInv
  OBVIOUS
<1>1. NoConsumer \in ConsumerRecords /\ NoIncident \in IncidentRecords
  BY MarksAre DEF ConsumerRecords, IncidentRecords, NoConsumer, NoIncident
<1>2. RegistryTypeOK
  BY <1>1, IdleHolds DEF RegistryInit, RegistryTypeOK
<1>3. \A q \in InFlight : RequestHolds(q)
  <2>1. \A q \in InFlight : q = Idle
    BY DEF InFlight, RegistryInit
  <2> QED
    BY <2>1, IdleHolds
<1>4. \A c \in Consumers : ConsumerHolds(c)
  BY DEF RegistryInit, ConsumerHolds, IsActive, NoConsumer, Covered
<1>5. ASSUME NEW c \in Consumers, NEW p \in Positions PROVE IncidentHolds(c, p)
  <2>1. dead[<<c, p>>] = NoIncident
    BY DEF RegistryInit
  <2> QED
    BY <2>1 DEF IncidentHolds, NoIncident
<1> QED
  BY <1>2, <1>3, <1>4, <1>5 DEF RegistryInv

(* Every step keeps the invariant. *)
LEMMA RegistryInvStep == RegistryInv /\ [RegistryNext]_registryVars => RegistryInv'
<1> SUFFICES ASSUME RegistryInv, [RegistryNext]_registryVars PROVE RegistryInv'
  OBVIOUS
<1>1. CASE UNCHANGED registryVars
  <2>1. UNCHANGED <<stream, consumer, model, owed, dead, request>>
    BY <1>1 DEF registryVars
  <2>2. RegistryTypeOK'
    BY <2>1 DEF RegistryInv, RegistryTypeOK
  <2>3. \A c \in Consumers : AccountsKept(c) /\ IncidentsQuiet(c)
    BY <2>1 DEF AccountsKept, Traced, IncidentsQuiet
  <2> QED
    BY <2>1, <2>2, <2>3, EnvironmentKeeps
<1>2. CASE \E p \in Positions, t \in Types : CommitEvent(p, t)
  BY <1>2, CommitStep
<1>3. ASSUME NEW c \in Consumers, NEW p \in Positions,
             Deliver(c, p) \/ DeadLetter(c, p) \/ Replay(c, p) \/ Resolve(c, p) \/ WaiverExpires(c, p)
      PROVE  RegistryInv'
  BY <1>3, DeliverStep, DeadLetterStep, ReplayStep, CloseStep
<1>4. CASE \E c \in Consumers : Retire(c)
  BY <1>4, RetireStep
<1>5. ASSUME NEW c \in Consumers, NEW types \in SUBSET Types \ {{}},
             Register(c, types) \/ \E r \in Requests : RegisterRead(r, c, types)
      PROVE  RegistryInv'
  BY <1>5, RegisterStep, RegisterReadStep
<1>6. ASSUME NEW r \in Requests,
             RegisterWrite(r) \/ BootstrapRead(r) \/ BootstrapWrite(r) \/ ReportWrite(r) \/ WaiveWrite(r)
      PROVE  RegistryInv'
  BY <1>6, RegisterWriteStep, BootstrapReadStep, BootstrapWriteStep, ReportWriteStep, WaiveWriteStep
<1>7. ASSUME NEW r \in Requests, NEW c \in Consumers,
             \/ (\E tenants \in SUBSET Positions : Snapshot(r, c, tenants)) \/ ProviderSnapshot(r, c)
             \/ \E mark \in Positions \cup {0} : ReportRead(r, c, mark)
             \/ \E p \in Positions : WaiveRead(r, c, p)
      PROVE  RegistryInv'
  BY <1>7, SnapshotStep, ReportReadStep, WaiveReadStep
<1>8. CASE \E r \in Requests, more \in SUBSET Positions : NextPage(r, more)
  BY <1>8, NextPageStep
<1> QED
  BY <1>1, <1>2, <1>3, <1>4, <1>5, <1>6, <1>7, <1>8 DEF RegistryNext

(* A request relies only on what is still true, and no progress, incident or waiver says *)
(* more than is, whatever consumers, positions and requests there are.                   *)
THEOREM RegistryInvariant == RegistrySpec => []RegistryInv
  BY RegistryInvInit, RegistryInvStep, PTL DEF RegistrySpec

(* BelievedOnlyWhenComplete: what committed under a consumer's subscription is in its    *)
(* model, owed, or its debt, beside a mark so is what the snapshots recorded under it    *)
(* show whole, and a reported position stands beside a mark, unless the request that     *)
(* wrote it had read an older subscription (RecordProgress, Bootstrap, FrontierFor).     *)
THEOREM ProgressIsBelieved == RegistrySpec => []BelievedOnlyWhenComplete
<1>1. RegistryInv => BelievedOnlyWhenComplete
  <2> SUFFICES ASSUME RegistryInv, NEW c \in Consumers, IsActive(c)
               PROVE  LET row == consumer[c]
                          mine == CommittedOf(row.types \cap AuthorityEventTypes) IN
                      /\ mine \ row.before \subseteq Accounted(c)
                      /\ row.mark # NoMark /\ "mark" \notin row.overlapped
                            => /\ row.kinds # {}
                               /\ mine \cap CommittedOf(ShownWhole(row.kinds)) \subseteq Accounted(c)
                      /\ row.reported # NoMark /\ "report" \notin row.overlapped => row.mark # NoMark
    BY DEF BelievedOnlyWhenComplete
  <2> DEFINE mine == CommittedOf(consumer[c].types \cap AuthorityEventTypes)
  <2>1. ConsumerHolds(c)
    BY DEF RegistryInv
  <2>2. ASSUME NEW p \in mine, Traced(c, p) PROVE p \in Accounted(c)
    <3>1. p \in Positions /\ p \in CommittedOf(AuthorityEventTypes)
      BY <2>2 DEF CommittedOf, Committed
    <3>2. /\ FrontierFor(c).owed = {x \in Positions : <<c, x>> \in owed}
          /\ FrontierFor(c).debt = {x \in CommittedOf(AuthorityEventTypes) : dead[<<c, x>>].state = "open"}
      BY DEF FrontierFor
    <3> QED
      BY <2>2, <3>1, <3>2 DEF Traced, Accounted
  <2>3. \A p \in mine : p \in Positions /\ stream[p] # NoOne /\ stream[p] \in consumer[c].types
    BY DEF CommittedOf, Committed
  <2>4. ASSUME NEW p \in mine \ consumer[c].before PROVE p \in Accounted(c)
    <3>1. Traced(c, p)
      BY <2>1, <2>3 DEF ConsumerHolds, Covered, Due
    <3> QED
      BY <2>2, <3>1
  <2>5. ASSUME "mark" \notin consumer[c].overlapped,
               NEW p \in mine \cap CommittedOf(ShownWhole(consumer[c].kinds))
        PROVE  p \in Accounted(c)
    <3>1. stream[p] \in ShownWhole(consumer[c].kinds)
      BY DEF CommittedOf
    <3>2. Traced(c, p)
      BY <2>1, <2>3, <2>5, <3>1 DEF ConsumerHolds, Covered, Due
    <3> QED
      BY <2>2, <3>2
  <2> QED
    BY <2>1, <2>4, <2>5 DEF ConsumerHolds
<1> QED
  BY <1>1, RegistryInvariant, PTL

(* WaivedOnlyIfRevived: an enforcing consumer's incident is silent only if the consumer  *)
(* was registered again after the waiver was decided (Waive reads, then writes).         *)
THEOREM WaiversPredateRevival == RegistrySpec => []WaivedOnlyIfRevived
<1>1. RegistryInv => WaivedOnlyIfRevived
  BY DEF RegistryInv, IncidentHolds, WaivedOnlyIfRevived
<1> QED
  BY <1>1, RegistryInvariant, PTL
===============================================================================
