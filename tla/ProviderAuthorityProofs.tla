----------------------- MODULE ProviderAuthorityProofs -----------------------
(***************************************************************************)
(* The safety properties of ProviderAuthority, proved for every number of  *)
(* people, grants, activations and requests in flight, every duration and  *)
(* lifetime, and processes of both approval policies beside each other.    *)
(*                                                                         *)
(* What a transaction counted or read in its first step is still so in its *)
(* second only where it holds the row: the invariant says, for each kind   *)
(* of request in flight, what its locks keep.                              *)
(***************************************************************************)
EXTENDS ProviderAuthority, FiniteSetTheorems, TLAPS

GrantRecords ==
    [state : {"none", "held", "revoked"}, principal : Principals \cup {NoOne}, scope : Scopes,
     kind : Kinds, version : Nat]

ActivationRecords ==
    [of : Grants \cup {NoOne}, decision : {"none", "pending", "approved", "denied", "lapsed"},
     requested : Nat, duration : Nat, ends : Nat, ended : BOOLEAN]

RequestRecords ==
    [step : {"idle", "admitted", "revoking", "requesting", "deciding"},
     by : Principals \cup {NoOne}, inForce : BOOLEAN, on : Grants \cup Activations \cup {NoOne},
     locked : SUBSET (Grants \cup Activations), at : Nat]

ProviderTypeOK ==
    /\ clock \in Nat
    /\ grant \in [Grants -> GrantRecords]
    /\ activation \in [Activations -> ActivationRecords]
    /\ \A e \in events : e.grant \in Grants /\ e.version \in Nat \ {0}
    /\ request \in [Requests -> RequestRecords]

(* A grant that was made has a principal; an activation is of a grant that was made. *)
RowsOK ==
    /\ \A g \in Grants : grant[g].state = "none" => grant[g] = NoGrant
    /\ \A g \in Grants : grant[g].state # "none" => grant[g].principal \in Principals
    /\ \A a \in Activations : activation[a].decision = "none" => activation[a] = NoActivation
    /\ \A a \in Activations : activation[a].decision # "none" =>
          activation[a].of \in Grants /\ grant[activation[a].of].state # "none"

(* Two requests never hold the same row. *)
LocksExclude ==
    \A r, q \in Requests : r # q => request[r].locked \cap request[q].locked = {}

(* Nobody is admitted before the first grant, and no transaction began in the future. *)
AdmittedLater ==
    \A r \in Requests : request[r].step # "idle" =>
        request[r].at <= clock /\ \E g \in Grants : grant[g].state # "none"

(* A revocation still holds what it counted: its grant, and for a governing one another. *)
RevokingHolds ==
    \A r \in Requests : request[r].step = "revoking" =>
        /\ request[r].on \in Grants /\ request[r].on \in request[r].locked
        /\ \A g \in Grants : g \in request[r].locked => Held(g)
        /\ grant[request[r].on].scope = Governing =>
              \E g \in Grants : /\ g \in request[r].locked /\ g # request[r].on
                                /\ grant[g].scope = Governing

(* A request for an activation holds its grant. *)
RequestingHolds ==
    \A r \in Requests : request[r].step = "requesting" =>
        /\ request[r].on \in Grants /\ request[r].on \in request[r].locked
        /\ grant[request[r].on].state # "none"

(* A decision holds its activation, which is still to be decided. *)
DecidingHolds ==
    \A r \in Requests : request[r].step = "deciding" =>
        /\ request[r].on \in Activations /\ request[r].on \in request[r].locked
        /\ activation[request[r].on].decision = "pending"

(* An unrevoked grant of this service's scope remains, once one was made. *)
GoverningHeld ==
    (\E g \in Grants : grant[g].state # "none") =>
        \E g \in Grants : Held(g) /\ grant[g].scope = Governing

LocksInv ==
    /\ ProviderTypeOK
    /\ RowsOK
    /\ LocksExclude
    /\ AdmittedLater
    /\ RevokingHolds
    /\ RequestingHolds
    /\ DecidingHolds
    /\ GoverningHeld

-----------------------------------------------------------------------------

(* Publishing advances one version and changes nothing else of the rows. *)
LEMMA PublishRows ==
    ASSUME NEW g \in Grants, NEW gs \in [Grants -> GrantRecords], NEW as, NEW at,
           Publish(g, gs, as, at),
           \A e \in events : e.grant \in Grants /\ e.version \in Nat \ {0}
    PROVE  /\ grant' \in [Grants -> GrantRecords]
           /\ \A h \in Grants : /\ grant'[h].state = gs[h].state
                                /\ grant'[h].principal = gs[h].principal
                                /\ grant'[h].scope = gs[h].scope
                                /\ h # g => grant'[h] = gs[h]
           /\ \A e \in events' : e.grant \in Grants /\ e.version \in Nat \ {0}
<1>1. CASE gs[g].scope \in PublishedScopes
  <2>1. gs[g].version \in Nat
    BY DEF GrantRecords
  <2>2. grant' = [gs EXCEPT ![g] = [gs[g] EXCEPT !.version = gs[g].version + 1]]
    BY <1>1 DEF Publish
  <2>3. [gs[g] EXCEPT !.version = gs[g].version + 1] \in GrantRecords
    BY <2>1 DEF GrantRecords
  <2>4. grant' \in [Grants -> GrantRecords]
    BY <2>2, <2>3
  <2>5. \A h \in Grants : h # g => grant'[h] = gs[h]
    BY <2>2
  <2>6. /\ grant'[g].state = gs[g].state /\ grant'[g].principal = gs[g].principal
        /\ grant'[g].scope = gs[g].scope
    BY <2>2 DEF GrantRecords
  <2>7. \A e \in events' : e.grant \in Grants /\ e.version \in Nat \ {0}
    <3> DEFINE new == [grant |-> g, version |-> gs[g].version + 1, says |-> Conferred(g, gs, as, at)]
    <3>1. events' = events \cup {new}
      BY <1>1 DEF Publish
    <3>2. new.grant = g /\ new.version = gs[g].version + 1
      OBVIOUS
    <3> HIDE DEF new
    <3> QED
      BY <2>1, <3>1, <3>2
  <2> QED
    BY <2>4, <2>5, <2>6, <2>7
<1>2. CASE gs[g].scope \notin PublishedScopes
  BY <1>2 DEF Publish
<1> QED
  BY <1>1, <1>2

(* The request and grant rows of each step have their types. *)
LEMMA RowUpdates ==
    /\ Idle \in RequestRecords /\ NoGrant \in GrantRecords /\ NoActivation \in ActivationRecords
    /\ \A p \in Principals, b \in BOOLEAN :
          [Idle EXCEPT !.step = "admitted", !.by = p, !.inForce = b] \in RequestRecords
    /\ \A q \in RequestRecords, s \in {"revoking", "requesting", "deciding"},
          o \in Grants \cup Activations, rows \in SUBSET (Grants \cup Activations), at \in Nat :
          [q EXCEPT !.step = s, !.on = o, !.locked = rows, !.at = at] \in RequestRecords
  BY DEF Idle, NoGrant, NoActivation, RequestRecords, GrantRecords, ActivationRecords, Scopes, Kinds

(* The initial states satisfy the invariant. *)
LEMMA LocksInit == ProviderInit => LocksInv
<1> SUFFICES ASSUME ProviderInit PROVE LocksInv
  OBVIOUS
<1>1. ProviderTypeOK
  BY RowUpdates DEF ProviderInit, ProviderTypeOK
<1>2. RowsOK /\ LocksExclude /\ AdmittedLater /\ RevokingHolds /\ RequestingHolds /\ DecidingHolds
  BY DEF ProviderInit, RowsOK, LocksExclude, AdmittedLater, RevokingHolds, RequestingHolds,
         DecidingHolds, NoGrant, NoActivation, Idle
<1>3. GoverningHeld
  BY DEF ProviderInit, GoverningHeld, NoGrant
<1> QED
  BY <1>1, <1>2, <1>3 DEF LocksInv

(* A transaction that commits keeps what the others hold: it makes no grant undone but    *)
(* the one it revokes, and decides no activation another has locked.                      *)
LEMMA CommitKeeps ==
    ASSUME LocksInv, NEW r \in Requests, request[r].step # "idle", Answer(r), clock' = clock,
           \A g \in Grants : grant[g].state # "none" =>
               grant'[g].state # "none" /\ grant'[g].scope = grant[g].scope,
           \A g \in Grants : grant[g].state = "held" /\ grant'[g].state # "held" =>
               request[r].step = "revoking" /\ g = request[r].on,
           \A a \in Activations :
               activation[a].decision = "pending" /\ activation'[a].decision # "pending" =>
                   \A q \in Requests \ {r} : a \notin request[q].locked
    PROVE  /\ LocksExclude' /\ AdmittedLater' /\ RevokingHolds' /\ RequestingHolds'
           /\ DecidingHolds' /\ GoverningHeld'
<1>1. /\ \A q \in Requests \ {r} : request'[q] = request[q]
      /\ request'[r].step = "idle" /\ request'[r].locked = {}
  BY DEF LocksInv, ProviderTypeOK, Answer, Idle
<1>2. LocksExclude'
  BY <1>1 DEF LocksInv, LocksExclude
<1>3. AdmittedLater'
  BY <1>1 DEF LocksInv, AdmittedLater
<1>4. \A q \in Requests \ {r} : request[q].step = "revoking" =>
         \A g \in Grants : g \in request[q].locked => grant[g].state = "held" /\ grant'[g].state = "held"
  BY DEF LocksInv, LocksExclude, RevokingHolds, Held
<1>5. RevokingHolds'
  BY <1>1, <1>4 DEF LocksInv, RevokingHolds, Held
<1>6. RequestingHolds'
  BY <1>1 DEF LocksInv, RequestingHolds
<1>7. DecidingHolds'
  BY <1>1 DEF LocksInv, DecidingHolds
<1>8. GoverningHeld'
  <2>1. PICK g \in Grants : grant[g].state = "held" /\ grant[g].scope = Governing
    BY DEF LocksInv, AdmittedLater, GoverningHeld, Held
  <2>2. CASE grant'[g].state = "held"
    BY <2>1, <2>2 DEF GoverningHeld, Held
  <2>3. CASE grant'[g].state # "held"
    <3>1. request[r].step = "revoking" /\ g = request[r].on
      BY <2>1, <2>3
    <3>2. PICK h \in Grants : h \in request[r].locked /\ h # g /\ grant[h].scope = Governing
      BY <2>1, <3>1 DEF LocksInv, RevokingHolds
    <3>3. grant[h].state = "held"
      BY <3>1, <3>2 DEF LocksInv, RevokingHolds, Held
    <3>4. grant'[h].state = "held" /\ grant'[h].scope = Governing
      BY <3>1, <3>2, <3>3
    <3> QED
      BY <3>4 DEF GoverningHeld, Held
  <2> QED
    BY <2>2, <2>3
<1> QED
  BY <1>2, <1>3, <1>5, <1>6, <1>7, <1>8

(* The first grant. *)
LEMMA BootstrapLocks ==
    ASSUME LocksInv, NEW p \in Principals, NEW g \in Grants, Bootstrap(p, g)
    PROVE  LocksInv'
<1>1. ProviderTypeOK'
  BY DEF LocksInv, ProviderTypeOK, Bootstrap, GrantRecords, Scopes, Kinds
<1>2. \A h \in Grants : grant[h].state = "none"
  BY DEF Bootstrap, NoGrant
<1>3. /\ grant'[g].state = "held" /\ grant'[g].principal = p /\ grant'[g].scope = Governing
      /\ \A h \in Grants \ {g} : grant'[h] = NoGrant
  BY DEF Bootstrap, LocksInv, ProviderTypeOK
<1>4. activation' = activation /\ request' = request /\ clock' = clock
  BY DEF Bootstrap
<1>5. \A a \in Activations : activation[a].decision = "none"
  BY <1>2 DEF LocksInv, RowsOK
<1>6. RowsOK'
  BY <1>3, <1>4, <1>5 DEF LocksInv, RowsOK, NoGrant
<1>7. \A r \in Requests : request[r].step = "idle"
  BY <1>2 DEF LocksInv, AdmittedLater
<1>8. AdmittedLater' /\ RevokingHolds' /\ RequestingHolds' /\ DecidingHolds'
  BY <1>4, <1>7 DEF AdmittedLater, RevokingHolds, RequestingHolds, DecidingHolds
<1>9. LocksExclude' /\ GoverningHeld'
  BY <1>3, <1>4 DEF LocksInv, LocksExclude, GoverningHeld, Held
<1> QED
  BY <1>1, <1>6, <1>8, <1>9 DEF LocksInv

(* A grant is made in a row that was none. *)
LEMMA GrantRows ==
    ASSUME LocksInv, NEW r \in Requests, NEW g \in Grants, NEW p \in Principals,
           NEW s \in Scopes, NEW k \in Kinds, Grant(r, g, p, s, k)
    PROVE  \E gs \in [Grants -> GrantRecords] :
           /\ gs[g].state = "held" /\ gs[g].principal = p /\ gs[g].scope = s /\ gs[g].version = 0
           /\ grant[g] = NoGrant
           /\ \A h \in Grants \ {g} : gs[h] = grant[h]
           /\ Publish(g, gs, activation, clock)
<1> DEFINE made == [state |-> "held", principal |-> p, scope |-> s, kind |-> k, version |-> 0]
           gs == [grant EXCEPT ![g] = made]
<1>1. made \in GrantRecords
  BY DEF GrantRecords
<1>2. gs \in [Grants -> GrantRecords] /\ gs[g] = made /\ \A h \in Grants \ {g} : gs[h] = grant[h]
  BY <1>1 DEF LocksInv, ProviderTypeOK
<1>3. Publish(g, gs, activation, clock) /\ grant[g] = NoGrant
  BY DEF Grant
<1> HIDE DEF gs
<1> QED
  BY <1>2, <1>3

(* A revocation changes one grant's state. *)
LEMMA RevokeRows ==
    ASSUME LocksInv, NEW r \in Requests, RevokeCommit(r)
    PROVE  LET g == request[r].on IN
           /\ g \in Grants /\ grant[g].state = "held"
           /\ \E gs \in [Grants -> GrantRecords] :
                 /\ gs[g].state = "revoked" /\ gs[g].principal = grant[g].principal
                 /\ gs[g].scope = grant[g].scope /\ gs[g].version = grant[g].version
                 /\ \A h \in Grants \ {g} : gs[h] = grant[h]
                 /\ Publish(g, gs, activation, request[r].at)
<1> DEFINE g == request[r].on
           gs == [grant EXCEPT ![g].state = "revoked"]
<1>1. g \in Grants /\ grant[g].state = "held"
  BY DEF RevokeCommit, LocksInv, RevokingHolds, Held
<1>2. /\ gs \in [Grants -> GrantRecords]
      /\ gs[g].state = "revoked" /\ gs[g].principal = grant[g].principal
      /\ gs[g].scope = grant[g].scope /\ gs[g].version = grant[g].version
      /\ \A h \in Grants \ {g} : gs[h] = grant[h]
  BY <1>1 DEF LocksInv, ProviderTypeOK, GrantRecords
<1>3. Publish(g, gs, activation, request[r].at)
  BY DEF RevokeCommit
<1> HIDE DEF gs
<1> QED
  BY <1>1, <1>2, <1>3

(* A grant made by somebody who was in force when admitted. *)
LEMMA GrantLocks ==
    ASSUME LocksInv, NEW r \in Requests, NEW g \in Grants, NEW p \in Principals,
           NEW s \in Scopes, NEW k \in Kinds, Grant(r, g, p, s, k)
    PROVE  LocksInv'
<1>1. PICK gs \in [Grants -> GrantRecords] :
         /\ gs[g].state = "held" /\ gs[g].principal = p
         /\ \A h \in Grants \ {g} : gs[h] = grant[h]
         /\ Publish(g, gs, activation, clock)
  BY GrantRows
<1>2. /\ grant' \in [Grants -> GrantRecords]
      /\ \A h \in Grants : /\ grant'[h].state = gs[h].state
                           /\ grant'[h].principal = gs[h].principal
                           /\ grant'[h].scope = gs[h].scope
                           /\ h # g => grant'[h] = gs[h]
      /\ \A e \in events' : e.grant \in Grants /\ e.version \in Nat \ {0}
  BY <1>1, PublishRows DEF LocksInv, ProviderTypeOK
<1>3. /\ grant[g].state = "none" /\ request[r].step = "admitted" /\ Answer(r)
      /\ clock' = clock /\ activation' = activation
  BY DEF Grant, NoGrant
<1>4. ProviderTypeOK'
  BY <1>2, <1>3, RowUpdates DEF LocksInv, ProviderTypeOK, Answer
<1>5. RowsOK'
  BY <1>1, <1>2, <1>3 DEF LocksInv, RowsOK
<1> QED
  BY <1>1, <1>2, <1>3, <1>4, <1>5, CommitKeeps DEF LocksInv

(* The revocation that commits. *)
LEMMA RevokeLocks ==
    ASSUME LocksInv, NEW r \in Requests, RevokeCommit(r)
    PROVE  LocksInv'
<1> DEFINE g == request[r].on
<1>1. g \in Grants /\ grant[g].state = "held"
  BY RevokeRows
<1>2. PICK gs \in [Grants -> GrantRecords] :
         /\ gs[g].state = "revoked" /\ gs[g].principal = grant[g].principal
         /\ gs[g].scope = grant[g].scope
         /\ \A h \in Grants \ {g} : gs[h] = grant[h]
         /\ Publish(g, gs, activation, request[r].at)
  BY RevokeRows
<1>3. Answer(r) /\ request[r].step = "revoking" /\ clock' = clock /\ activation' = activation
  BY DEF RevokeCommit
<1>4. /\ grant' \in [Grants -> GrantRecords]
      /\ \A h \in Grants : /\ grant'[h].state = gs[h].state
                           /\ grant'[h].principal = gs[h].principal
                           /\ grant'[h].scope = gs[h].scope
                           /\ h # g => grant'[h] = gs[h]
      /\ \A e \in events' : e.grant \in Grants /\ e.version \in Nat \ {0}
  BY <1>1, <1>2, PublishRows DEF LocksInv, ProviderTypeOK
<1>5. ProviderTypeOK'
  BY <1>3, <1>4, RowUpdates DEF LocksInv, ProviderTypeOK, Answer
<1>6. RowsOK'
  BY <1>1, <1>2, <1>3, <1>4 DEF LocksInv, RowsOK
<1> QED
  BY <1>1, <1>2, <1>3, <1>4, <1>5, <1>6, CommitKeeps DEF LocksInv

(* What the second step of a request for an activation does to the rows: one new, and     *)
(* every pending one of the same grant, which nobody else holds, lapsed.                  *)
LEMMA RequestRows ==
    ASSUME LocksInv, NEW r \in Requests, NEW a \in Activations, NEW d \in Durations,
           NEW ar \in ApprovalPolicies, RequestCommit(r, a, d, ar)
    PROVE  LET g == request[r].on IN
           /\ g \in Grants /\ g \in request[r].locked /\ grant[g].state # "none"
           /\ request[r].step = "requesting" /\ activation[a] = NoActivation
           /\ activation' \in [Activations -> ActivationRecords]
           /\ activation'[a].of = g /\ ~activation'[a].ended
           /\ activation'[a].decision = IF ar THEN "pending" ELSE "approved"
           /\ ~ar => activation'[a].ends = request[r].at + d
           /\ \A b \in Activations \ {a} :
                 /\ activation'[b].of = activation[b].of
                 /\ activation'[b].ends = activation[b].ends
                 /\ activation'[b].ended = activation[b].ended
                 /\ activation[b].decision # "pending" \/ activation[b].of # g =>
                        activation'[b] = activation[b]
                 /\ activation[b].decision = "pending" /\ activation[b].of = g =>
                        /\ activation'[b].decision = "lapsed"
                        /\ Free(r, b)
           /\ ar => grant' = grant /\ events' = events
           /\ ~ar => Publish(g, grant, activation', request[r].at)
           /\ Answer(r) /\ clock' = clock
<1> DEFINE g == request[r].on
           at == request[r].at
           lapsed == {b \in Pending(g) : activation[b].requested + PendingLifetime <= at}
           asked == [of |-> g, requested |-> at, duration |-> d, ended |-> FALSE,
                     decision |-> IF ar THEN "pending" ELSE "approved",
                     ends |-> IF ar THEN 0 ELSE at + d]
           next == [b \in Activations |-> IF b = a THEN asked
                                          ELSE IF b \in lapsed
                                          THEN [activation[b] EXCEPT !.decision = "lapsed"]
                                          ELSE activation[b]]
<1>1. /\ request[r].step = "requesting" /\ activation[a] = NoActivation
      /\ \A b \in lapsed : Free(r, b)
      /\ Pending(g) = lapsed
      /\ activation' = next
      /\ IF ar THEN UNCHANGED <<grant, events>> ELSE Publish(g, grant, next, at)
      /\ Answer(r) /\ clock' = clock
  BY DEF RequestCommit
<1>2. g \in Grants /\ g \in request[r].locked /\ grant[g].state # "none" /\ at \in Nat
  BY <1>1 DEF LocksInv, RequestingHolds, ProviderTypeOK, RequestRecords
<1>3. d \in Nat /\ ar \in BOOLEAN
  BY ProviderAssumption
<1>4. asked \in ActivationRecords
  BY <1>2, <1>3 DEF ActivationRecords
<1>5. \A b \in Activations : [activation[b] EXCEPT !.decision = "lapsed"] \in ActivationRecords
  BY DEF LocksInv, ProviderTypeOK, ActivationRecords
<1>6. activation' \in [Activations -> ActivationRecords]
  BY <1>1, <1>4, <1>5 DEF LocksInv, ProviderTypeOK
<1>7. activation'[a] = asked
  BY <1>1
<1>8. \A b \in Activations \ {a} :
         activation'[b] = IF activation[b].of = g /\ activation[b].decision = "pending"
                          THEN [activation[b] EXCEPT !.decision = "lapsed"] ELSE activation[b]
  BY <1>1 DEF Pending
<1>9. \A b \in Activations : activation[b].of = g /\ activation[b].decision = "pending" => Free(r, b)
  BY <1>1 DEF Pending
<1>10. \A b \in Activations : activation[b] \in ActivationRecords
  BY DEF LocksInv, ProviderTypeOK
<1>11. ar => grant' = grant /\ events' = events
  BY <1>1
<1>12. ~ar => Publish(g, grant, activation', at)
  BY <1>1
<1> HIDE DEF next, lapsed, g, at
<1>13. /\ activation'[a].of = g /\ ~activation'[a].ended
       /\ activation'[a].decision = IF ar THEN "pending" ELSE "approved"
       /\ ~ar => activation'[a].ends = at + d
  BY <1>7
<1>14. ASSUME NEW b \in Activations \ {a}
       PROVE  /\ activation'[b].of = activation[b].of
              /\ activation'[b].ends = activation[b].ends
              /\ activation'[b].ended = activation[b].ended
              /\ activation[b].decision # "pending" \/ activation[b].of # g =>
                     activation'[b] = activation[b]
              /\ activation[b].decision = "pending" /\ activation[b].of = g =>
                     activation'[b].decision = "lapsed" /\ Free(r, b)
  BY <1>8, <1>9, <1>10 DEF ActivationRecords
<1> QED
  BY <1>1, <1>2, <1>6, <1>11, <1>12, <1>13, <1>14 DEF g, at

(* What the second step of a decision does to the rows. *)
LEMMA DecideRows ==
    ASSUME LocksInv, NEW r \in Requests, NEW d \in {"approved", "denied"}, DecideCommit(r, d)
    PROVE  LET a == request[r].on
               g == activation[a].of
           IN
           /\ a \in Activations /\ a \in request[r].locked /\ request[r].step = "deciding"
           /\ activation[a].decision = "pending" /\ g \in Grants /\ grant[g].state # "none"
           /\ activation' \in [Activations -> ActivationRecords]
           /\ activation'[a].of = g /\ activation'[a].decision = d
           /\ d = "approved" => activation'[a].ends = request[r].at + activation[a].duration
           /\ \A b \in Activations \ {a} : activation'[b] = activation[b]
           /\ d = "denied" => grant' = grant /\ events' = events
           /\ d = "approved" => /\ IsPublished(g) => Free(r, g)
                                /\ Publish(g, grant, activation', request[r].at)
           /\ Answer(r) /\ clock' = clock
<1> DEFINE a == request[r].on
           ends == IF d = "approved" THEN request[r].at + activation[a].duration ELSE 0
           row == [activation[a] EXCEPT !.decision = d, !.ends = ends]
<1>1. /\ request[r].step = "deciding"
      /\ activation' = [activation EXCEPT ![a] = row]
      /\ Answer(r) /\ clock' = clock
      /\ d = "denied" => grant' = grant /\ events' = events
      /\ d = "approved" => /\ IsPublished(activation[a].of) => Free(r, activation[a].of)
                           /\ Publish(activation[a].of, grant, activation', request[r].at)
  BY DEF DecideCommit
<1>2. a \in Activations /\ a \in request[r].locked /\ activation[a].decision = "pending"
  BY <1>1 DEF LocksInv, DecidingHolds
<1>3. activation[a].of \in Grants /\ grant[activation[a].of].state # "none"
  BY <1>2 DEF LocksInv, RowsOK
<1>4. ends \in Nat
  BY <1>2 DEF LocksInv, ProviderTypeOK, ActivationRecords, RequestRecords
<1> HIDE DEF ends
<1>5. row \in ActivationRecords /\ row.of = activation[a].of /\ row.decision = d /\ row.ends = ends
  BY <1>2, <1>4 DEF LocksInv, ProviderTypeOK, ActivationRecords
<1> HIDE DEF row
<1>6. /\ activation' \in [Activations -> ActivationRecords] /\ activation'[a] = row
      /\ \A b \in Activations \ {a} : activation'[b] = activation[b]
  BY <1>1, <1>2, <1>5 DEF LocksInv, ProviderTypeOK
<1> QED
  BY <1>1, <1>2, <1>3, <1>5, <1>6 DEF ends

(* What ending an activation does to the rows. *)
LEMMA EndRows ==
    ASSUME LocksInv, NEW r \in Requests, NEW a \in Activations, End(r, a)
    PROVE  LET g == activation[a].of IN
           /\ g \in Grants /\ grant[g].state # "none"
           /\ request[r].step = "admitted" /\ InForceAt(activation[a], clock)
           /\ activation' \in [Activations -> ActivationRecords]
           /\ activation'[a].of = g /\ activation'[a].decision = "approved" /\ activation'[a].ended
           /\ \A b \in Activations \ {a} : activation'[b] = activation[b]
           /\ Publish(g, grant, activation', clock)
           /\ Answer(r) /\ clock' = clock
<1>1. /\ request[r].step = "admitted" /\ InForceAt(activation[a], clock)
      /\ activation' = [activation EXCEPT ![a] = [activation[a] EXCEPT !.ended = TRUE]]
      /\ Publish(activation[a].of, grant, activation', clock)
      /\ Answer(r) /\ clock' = clock
  BY DEF End
<1>2. activation[a].decision = "approved"
  BY <1>1 DEF InForceAt
<1>3. activation[a].of \in Grants /\ grant[activation[a].of].state # "none"
  BY <1>2 DEF LocksInv, RowsOK
<1>4. /\ activation' \in [Activations -> ActivationRecords]
      /\ activation'[a].of = activation[a].of /\ activation'[a].decision = "approved"
      /\ activation'[a].ended
      /\ \A b \in Activations \ {a} : activation'[b] = activation[b]
  BY <1>1, <1>2 DEF LocksInv, ProviderTypeOK, ActivationRecords
<1> QED
  BY <1>1, <1>3, <1>4

(* The three commands on activations that commit. *)
LEMMA ActivationLocks ==
    ASSUME LocksInv, NEW r \in Requests,
           \/ \E a \in Activations, d \in Durations, ar \in ApprovalPolicies :
                 RequestCommit(r, a, d, ar)
           \/ \E d \in {"approved", "denied"} : DecideCommit(r, d)
           \/ \E a \in Activations : End(r, a)
    PROVE  LocksInv'
<1>1. ASSUME NEW g \in Grants, NEW as, NEW at, Publish(g, grant, as, at) \/ UNCHANGED <<grant, events>>
      PROVE  /\ grant' \in [Grants -> GrantRecords]
             /\ \A h \in Grants : /\ grant'[h].state = grant[h].state
                                  /\ grant'[h].principal = grant[h].principal
                                  /\ grant'[h].scope = grant[h].scope
                                  /\ grant[h].state = "none" /\ grant[g].state # "none" =>
                                        grant'[h] = grant[h]
             /\ \A e \in events' : e.grant \in Grants /\ e.version \in Nat \ {0}
  <2>1. CASE Publish(g, grant, as, at)
    BY <2>1, PublishRows DEF LocksInv, ProviderTypeOK
  <2>2. CASE UNCHANGED <<grant, events>>
    BY <2>2 DEF LocksInv, ProviderTypeOK
  <2> QED
    BY <1>1, <2>1, <2>2
<1>2. ASSUME NEW g \in Grants, NEW as, NEW at, Publish(g, grant, as, at) \/ UNCHANGED <<grant, events>>,
             grant[g].state # "none", request[r].step # "idle", Answer(r), clock' = clock,
             activation' \in [Activations -> ActivationRecords],
             \A b \in Activations :
                \/ activation'[b] = activation[b]
                \/ /\ activation'[b].of \in Grants /\ grant[activation'[b].of].state # "none"
                   /\ activation'[b].decision # "none"
                   /\ activation[b].decision = "pending" /\ activation'[b].decision # "pending" =>
                         \A q \in Requests \ {r} : b \notin request[q].locked
      PROVE  LocksInv'
  <2>1. ProviderTypeOK'
    BY <1>1, <1>2, RowUpdates DEF LocksInv, ProviderTypeOK, Answer
  <2>2. \A h \in Grants : /\ grant'[h].state = grant[h].state
                          /\ grant'[h].principal = grant[h].principal
                          /\ grant'[h].scope = grant[h].scope
                          /\ grant[h].state = "none" => grant'[h] = grant[h]
    BY <1>1, <1>2
  <2>3. RowsOK'
    BY <1>2, <2>2 DEF LocksInv, RowsOK
  <2> QED
    BY <1>2, <2>1, <2>2, <2>3, CommitKeeps DEF LocksInv
<1>3. ASSUME NEW a \in Activations, NEW d \in Durations, NEW ar \in ApprovalPolicies,
             RequestCommit(r, a, d, ar)
      PROVE  LocksInv'
  <2> DEFINE g == request[r].on
  <2>1. /\ g \in Grants /\ grant[g].state # "none" /\ request[r].step # "idle"
        /\ Answer(r) /\ clock' = clock /\ activation' \in [Activations -> ActivationRecords]
        /\ Publish(g, grant, activation', request[r].at) \/ UNCHANGED <<grant, events>>
    BY <1>3, RequestRows
  <2>2. activation'[a].of = g /\ activation'[a].decision # "none" /\ activation[a].decision # "pending"
    BY <1>3, RequestRows DEF NoActivation
  <2>3. ASSUME NEW b \in Activations \ {a}, activation'[b] # activation[b]
        PROVE  /\ activation'[b].of = g /\ activation'[b].decision # "none"
               /\ \A q \in Requests \ {r} : b \notin request[q].locked
    BY <1>3, <2>3, RequestRows DEF Free
  <2> QED
    BY <1>2, <2>1, <2>2, <2>3
<1>4. ASSUME NEW d \in {"approved", "denied"}, DecideCommit(r, d)
      PROVE  LocksInv'
  <2> DEFINE a == request[r].on
             g == activation[a].of
  <2>1. /\ g \in Grants /\ grant[g].state # "none" /\ request[r].step # "idle"
        /\ Answer(r) /\ clock' = clock /\ activation' \in [Activations -> ActivationRecords]
        /\ Publish(g, grant, activation', request[r].at) \/ UNCHANGED <<grant, events>>
    BY <1>4, DecideRows
  <2>2. /\ a \in Activations /\ a \in request[r].locked
        /\ activation'[a].of = g /\ activation'[a].decision # "none"
        /\ \A b \in Activations \ {a} : activation'[b] = activation[b]
    BY <1>4, DecideRows
  <2>3. \A q \in Requests \ {r} : a \notin request[q].locked
    BY <2>2 DEF LocksInv, LocksExclude
  <2> QED
    BY <1>2, <2>1, <2>2, <2>3
<1>5. ASSUME NEW a \in Activations, End(r, a)
      PROVE  LocksInv'
  <2> DEFINE g == activation[a].of
  <2>1. /\ g \in Grants /\ grant[g].state # "none" /\ request[r].step # "idle"
        /\ Answer(r) /\ clock' = clock /\ activation' \in [Activations -> ActivationRecords]
        /\ Publish(g, grant, activation', clock)
    BY <1>5, EndRows
  <2>2. /\ activation'[a].of = g /\ activation'[a].decision # "none"
        /\ activation[a].decision # "pending"
        /\ \A b \in Activations \ {a} : activation'[b] = activation[b]
    BY <1>5, EndRows DEF InForceAt
  <2> QED
    BY <1>2, <2>1, <2>2
<1> QED
  BY <1>3, <1>4, <1>5

(* A first step locks what is free and keeps the rest; for a revocation it counts. *)
LEMMA EnterLocks ==
    ASSUME LocksInv, NEW r \in Requests,
           \/ \E g \in Grants : RevokeLock(r, g) \/ RequestLock(r, g)
           \/ \E a \in Activations : DecideLock(r, a)
    PROVE  LocksInv'
<1>1. ASSUME NEW step \in {"revoking", "requesting", "deciding"}, NEW on \in Grants \cup Activations,
             NEW rows \in SUBSET (Grants \cup Activations), Enter(r, step, on, rows),
             \A x \in rows : Free(r, x), request[r].step = "admitted", on \in rows,
             step = "revoking" =>
                /\ on \in Grants /\ \A g \in Grants : g \in rows => Held(g)
                /\ grant[on].scope = Governing =>
                     \E g \in Grants : g \in rows /\ g # on /\ grant[g].scope = Governing,
             step = "requesting" => on \in Grants /\ grant[on].state # "none",
             step = "deciding" => on \in Activations /\ activation[on].decision = "pending",
             UNCHANGED <<clock, grant, activation, events>>
      PROVE  LocksInv'
  <2>1. request[r] \in RequestRecords /\ clock \in Nat
    BY DEF LocksInv, ProviderTypeOK
  <2>2. request' \in [Requests -> RequestRecords]
    BY <1>1, <2>1, RowUpdates DEF LocksInv, ProviderTypeOK, Enter
  <2>3. /\ \A q \in Requests \ {r} : request'[q] = request[q]
        /\ request'[r].step = step /\ request'[r].on = on /\ request'[r].locked = rows
        /\ request'[r].at = clock
    BY <1>1, <2>1 DEF LocksInv, ProviderTypeOK, Enter, RequestRecords
  <2>4. ProviderTypeOK' /\ RowsOK' /\ GoverningHeld'
    BY <1>1, <2>2 DEF LocksInv, ProviderTypeOK, RowsOK, GoverningHeld, Held
  <2>5. LocksExclude'
    BY <1>1, <2>3 DEF LocksInv, LocksExclude, Free
  <2>6. AdmittedLater'
    BY <1>1, <2>1, <2>3 DEF LocksInv, AdmittedLater
  <2>7. RevokingHolds'
    BY <1>1, <2>3 DEF LocksInv, RevokingHolds, Held
  <2>8. RequestingHolds' /\ DecidingHolds'
    BY <1>1, <2>3 DEF LocksInv, RequestingHolds, DecidingHolds
  <2> QED
    BY <2>4, <2>5, <2>6, <2>7, <2>8 DEF LocksInv
<1>2. ASSUME NEW g \in Grants, RevokeLock(r, g)
      PROVE  LocksInv'
  <2>1. ASSUME grant[g].scope = Governing
        PROVE  \E h \in Grants : h \in LockActive /\ h # g /\ grant[h].scope = Governing
    <3> DEFINE S == {h \in Grants : Held(h) /\ grant[h].scope = Governing}
    <3>1. Cardinality(S) # 1 /\ g \in S
      BY <1>2, <2>1 DEF RevokeLock
    <3>2. S # {g}
      BY <3>1, FS_Singleton
    <3> QED
      BY <3>1, <3>2 DEF LockActive
  <2>2. g \in LockActive /\ \A h \in Grants : h \in LockActive => Held(h)
    BY <1>2 DEF RevokeLock, LockActive
  <2>3. LockActive \in SUBSET (Grants \cup Activations)
    BY DEF LockActive
  <2> HIDE DEF LockActive
  <2> QED
    BY <1>1, <1>2, <2>1, <2>2, <2>3 DEF RevokeLock
<1>3. ASSUME NEW g \in Grants, RequestLock(r, g)
      PROVE  LocksInv'
  BY <1>1, <1>3 DEF RequestLock, LockGrant, Held
<1>4. ASSUME NEW a \in Activations, DecideLock(r, a)
      PROVE  LocksInv'
  BY <1>1, <1>4 DEF DecideLock
<1> QED
  BY <1>2, <1>3, <1>4

(* Every step keeps the locks' invariant. *)
LEMMA LocksStep ==
    ASSUME LocksInv, [ProviderNext]_providerVars
    PROVE  LocksInv'
<1>1. CASE UNCHANGED providerVars
  BY <1>1 DEF LocksInv, ProviderTypeOK, RowsOK, LocksExclude, AdmittedLater, RevokingHolds,
              RequestingHolds, DecidingHolds, GoverningHeld, Held, providerVars
<1>2. ASSUME NEW r \in Requests, NEW p \in Principals, Admit(r, p)
      PROVE  LocksInv'
  <2>1. request' \in [Requests -> RequestRecords]
    <3>1. InForce(p) \in BOOLEAN
      BY DEF InForce
    <3> QED
      BY <1>2, <3>1, RowUpdates DEF LocksInv, ProviderTypeOK, Admit
  <2>2. /\ \A q \in Requests \ {r} : request'[q] = request[q]
        /\ request'[r].step = "admitted" /\ request'[r].locked = {} /\ request'[r].at = 0
    BY <1>2 DEF LocksInv, ProviderTypeOK, Admit, Idle
  <2>3. UNCHANGED <<clock, grant, activation, events>> /\ \E g \in Grants : grant[g].state # "none"
    BY <1>2 DEF Admit, Held
  <2>4. ProviderTypeOK' /\ RowsOK' /\ GoverningHeld'
    BY <2>1, <2>3 DEF LocksInv, ProviderTypeOK, RowsOK, GoverningHeld, Held
  <2>5. LocksExclude' /\ RevokingHolds' /\ RequestingHolds' /\ DecidingHolds'
    BY <2>2, <2>3 DEF LocksInv, LocksExclude, RevokingHolds, RequestingHolds, DecidingHolds, Held
  <2>6. AdmittedLater'
    BY <2>2, <2>3 DEF LocksInv, ProviderTypeOK, AdmittedLater
  <2> QED
    BY <2>4, <2>5, <2>6 DEF LocksInv
<1>3. ASSUME NEW r \in Requests, Abandon(r)
      PROVE  LocksInv'
  <2>1. /\ \A q \in Requests \ {r} : request'[q] = request[q]
        /\ request'[r].step = "idle" /\ request'[r].locked = {}
        /\ request' \in [Requests -> RequestRecords]
    BY <1>3, RowUpdates DEF LocksInv, ProviderTypeOK, Abandon, Answer, Idle
  <2>2. UNCHANGED <<clock, grant, activation, events>>
    BY <1>3 DEF Abandon
  <2>3. ProviderTypeOK' /\ RowsOK' /\ GoverningHeld' /\ AdmittedLater'
    BY <2>1, <2>2 DEF LocksInv, ProviderTypeOK, RowsOK, GoverningHeld, Held, AdmittedLater
  <2>4. LocksExclude' /\ RevokingHolds' /\ RequestingHolds' /\ DecidingHolds'
    BY <2>1, <2>2 DEF LocksInv, LocksExclude, RevokingHolds, RequestingHolds, DecidingHolds, Held
  <2> QED
    BY <2>3, <2>4 DEF LocksInv
<1>4. CASE Tick
  <2>1. clock' = clock + 1 /\ UNCHANGED <<grant, activation, events, request>>
    BY <1>4 DEF Tick
  <2>2. ProviderTypeOK' /\ RowsOK' /\ GoverningHeld'
    BY <2>1 DEF LocksInv, ProviderTypeOK, RowsOK, GoverningHeld, Held
  <2>3. LocksExclude' /\ RevokingHolds' /\ RequestingHolds' /\ DecidingHolds'
    BY <2>1 DEF LocksInv, LocksExclude, RevokingHolds, RequestingHolds, DecidingHolds, Held
  <2>4. AdmittedLater'
    BY <2>1 DEF LocksInv, ProviderTypeOK, RequestRecords, AdmittedLater
  <2> QED
    BY <2>2, <2>3, <2>4 DEF LocksInv
<1> QED
  BY <1>1, <1>2, <1>3, <1>4, BootstrapLocks, GrantLocks, RevokeLocks, ActivationLocks, EnterLocks
  DEF ProviderNext

(* Every reachable state satisfies it. *)
THEOREM LocksInvariant == ProviderSpec => []LocksInv
<1>1. LocksInv /\ [ProviderNext]_providerVars => LocksInv'
  BY LocksStep
<1> QED
  BY <1>1, LocksInit, PTL DEF ProviderSpec

(* lockActiveStatement: however many revocations run beside each other, an unrevoked grant *)
(* of this service's scope remains once one was made.                                      *)
THEOREM LastGoverningKept == ProviderSpec => []GoverningGrantRemains
<1>1. LocksInv => GoverningGrantRemains
  BY DEF LocksInv, RowsOK, GoverningHeld, GoverningGrantRemains, Holds, Held, NoGrant
<1> QED
  BY <1>1, LocksInvariant, PTL

-----------------------------------------------------------------------------

(* Activation b is of grant g and in force at a time. *)
Confers(b, g, at) == activation[b].of = g /\ InForceAt(activation[b], at)

Undecided(b, g) == activation[b].of = g /\ activation[b].decision = "pending"

(* A published grant has one activation in force or pending, and while a request for one, *)
(* or a decision on one, is between its steps, none that was in force when it began.      *)
OneOf(g) ==
    /\ \A a, b \in Activations : Confers(a, g, clock) /\ Confers(b, g, clock) => a = b
    /\ \A a, b \in Activations : Undecided(a, g) /\ Undecided(b, g) => a = b
    /\ \A a, b \in Activations : Undecided(a, g) => ~Confers(b, g, clock)
    /\ \A r \in Requests, b \in Activations :
          request[r].step = "requesting" /\ request[r].on = g => ~Confers(b, g, request[r].at)
    /\ \A r \in Requests, b \in Activations :
          request[r].step = "deciding" /\ activation[request[r].on].of = g =>
              ~Confers(b, g, request[r].at)

OneAtATime == \A g \in Grants : IsPublished(g) => OneOf(g)

(* What was in force later was in force before, unless it began in between. *)
LEMMA InForceBefore ==
    ASSUME LocksInv, NEW b \in Activations, NEW at \in Nat, NEW later \in Nat, at <= later,
           InForceAt(activation[b], later)
    PROVE  InForceAt(activation[b], at)
  BY DEF InForceAt, LocksInv, ProviderTypeOK, ActivationRecords

(* No activation is of a grant that was not made. *)
LEMMA NoneBefore ==
    ASSUME LocksInv, NEW g \in Grants, grant[g].state = "none"
    PROVE  \A b \in Activations : activation[b].of # g
  BY ProviderAssumption DEF LocksInv, RowsOK, NoActivation

(* Steps that change no activation and put no request between its steps. *)
LEMMA OneAtATimeFrame ==
    ASSUME LocksInv, OneAtATime, activation' = activation, clock' = clock \/ clock' = clock + 1,
           \A g \in Grants : grant[g].state # "none" => grant'[g].scope = grant[g].scope,
           \A r \in Requests : request'[r].step \in {"requesting", "deciding"} =>
               request'[r] = request[r]
    PROVE  OneAtATime'
<1> SUFFICES ASSUME NEW g \in Grants, IsPublished(g)'
             PROVE  OneOf(g)'
  BY DEF OneAtATime
<1>1. CASE grant[g].state = "none"
  BY <1>1, NoneBefore DEF OneOf, Confers, Undecided
<1>2. CASE grant[g].state # "none"
  <2>1. IsPublished(g)
    BY <1>2 DEF IsPublished
  <2>2. \A b \in Activations : Confers(b, g, clock)' => Confers(b, g, clock)
    BY InForceBefore DEF Confers, LocksInv, ProviderTypeOK
  <2> QED
    BY <2>1, <2>2 DEF OneAtATime, OneOf, Confers, Undecided
<1> QED
  BY <1>1, <1>2

(* A request or a decision begins. *)
LEMMA OneAtATimeEnter ==
    ASSUME LocksInv, OneAtATime, NEW r \in Requests,
           \/ \E g \in Grants : RequestLock(r, g)
           \/ \E a \in Activations : DecideLock(r, a)
    PROVE  OneAtATime'
<1>1. UNCHANGED <<clock, grant, activation>>
  BY DEF RequestLock, DecideLock
<1> SUFFICES ASSUME NEW g \in Grants, IsPublished(g)
             PROVE  OneOf(g)'
  BY <1>1 DEF OneAtATime, IsPublished
<1>2. OneOf(g)
  BY DEF OneAtATime
<1>3. /\ \A q \in Requests \ {r} : request'[q] = request[q]
      /\ request'[r].at = clock
  BY DEF RequestLock, DecideLock, Enter, LocksInv, ProviderTypeOK, RequestRecords
<1>4. CASE \E h \in Grants : RequestLock(r, h)
  <2>1. PICK h \in Grants : RequestLock(r, h)
    BY <1>4
  <2>2. request'[r].step = "requesting" /\ request'[r].on = h
    BY <2>1 DEF RequestLock, Enter, LocksInv, ProviderTypeOK, RequestRecords
  <2>3. \A b \in Activations : ~Confers(b, h, clock)
    BY <2>1 DEF RequestLock, Confers
  <2> QED
    BY <1>1, <1>2, <1>3, <2>2, <2>3 DEF OneOf, Confers, Undecided
<1>5. CASE \E a \in Activations : DecideLock(r, a)
  <2>1. PICK a \in Activations : DecideLock(r, a)
    BY <1>5
  <2>2. request'[r].step = "deciding" /\ request'[r].on = a /\ activation[a].decision = "pending"
    BY <2>1 DEF DecideLock, Enter, LocksInv, ProviderTypeOK, RequestRecords
  <2> QED
    BY <1>1, <1>2, <1>3, <2>2 DEF OneOf, Confers, Undecided
<1> QED
  BY <1>4, <1>5

(* Another request's locks keep what it found: none it would meet commits meanwhile. *)
LEMMA OneAtATimeRequest ==
    ASSUME LocksInv, OneAtATime, NEW r \in Requests, NEW a \in Activations, NEW d \in Durations,
           NEW ar \in ApprovalPolicies, RequestCommit(r, a, d, ar),
           NEW g \in Grants, IsPublished(g)
    PROVE  OneOf(g)'
<1>1. OneOf(g)
  BY DEF OneAtATime
<1>2. /\ \A q \in Requests \ {r} : request'[q] = request[q]
      /\ request'[r].step = "idle" /\ clock' = clock
  BY RequestRows DEF Answer, LocksInv, ProviderTypeOK, Idle
<1>3. \A q \in Requests : request'[q].step = "deciding" => request[q].on # a
  BY <1>2, RequestRows DEF LocksInv, DecidingHolds, NoActivation
<1>4. CASE request[r].on # g
  <2>1. \A b \in Activations : \A at : Confers(b, g, at)' => Confers(b, g, at)
    BY <1>4, RequestRows DEF Confers, InForceAt
  <2>2. \A b \in Activations : Undecided(b, g)' => Undecided(b, g)
    BY <1>4, RequestRows DEF Undecided
  <2>3. \A q \in Requests : request'[q].step = "deciding" =>
            activation'[request[q].on].of = activation[request[q].on].of
    BY <1>2, <1>3, RequestRows DEF LocksInv, DecidingHolds
  <2> QED
    BY <1>1, <1>2, <2>1, <2>2, <2>3 DEF OneOf
<1>5. CASE request[r].on = g
  <2>1. \A b \in Activations : ~Confers(b, g, request[r].at)
    BY <1>1, <1>5, RequestRows DEF OneOf
  <2>2. \A b \in Activations : ~Confers(b, g, clock)
    BY <2>1, RequestRows, InForceBefore
    DEF Confers, LocksInv, AdmittedLater, ProviderTypeOK, RequestRecords
  <2>3. \A b \in Activations \ {a} : \A at : Confers(b, g, at)' => Confers(b, g, at)
    BY RequestRows DEF Confers, InForceAt
  <2>4. \A b \in Activations \ {a} : ~Undecided(b, g)'
    BY <1>5, RequestRows DEF Undecided
  <2>5. \A q \in Requests \ {r} : ~(request[q].step = "requesting" /\ request[q].on = g)
    BY <1>5, RequestRows DEF LocksInv, LocksExclude, RequestingHolds
  <2>6. \A q \in Requests \ {r} : ~(request[q].step = "deciding" /\ activation[request[q].on].of = g)
    BY <1>3, <1>5, RequestRows DEF LocksInv, DecidingHolds, Free, NoActivation
  <2>7. \A q \in Requests \ {r} : ~(request[q].step = "deciding" /\ activation'[request[q].on].of = g)
    BY <1>2, <1>3, <2>6, RequestRows DEF LocksInv, DecidingHolds
  <2>8. Undecided(a, g)' => ~Confers(a, g, clock)'
    BY DEF Undecided, Confers, InForceAt
  <2> QED
    BY <1>2, <2>2, <2>3, <2>4, <2>5, <2>7, <2>8 DEF OneOf
<1> QED
  BY <1>4, <1>5

(* An approval takes the row a request would hold, and the only pending one. *)
LEMMA OneAtATimeDecide ==
    ASSUME LocksInv, OneAtATime, NEW r \in Requests, NEW d \in {"approved", "denied"},
           DecideCommit(r, d), NEW g \in Grants, IsPublished(g)
    PROVE  OneOf(g)'
<1> DEFINE a == request[r].on
<1>1. OneOf(g)
  BY DEF OneAtATime
<1>2. /\ \A q \in Requests \ {r} : request'[q] = request[q]
      /\ request'[r].step = "idle" /\ clock' = clock
  BY DecideRows DEF Answer, LocksInv, ProviderTypeOK, Idle
<1>3. /\ a \in Activations /\ activation[a].decision = "pending"
      /\ activation'[a].of = activation[a].of /\ activation'[a].decision = d
      /\ \A b \in Activations \ {a} : activation'[b] = activation[b]
  BY DecideRows
<1>4. \A b \in Activations : Undecided(b, g)' => b # a /\ Undecided(b, g)
  BY <1>3 DEF Undecided
<1>5. \A b \in Activations : \A at : Confers(b, g, at)' => Confers(b, g, at) \/ (b = a /\ d = "approved")
  BY <1>3 DEF Confers, InForceAt
<1>6. \A q \in Requests \ {r} : request[q].step = "deciding" =>
         request[q].on # a /\ activation'[request[q].on] = activation[request[q].on]
  BY <1>3, DecideRows DEF LocksInv, DecidingHolds, LocksExclude
<1>7. CASE activation[a].of # g \/ d = "denied"
  <2>1. \A b \in Activations : \A at : Confers(b, g, at)' => Confers(b, g, at)
    BY <1>3, <1>5, <1>7 DEF Confers
  <2> QED
    BY <1>1, <1>2, <1>4, <1>6, <2>1 DEF OneOf
<1>8. CASE activation[a].of = g /\ d = "approved"
  <2>1. \A b \in Activations : ~Confers(b, g, clock) /\ ~Undecided(b, g)'
    BY <1>1, <1>3, <1>4, <1>8 DEF OneOf, Undecided
  <2>2. \A q \in Requests \ {r} : ~(request[q].step = "requesting" /\ request[q].on = g)
    BY <1>8, DecideRows DEF LocksInv, RequestingHolds, Free
  <2>3. \A q \in Requests \ {r} : ~(request[q].step = "deciding" /\ activation[request[q].on].of = g)
    BY <1>1, <1>3, <1>6, <1>8 DEF OneOf, Undecided, LocksInv, DecidingHolds
  <2> QED
    BY <1>2, <1>5, <1>6, <2>1, <2>2, <2>3 DEF OneOf
<1> QED
  BY <1>7, <1>8

(* What is ended is in force no more. *)
LEMMA OneAtATimeEnd ==
    ASSUME LocksInv, OneAtATime, NEW r \in Requests, NEW a \in Activations, End(r, a),
           NEW g \in Grants, IsPublished(g)
    PROVE  OneOf(g)'
<1>1. OneOf(g)
  BY DEF OneAtATime
<1>2. /\ \A q \in Requests \ {r} : request'[q] = request[q]
      /\ request'[r].step = "idle" /\ clock' = clock
  BY EndRows DEF Answer, LocksInv, ProviderTypeOK, Idle
<1>3. /\ \A b \in Activations : \A at : Confers(b, g, at)' => Confers(b, g, at)
      /\ \A b \in Activations : Undecided(b, g)' => Undecided(b, g)
      /\ \A b \in Activations : activation'[b].of = activation[b].of
  BY EndRows DEF Confers, InForceAt, Undecided
<1> QED
  BY <1>1, <1>2, <1>3 DEF OneOf, LocksInv, DecidingHolds

(* A command on an activation changes no grant but its version. *)
LEMMA ActivationsKeepGrants ==
    ASSUME LocksInv, NEW r \in Requests,
           \/ \E a \in Activations, d \in Durations, ar \in ApprovalPolicies :
                 RequestCommit(r, a, d, ar)
           \/ \E d \in {"approved", "denied"} : DecideCommit(r, d)
           \/ \E a \in Activations : End(r, a)
    PROVE  \A g \in Grants : grant'[g].scope = grant[g].scope /\ grant'[g].state = grant[g].state
<1>1. ASSUME NEW g \in Grants, NEW as, NEW at, Publish(g, grant, as, at)
      PROVE  \A h \in Grants : grant'[h].scope = grant[h].scope /\ grant'[h].state = grant[h].state
  BY <1>1, PublishRows DEF LocksInv, ProviderTypeOK
<1>2. ASSUME NEW a \in Activations, NEW d \in Durations, NEW ar \in ApprovalPolicies,
             RequestCommit(r, a, d, ar)
      PROVE  \A g \in Grants : grant'[g].scope = grant[g].scope /\ grant'[g].state = grant[g].state
  BY <1>1, <1>2, RequestRows
<1>3. ASSUME NEW d \in {"approved", "denied"}, DecideCommit(r, d)
      PROVE  \A g \in Grants : grant'[g].scope = grant[g].scope /\ grant'[g].state = grant[g].state
  BY <1>1, <1>3, DecideRows
<1>4. ASSUME NEW a \in Activations, End(r, a)
      PROVE  \A g \in Grants : grant'[g].scope = grant[g].scope /\ grant'[g].state = grant[g].state
  BY <1>1, <1>4, EndRows
<1> QED
  BY <1>2, <1>3, <1>4

(* Every step keeps published grants to one activation at a time. *)
LEMMA OneAtATimeStep ==
    ASSUME LocksInv, OneAtATime, [ProviderNext]_providerVars
    PROVE  OneAtATime'
<1>1. CASE UNCHANGED providerVars
  BY <1>1, OneAtATimeFrame DEF providerVars
<1>2. ASSUME NEW p \in Principals, NEW g \in Grants, Bootstrap(p, g)
      PROVE  OneAtATime'
  BY <1>2, OneAtATimeFrame DEF Bootstrap, NoGrant, LocksInv, ProviderTypeOK
<1>3. ASSUME NEW r \in Requests, NEW p \in Principals, Admit(r, p)
      PROVE  OneAtATime'
  <2>1. /\ request'[r].step = "admitted" /\ \A q \in Requests \ {r} : request'[q] = request[q]
        /\ UNCHANGED <<clock, grant, activation>>
    BY <1>3 DEF Admit, LocksInv, ProviderTypeOK, Idle
  <2> QED
    BY <2>1, OneAtATimeFrame
<1>4. ASSUME NEW r \in Requests, NEW g \in Grants, NEW p \in Principals, NEW s \in Scopes,
             NEW k \in Kinds, Grant(r, g, p, s, k)
      PROVE  OneAtATime'
  <2>1. /\ request'[r].step = "idle" /\ \A q \in Requests \ {r} : request'[q] = request[q]
        /\ clock' = clock /\ activation' = activation
    BY <1>4 DEF Grant, Answer, LocksInv, ProviderTypeOK, Idle
  <2>2. \A h \in Grants : grant[h].state # "none" => grant'[h].scope = grant[h].scope
    BY <1>4, GrantRows, PublishRows DEF LocksInv, ProviderTypeOK, NoGrant
  <2> QED
    BY <2>1, <2>2, OneAtATimeFrame
<1>5. ASSUME NEW r \in Requests, NEW g \in Grants, RevokeLock(r, g)
      PROVE  OneAtATime'
  <2>1. /\ request'[r].step = "revoking" /\ \A q \in Requests \ {r} : request'[q] = request[q]
        /\ UNCHANGED <<clock, grant, activation>>
    BY <1>5 DEF RevokeLock, Enter, LocksInv, ProviderTypeOK, RequestRecords
  <2> QED
    BY <2>1, OneAtATimeFrame
<1>6. ASSUME NEW r \in Requests, RevokeCommit(r)
      PROVE  OneAtATime'
  <2>1. /\ request'[r].step = "idle" /\ \A q \in Requests \ {r} : request'[q] = request[q]
        /\ clock' = clock /\ activation' = activation
    BY <1>6 DEF RevokeCommit, Answer, LocksInv, ProviderTypeOK, Idle
  <2>2. PICK gs \in [Grants -> GrantRecords] :
           /\ gs[request[r].on].scope = grant[request[r].on].scope
           /\ \A h \in Grants \ {request[r].on} : gs[h] = grant[h]
           /\ Publish(request[r].on, gs, activation, request[r].at)
    BY <1>6, RevokeRows
  <2>3. \A h \in Grants : grant'[h].scope = grant[h].scope
    BY <1>6, <2>2, RevokeRows, PublishRows DEF LocksInv, ProviderTypeOK
  <2> QED
    BY <2>1, <2>3, OneAtATimeFrame
<1>7. ASSUME NEW r \in Requests, Abandon(r)
      PROVE  OneAtATime'
  <2>1. /\ request'[r].step = "idle" /\ \A q \in Requests \ {r} : request'[q] = request[q]
        /\ UNCHANGED <<clock, grant, activation>>
    BY <1>7 DEF Abandon, Answer, LocksInv, ProviderTypeOK, Idle
  <2> QED
    BY <2>1, OneAtATimeFrame
<1>8. CASE Tick
  BY <1>8, OneAtATimeFrame DEF Tick
<1>9. ASSUME NEW r \in Requests,
             \/ \E a \in Activations, d \in Durations, ar \in ApprovalPolicies :
                   RequestCommit(r, a, d, ar)
             \/ \E d \in {"approved", "denied"} : DecideCommit(r, d)
             \/ \E a \in Activations : End(r, a)
      PROVE  OneAtATime'
  <2>1. \A g \in Grants : IsPublished(g)' => IsPublished(g)
    BY <1>9, ActivationsKeepGrants DEF IsPublished
  <2> QED
    BY <1>9, <2>1, OneAtATimeRequest, OneAtATimeDecide, OneAtATimeEnd DEF OneAtATime
<1> QED
  BY <1>1, <1>2, <1>3, <1>4, <1>5, <1>6, <1>7, <1>8, <1>9, OneAtATimeEnter DEF ProviderNext

(* "At most one activation of it is in force", of a grant that is published, whatever      *)
(* requests, approvals and ends overlap (activation.go).                                   *)
THEOREM OneActivationInForce == ProviderSpec => []OneInForceWhenPublished
<1>1. ProviderInit => OneAtATime
  BY DEF ProviderInit, OneAtATime, OneOf, Confers, Undecided, InForceAt, NoActivation, Idle
<1>2. LocksInv /\ OneAtATime /\ [ProviderNext]_providerVars => OneAtATime'
  BY OneAtATimeStep
<1>3. OneAtATime => OneInForceWhenPublished
  BY DEF OneAtATime, OneOf, Confers, OneInForceWhenPublished
<1> QED
  BY <1>1, <1>2, <1>3, LocksInvariant, PTL DEF ProviderSpec

-----------------------------------------------------------------------------

(* What an event that confers until the time u should say of grant g now. *)
TellsUntil(g, u) ==
    /\ u \in Nat
    /\ \A b \in Activations : Held(g) /\ Confers(b, g, clock) => u = activation[b].ends
    /\ (~Held(g) \/ \A b \in Activations : ~Confers(b, g, clock)) => u <= clock

(* Events are of published grants; none is newer than its grant, one is as new, and those *)
(* that are as new tell what the grant confers.                                           *)
EventsTell ==
    /\ \A e \in events : /\ IsPublished(e.grant) /\ grant[e.grant].state # "none"
                          /\ e.version <= grant[e.grant].version
    /\ \A g \in Grants : IsPublished(g) /\ grant[g].state # "none" =>
          \E e \in events : e.grant = g /\ e.version = grant[g].version
    /\ \A e \in events : e.version = grant[e.grant].version =>
          e.says.status = grant[e.grant].state /\ TellsUntil(e.grant, e.says.until)

(* The latest end of at most one activation. *)
LEMMA MaxOfOne == Max({0}) = 0 /\ \A x \in Nat : Max({0} \cup {x}) = x
<1>1. Max({0}) = 0
  BY DEF Max
<1>2. ASSUME NEW x \in Nat
      PROVE  Max({0} \cup {x}) = x
  <2>1. x \in {0} \cup {x} /\ \A y \in {0} \cup {x} : x >= y
    OBVIOUS
  <2>2. \A z \in {0} \cup {x} : (\A y \in {0} \cup {x} : z >= y) => z = x
    OBVIOUS
  <2> QED
    BY <2>1, <2>2 DEF Max
<1> QED
  BY <1>1, <1>2

(* An event published with a transition tells of it, and no other grant's is disturbed. *)
LEMMA PublishTells ==
    ASSUME LocksInv, EventsTell, NEW g \in Grants, NEW gs \in [Grants -> GrantRecords],
           NEW as, NEW at, Publish(g, gs, as, at), clock' = clock,
           \A h \in Grants \ {g} : gs[h] = grant[h],
           gs[g].state # "none", gs[g].version = grant[g].version,
           grant[g].state # "none" => gs[g].scope = grant[g].scope,
           \A b \in Activations, h \in Grants \ {g} :
              /\ Confers(b, h, clock)' <=> Confers(b, h, clock)
              /\ Confers(b, h, clock) => activation'[b].ends = activation[b].ends,
           gs[g].scope \in PublishedScopes =>
              \E u : u = Conferred(g, gs, as, at).until /\ TellsUntil(g, u)'
    PROVE  EventsTell'
<1>1. /\ grant' \in [Grants -> GrantRecords]
      /\ \A h \in Grants : /\ grant'[h].state = gs[h].state
                           /\ grant'[h].scope = gs[h].scope
                           /\ h # g => grant'[h] = gs[h]
  <2>1. \A e \in events : e.grant \in Grants /\ e.version \in Nat \ {0}
    BY DEF LocksInv, ProviderTypeOK
  <2> QED
    BY ONLY g \in Grants, gs \in [Grants -> GrantRecords], Publish(g, gs, as, at), <2>1, PublishRows
<1>2. \A e \in events : e.grant \in Grants /\ e.version \in Nat /\ grant[e.grant].version \in Nat
  BY DEF LocksInv, ProviderTypeOK, GrantRecords
<1>3. ASSUME NEW h \in Grants \ {g}
      PROVE  /\ grant'[h] = grant[h]
             /\ IsPublished(h)' <=> IsPublished(h)
             /\ \A u : TellsUntil(h, u) => TellsUntil(h, u)'
  <2>1. grant'[h] = grant[h] /\ (Held(h)' <=> Held(h)) /\ (IsPublished(h)' <=> IsPublished(h))
    BY <1>1 DEF IsPublished, Held
  <2> QED
    BY <2>1 DEF TellsUntil
<1>4. CASE gs[g].scope \in PublishedScopes
  <2> DEFINE new == [grant |-> g, version |-> gs[g].version + 1, says |-> Conferred(g, gs, as, at)]
  <2>1. events' = events \cup {new} /\ grant' = [gs EXCEPT ![g].version = gs[g].version + 1]
    BY <1>4 DEF Publish
  <2>2. grant'[g].version = gs[g].version + 1
    BY <2>1 DEF GrantRecords
  <2>3. /\ new.grant = g /\ new.version = grant'[g].version
        /\ new.says.status = grant'[g].state
        /\ TellsUntil(g, new.says.until)'
    BY <1>1, <1>4, <2>2 DEF Conferred
  <2> HIDE DEF new
  <2>4. IsPublished(g)' /\ grant'[g].state # "none"
    BY <1>1, <1>4 DEF IsPublished
  <2>5. \A e \in events : e.grant = g => e.version < grant'[g].version
    BY <1>2, <2>2 DEF EventsTell
  <2>6. new.version <= grant'[g].version
    BY <1>1, <2>3 DEF GrantRecords
  <2>7. \A e \in events' : IsPublished(e.grant)' /\ grant'[e.grant].state # "none"
                                          /\ e.version <= grant'[e.grant].version
    <3>1. \A e \in events : e.grant = g => e.version <= grant'[g].version
      BY <1>1, <1>2, <2>5 DEF GrantRecords
    <3>2. \A e \in events : e.grant # g => IsPublished(e.grant)' /\ grant'[e.grant] = grant[e.grant]
      BY <1>2, <1>3 DEF EventsTell
    <3> QED
      BY <2>1, <2>3, <2>4, <2>6, <3>1, <3>2 DEF EventsTell
  <2>8. \A h \in Grants : IsPublished(h)' /\ grant'[h].state # "none" =>
           \E e \in events' : e.grant = h /\ e.version = grant'[h].version
    BY <1>3, <2>1, <2>3 DEF EventsTell
  <2>9. \A e \in events : e.grant = g => e.version # grant'[g].version
    BY <1>1, <1>2, <2>5 DEF GrantRecords
  <2>10. \A e \in events' : e.version = grant'[e.grant].version =>
            e.says.status = grant'[e.grant].state /\ TellsUntil(e.grant, e.says.until)'
    <3>1. \A e \in events : e.grant # g =>
             /\ grant'[e.grant] = grant[e.grant]
             /\ TellsUntil(e.grant, e.says.until) => TellsUntil(e.grant, e.says.until)'
      BY <1>2, <1>3
    <3> QED
      BY <2>1, <2>3, <2>9, <3>1 DEF EventsTell
  <2> QED
    BY <2>7, <2>8, <2>10 DEF EventsTell
<1>5. CASE gs[g].scope \notin PublishedScopes
  <2>1. grant' = gs /\ events' = events
    BY <1>5 DEF Publish
  <2>2. \A e \in events : e.grant # g
    BY <1>5 DEF EventsTell, IsPublished
  <2>3. ~IsPublished(g)'
    BY <1>5, <2>1 DEF IsPublished
  <2>4. \A e \in events :
           /\ grant'[e.grant] = grant[e.grant] /\ (IsPublished(e.grant)' <=> IsPublished(e.grant))
           /\ TellsUntil(e.grant, e.says.until) => TellsUntil(e.grant, e.says.until)'
    BY <1>2, <1>3, <2>2
  <2>5. \A h \in Grants : IsPublished(h)' => IsPublished(h) /\ grant'[h] = grant[h]
    BY <1>3, <2>3
  <2> QED
    BY <2>1, <2>4, <2>5 DEF EventsTell
<1> QED
  BY <1>4, <1>5

(* Time alone makes no event wrong: what ends, ended at the time its event carries. *)
LEMMA TickTells ==
    ASSUME LocksInv, Tick, NEW g \in Grants, NEW u, TellsUntil(g, u)
    PROVE  TellsUntil(g, u)'
<1>1. clock \in Nat /\ clock' = clock + 1 /\ activation' = activation /\ grant' = grant
  BY DEF Tick, LocksInv, ProviderTypeOK
<1>2. \A b \in Activations : Confers(b, g, clock)' => Confers(b, g, clock)
  BY <1>1, InForceBefore DEF Confers
<1>3. \A b \in Activations : Confers(b, g, clock) /\ ~Confers(b, g, clock)' =>
         activation[b].ends <= clock'
  BY <1>1 DEF Confers, InForceAt, LocksInv, ProviderTypeOK, ActivationRecords
<1>4. Held(g)' <=> Held(g)
  BY <1>1 DEF Held
<1>5. u \in Nat
  BY DEF TellsUntil
<1>6. CASE Held(g) /\ \E b \in Activations : Confers(b, g, clock)
  BY <1>1, <1>2, <1>3, <1>4, <1>5, <1>6 DEF TellsUntil
<1>7. CASE ~(Held(g) /\ \E b \in Activations : Confers(b, g, clock))
  <2>1. u <= clock
    BY <1>7 DEF TellsUntil
  <2>2. u <= clock'
    BY <1>1, <1>5, <2>1
  <2> QED
    BY <1>2, <1>4, <1>5, <1>7, <2>2 DEF TellsUntil
<1> QED
  BY <1>6, <1>7

(* A step that publishes nothing and changes nothing a published grant confers. *)
LEMMA EventsFrame ==
    ASSUME LocksInv, EventsTell, events' = events,
           \A h \in Grants : grant[h].state # "none" => grant'[h] = grant[h],
           \A h \in Grants : grant[h].state = "none" => ~IsPublished(h)',
           \/ Tick
           \/ /\ clock' = clock
              /\ \A b \in Activations, h \in Grants :
                    /\ Confers(b, h, clock)' <=> Confers(b, h, clock)
                    /\ Confers(b, h, clock) => activation'[b].ends = activation[b].ends
    PROVE  EventsTell'
<1>1. ASSUME NEW h \in Grants, grant[h].state # "none", NEW u, TellsUntil(h, u)
      PROVE  TellsUntil(h, u)'
  <2>1. CASE Tick
    BY <1>1, <2>1, TickTells
  <2>2. CASE ~Tick
    <3>1. Held(h)' <=> Held(h)
      BY <1>1 DEF Held
    <3> QED
      BY <1>1, <2>2, <3>1 DEF TellsUntil
  <2> QED
    BY <2>1, <2>2
<1>2. \A e \in events : /\ e.grant \in Grants /\ grant[e.grant].state # "none"
                        /\ grant'[e.grant] = grant[e.grant]
                        /\ IsPublished(e.grant)'
  BY DEF LocksInv, ProviderTypeOK, EventsTell, IsPublished
<1>3. \A h \in Grants : IsPublished(h)' => IsPublished(h) /\ grant'[h] = grant[h]
  BY DEF IsPublished
<1>4. \A e \in events : TellsUntil(e.grant, e.says.until) => TellsUntil(e.grant, e.says.until)'
  BY <1>1, <1>2
<1> QED
  BY <1>2, <1>3, <1>4 DEF EventsTell

(* A grant confers nothing until it is activated, and nothing when it is revoked. *)
LEMMA GrantTells ==
    ASSUME LocksInv, EventsTell, NEW r \in Requests,
           \/ \E g \in Grants, p \in Principals, s \in Scopes, k \in Kinds : Grant(r, g, p, s, k)
           \/ RevokeCommit(r)
    PROVE  EventsTell'
<1>1. clock' = clock /\ activation' = activation /\ clock \in Nat
  BY DEF Grant, RevokeCommit, LocksInv, ProviderTypeOK
<1>2. \A b \in Activations, h \in Grants : Confers(b, h, clock)' <=> Confers(b, h, clock)
  BY <1>1 DEF Confers
<1>3. ASSUME NEW g \in Grants, NEW p \in Principals, NEW s \in Scopes, NEW k \in Kinds,
             Grant(r, g, p, s, k)
      PROVE  EventsTell'
  <2>1. PICK gs \in [Grants -> GrantRecords] :
           /\ gs[g].state = "held" /\ gs[g].scope = s /\ gs[g].version = 0
           /\ grant[g] = NoGrant
           /\ \A h \in Grants \ {g} : gs[h] = grant[h]
           /\ Publish(g, gs, activation, clock)
    BY <1>3, GrantRows
  <2>2. \A b \in Activations : activation[b].of # g
    BY <2>1, NoneBefore DEF NoGrant
  <2>3. Conferred(g, gs, activation, clock).until = 0
    <3>1. Ends(g, activation, clock) = {}
      BY <2>2 DEF Ends
    <3>2. {0} \cup Ends(g, activation, clock) = {0}
      BY <3>1
    <3> QED
      BY <3>2, MaxOfOne DEF Conferred
  <2>4. TellsUntil(g, 0)'
    BY <1>1, <2>2 DEF TellsUntil, Confers
  <2>5. \E u : u = Conferred(g, gs, activation, clock).until /\ TellsUntil(g, u)'
    BY <2>3, <2>4
  <2>6. grant[g].version = 0 /\ grant[g].state = "none"
    BY <2>1 DEF NoGrant
  <2> QED
    BY <1>1, <1>2, <2>1, <2>5, <2>6, PublishTells
<1>4. ASSUME RevokeCommit(r)
      PROVE  EventsTell'
  <2>0. request[r].at \in Nat
    BY DEF LocksInv, ProviderTypeOK, RequestRecords
  <2>1. PICK g \in Grants, at \in Nat :
           g = request[r].on /\ at = request[r].at /\ grant[g].state = "held"
    BY <1>4, <2>0, RevokeRows
  <2>2. PICK gs \in [Grants -> GrantRecords] :
           /\ gs[g].state = "revoked"
           /\ gs[g].scope = grant[g].scope /\ gs[g].version = grant[g].version
           /\ \A h \in Grants \ {g} : gs[h] = grant[h]
           /\ Publish(g, gs, activation, at)
    BY <1>4, <2>1, RevokeRows
  <2>3. Conferred(g, gs, activation, at).until = 0
    BY <2>2 DEF Conferred
  <2>4. ~Held(g)'
    BY <2>2, PublishRows DEF Held, LocksInv, ProviderTypeOK
  <2>5. TellsUntil(g, 0)'
    BY <1>1, <2>4 DEF TellsUntil
  <2>6. \E u : u = Conferred(g, gs, activation, at).until /\ TellsUntil(g, u)'
    BY <2>3, <2>5
  <2> QED
    BY <1>1, <1>2, <2>1, <2>2, <2>6, PublishTells
<1> QED
  BY <1>3, <1>4

(* An activation of a published grant that commits is the only one its event tells of. *)
LEMMA ActivationTells ==
    ASSUME LocksInv, EventsTell, NEW g \in Grants, NEW at \in Nat, at <= clock,
           grant[g].state # "none", Publish(g, grant, activation', at), clock' = clock,
           activation' \in [Activations -> ActivationRecords],
           \A b \in Activations, h \in Grants \ {g} :
              /\ Confers(b, h, clock)' <=> Confers(b, h, clock)
              /\ Confers(b, h, clock) => activation'[b].ends = activation[b].ends,
           IsPublished(g) =>
              \A b, c \in Activations : Confers(b, g, at)' /\ Confers(c, g, at)' => b = c
    PROVE  EventsTell'
<1>1. grant \in [Grants -> GrantRecords] /\ clock \in Nat
  BY DEF LocksInv, ProviderTypeOK
<1>2. grant'[g].state = grant[g].state
  BY <1>1, PublishRows DEF LocksInv, ProviderTypeOK
<1>3. \A b \in Activations : Confers(b, g, clock)' => Confers(b, g, at)'
  BY <1>1 DEF Confers, InForceAt, ActivationRecords
<1>4. ASSUME IsPublished(g)
      PROVE  \E u : u = Conferred(g, grant, activation', at).until /\ TellsUntil(g, u)'
  <2> DEFINE S == Ends(g, activation', at)
  <2>1. CASE grant[g].state = "revoked"
    <3>1. Conferred(g, grant, activation', at).until = 0
      BY <2>1 DEF Conferred
    <3>2. TellsUntil(g, 0)'
      BY <1>1, <1>2, <2>1 DEF TellsUntil, Held
    <3> QED
      BY <3>1, <3>2
  <2>2. CASE grant[g].state # "revoked" /\ \A b \in Activations : ~Confers(b, g, at)'
    <3>1. {0} \cup S = {0}
      BY <2>2 DEF Ends, Confers
    <3>2. Conferred(g, grant, activation', at).until = 0
      BY <2>2, <3>1, MaxOfOne DEF Conferred
    <3>3. TellsUntil(g, 0)'
      BY <1>1, <1>3, <2>2 DEF TellsUntil
    <3> QED
      BY <3>2, <3>3
  <2>3. CASE grant[g].state # "revoked" /\ \E b \in Activations : Confers(b, g, at)'
    <3>1. PICK b \in Activations : Confers(b, g, at)'
      BY <2>3
    <3>2. \A c \in Activations : Confers(c, g, at)' => c = b
      BY <1>4, <3>1
    <3>3. PICK u \in Nat : u = activation'[b].ends
      BY DEF ActivationRecords
    <3>4. {0} \cup S = {0} \cup {u}
      <4>1. {c \in Activations : activation'[c].of = g /\ InForceAt(activation'[c], at)} = {b}
        BY <3>1, <3>2 DEF Confers
      <4> QED
        BY <3>3, <4>1 DEF Ends
    <3>5. Conferred(g, grant, activation', at).until = u
      BY <2>3, <3>4, MaxOfOne DEF Conferred
    <3>6. Confers(b, g, clock)' \/ u <= clock
      BY <1>1, <3>1, <3>3 DEF Confers, InForceAt, ActivationRecords
    <3>7. TellsUntil(g, u)'
      <4>1. \A c \in Activations : Confers(c, g, clock)' => u = activation'[c].ends
        BY <1>3, <3>2, <3>3
      <4>2. Held(g)'
        BY <1>1, <1>2, <2>3 DEF Held, GrantRecords
      <4> QED
        BY <3>6, <4>1, <4>2 DEF TellsUntil
    <3> QED
      BY <3>5, <3>7
  <2> QED
    BY <2>1, <2>2, <2>3
<1> QED
  BY <1>1, <1>4, PublishTells DEF IsPublished

(* Commands on activations: published where they change what is conferred. *)
LEMMA CommandsTell ==
    ASSUME LocksInv, OneAtATime, EventsTell, NEW r \in Requests,
           \/ \E a \in Activations, d \in Durations, ar \in ApprovalPolicies :
                 RequestCommit(r, a, d, ar)
           \/ \E d \in {"approved", "denied"} : DecideCommit(r, d)
           \/ \E a \in Activations : End(r, a)
    PROVE  EventsTell'
<1>1. PICK at \in Nat : at = request[r].at
  BY DEF LocksInv, ProviderTypeOK, RequestRecords
<1>2. request[r].step # "idle" => at <= clock
  BY <1>1 DEF LocksInv, AdmittedLater
<1>3. ASSUME NEW a \in Activations, NEW d \in Durations, NEW ar \in ApprovalPolicies,
             RequestCommit(r, a, d, ar)
      PROVE  EventsTell'
  <2>1. PICK g \in Grants : g = request[r].on
    BY <1>3, RequestRows
  <2>2. \A b \in Activations \ {a}, h \in Grants : \A t :
           /\ Confers(b, h, t)' <=> Confers(b, h, t)
           /\ activation'[b].ends = activation[b].ends
    BY <1>3, RequestRows DEF Confers, InForceAt
  <2>3. activation'[a].of = g /\ \A h \in Grants : \A t : ~Confers(a, h, t)
    BY <1>3, <2>1, RequestRows DEF Confers, InForceAt, NoActivation
  <2>4. \A b \in Activations, h \in Grants \ {g} :
           /\ Confers(b, h, clock)' <=> Confers(b, h, clock)
           /\ Confers(b, h, clock) => activation'[b].ends = activation[b].ends
    BY <1>3, <2>2, <2>3, RequestRows DEF Confers
  <2>5. CASE ar
    <3>1. \A h \in Grants : ~Confers(a, h, clock)'
      BY <1>3, <2>5, RequestRows DEF Confers, InForceAt
    <3>2. \A b \in Activations, h \in Grants :
             /\ Confers(b, h, clock)' <=> Confers(b, h, clock)
             /\ Confers(b, h, clock) => activation'[b].ends = activation[b].ends
      BY <1>3, <2>2, <2>3, <3>1, RequestRows DEF Confers
    <3>3. grant' = grant /\ events' = events /\ clock' = clock
      BY <1>3, <2>5, RequestRows
    <3>4. \A h \in Grants : grant[h].state = "none" => ~IsPublished(h)'
      BY <3>3 DEF LocksInv, RowsOK, NoGrant, IsPublished, PublishedScopes, Governing, IdentityControl
    <3> QED
      BY <3>2, <3>3, <3>4, EventsFrame
  <2>6. CASE ~ar
    <3>1. IsPublished(g) => \A b \in Activations : ~Confers(b, g, at)
      BY <1>1, <1>3, <2>1, RequestRows DEF OneAtATime, OneOf
    <3>2. IsPublished(g) => \A b \in Activations : Confers(b, g, at)' => b = a
      BY <2>2, <3>1
    <3> QED
      BY <1>1, <1>2, <1>3, <2>1, <2>4, <2>6, <3>2, RequestRows, ActivationTells
  <2> QED
    BY <2>5, <2>6
<1>4. ASSUME NEW d \in {"approved", "denied"}, DecideCommit(r, d)
      PROVE  EventsTell'
  <2>1. PICK a \in Activations, g \in Grants : a = request[r].on /\ g = activation[a].of
    BY <1>4, DecideRows
  <2>2. /\ \A b \in Activations \ {a} : activation'[b] = activation[b]
        /\ activation'[a].of = g /\ activation'[a].decision = d /\ activation[a].decision = "pending"
        /\ clock' = clock
    BY <1>4, <2>1, DecideRows
  <2>3. \A b \in Activations \ {a}, h \in Grants : \A t :
           /\ Confers(b, h, t)' <=> Confers(b, h, t)
           /\ activation'[b].ends = activation[b].ends
    BY <2>2 DEF Confers, InForceAt
  <2>4. \A h \in Grants : \A t : ~Confers(a, h, t)
    BY <2>2 DEF Confers, InForceAt
  <2>5. \A b \in Activations, h \in Grants \ {g} :
           /\ Confers(b, h, clock)' <=> Confers(b, h, clock)
           /\ Confers(b, h, clock) => activation'[b].ends = activation[b].ends
    BY <2>2, <2>3, <2>4 DEF Confers
  <2>6. CASE d = "denied"
    <3>1. \A h \in Grants : ~Confers(a, h, clock)'
      BY <2>2, <2>6 DEF Confers, InForceAt
    <3>2. \A b \in Activations, h \in Grants :
             /\ Confers(b, h, clock)' <=> Confers(b, h, clock)
             /\ Confers(b, h, clock) => activation'[b].ends = activation[b].ends
      BY <2>2, <2>3, <2>4, <3>1 DEF Confers
    <3>3. grant' = grant /\ events' = events
      BY <1>4, <2>6, DecideRows
    <3>4. \A h \in Grants : grant[h].state = "none" => ~IsPublished(h)'
      BY <3>3 DEF LocksInv, RowsOK, NoGrant, IsPublished, PublishedScopes, Governing, IdentityControl
    <3> QED
      BY <2>2, <3>2, <3>3, <3>4, EventsFrame
  <2>7. CASE d = "approved"
    <3>1. IsPublished(g) => \A b \in Activations : ~Confers(b, g, at)
      BY <1>1, <1>4, <2>1, DecideRows DEF OneAtATime, OneOf
    <3>2. IsPublished(g) => \A b \in Activations : Confers(b, g, at)' => b = a
      BY <2>3, <3>1
    <3> QED
      BY <1>1, <1>2, <1>4, <2>1, <2>5, <2>7, <3>2, DecideRows, ActivationTells
  <2> QED
    BY <2>6, <2>7
<1>5. ASSUME NEW a \in Activations, End(r, a)
      PROVE  EventsTell'
  <2>1. PICK g \in Grants, t \in Nat : g = activation[a].of /\ t = clock
    BY <1>5, EndRows DEF LocksInv, ProviderTypeOK
  <2>2. /\ \A b \in Activations \ {a} : activation'[b] = activation[b]
        /\ activation'[a].of = g /\ activation'[a].ended /\ InForceAt(activation[a], clock)
        /\ clock' = clock
    BY <1>5, <2>1, EndRows
  <2>3. \A b \in Activations \ {a}, h \in Grants : \A u :
           /\ Confers(b, h, u)' <=> Confers(b, h, u)
           /\ activation'[b].ends = activation[b].ends
    BY <2>2 DEF Confers, InForceAt
  <2>4. \A b \in Activations, h \in Grants \ {g} :
           /\ Confers(b, h, clock)' <=> Confers(b, h, clock)
           /\ Confers(b, h, clock) => activation'[b].ends = activation[b].ends
    BY <2>1, <2>2, <2>3 DEF Confers
  <2>5. IsPublished(g) => \A b \in Activations : Confers(b, g, clock) => b = a
    BY <2>1, <2>2 DEF OneAtATime, OneOf, Confers
  <2>6. IsPublished(g) => \A b \in Activations : ~Confers(b, g, t)'
    <3>1. ~Confers(a, g, t)'
      BY <2>2 DEF Confers, InForceAt
    <3> QED
      BY <2>1, <2>3, <2>5, <3>1
  <2> QED
    BY <1>5, <2>1, <2>4, <2>6, EndRows, ActivationTells
<1> QED
  BY <1>3, <1>4, <1>5

(* Every step keeps the events true. *)
LEMMA EventsTellStep ==
    ASSUME LocksInv, OneAtATime, EventsTell, [ProviderNext]_providerVars
    PROVE  EventsTell'
<1>1. ASSUME UNCHANGED <<grant, events>>, Tick \/ (clock' = clock /\ activation' = activation)
      PROVE  EventsTell'
  <2>1. \A h \in Grants : grant[h].state = "none" => ~IsPublished(h)'
    BY <1>1 DEF LocksInv, RowsOK, NoGrant, IsPublished, PublishedScopes, Governing, IdentityControl
  <2>2. Tick \/ /\ clock' = clock
                /\ \A b \in Activations, h \in Grants :
                      /\ Confers(b, h, clock)' <=> Confers(b, h, clock)
                      /\ Confers(b, h, clock) => activation'[b].ends = activation[b].ends
    BY <1>1 DEF Confers
  <2> QED
    BY <1>1, <2>1, <2>2, EventsFrame
<1>2. CASE UNCHANGED providerVars
  BY <1>1, <1>2 DEF providerVars
<1>3. ASSUME NEW p \in Principals, NEW g \in Grants, Bootstrap(p, g)
      PROVE  EventsTell'
  <2>1. /\ events' = events /\ clock' = clock /\ activation' = activation
        /\ \A h \in Grants : grant[h].state = "none" /\ grant[h].scope = Governing
    BY <1>3 DEF Bootstrap, NoGrant
  <2>2. \A h \in Grants : ~IsPublished(h)'
    BY <1>3, <2>1 DEF Bootstrap, IsPublished, PublishedScopes, Governing, IdentityControl, LocksInv,
                      ProviderTypeOK
  <2>3. \A b \in Activations, h \in Grants : Confers(b, h, clock)' <=> Confers(b, h, clock)
    BY <2>1 DEF Confers
  <2> QED
    BY <2>1, <2>2, <2>3, EventsFrame
<1>4. CASE Tick
  BY <1>1, <1>4 DEF Tick
<1>5. ASSUME NEW r \in Requests,
             \/ Abandon(r)
             \/ \E p \in Principals : Admit(r, p)
             \/ \E g \in Grants : RevokeLock(r, g) \/ RequestLock(r, g)
             \/ \E a \in Activations : DecideLock(r, a)
      PROVE  EventsTell'
  BY <1>1, <1>5 DEF Abandon, Admit, RevokeLock, RequestLock, DecideLock
<1> QED
  BY <1>2, <1>3, <1>4, <1>5, GrantTells, CommandsTell DEF ProviderNext

(* publication.go, publish: the newest events of a published grant, by version and not by  *)
(* the order they are delivered in, say what it confers now and until when.               *)
THEOREM LatestEventIsRight == ProviderSpec => []LatestEventTellsTheGrant
<1>1. ProviderInit => OneAtATime /\ EventsTell
  BY DEF ProviderInit, OneAtATime, EventsTell, IsPublished, NoGrant, PublishedScopes, Governing,
         IdentityControl
<1>2. LocksInv /\ OneAtATime /\ EventsTell /\ [ProviderNext]_providerVars => (OneAtATime /\ EventsTell)'
  BY OneAtATimeStep, EventsTellStep
<1>3. LocksInv /\ OneAtATime /\ EventsTell => LatestEventTellsTheGrant
  <2> SUFFICES ASSUME LocksInv, OneAtATime, EventsTell, NEW g \in Grants, grant[g] # NoGrant,
                      IsPublished(g)
               PROVE  LET latest == {e \in events : e.grant = g /\
                                        \A f \in events : f.grant = g => f.version <= e.version}
                          ends == Ends(g, activation, clock)
                      IN  /\ latest # {}
                          /\ \A e \in latest :
                                /\ e.version = grant[g].version
                                /\ e.says.status = grant[g].state
                                /\ IF Held(g) /\ ends # {} THEN e.says.until = Max(ends)
                                   ELSE e.says.until <= clock
    BY DEF LatestEventTellsTheGrant
  <2> DEFINE latest == {e \in events : e.grant = g /\
                           \A f \in events : f.grant = g => f.version <= e.version}
             ends == Ends(g, activation, clock)
  <2>1. grant[g].state # "none"
    BY DEF LocksInv, RowsOK
  <2>2. \A e \in events : e.grant = g => /\ e.version \in Nat /\ grant[g].version \in Nat
                                        /\ e.version <= grant[g].version
    BY DEF LocksInv, ProviderTypeOK, GrantRecords, EventsTell
  <2>3. PICK e0 \in events : e0.grant = g /\ e0.version = grant[g].version
    BY <2>1 DEF EventsTell
  <2>4. e0 \in latest
    BY <2>2, <2>3
  <2>5. ASSUME NEW e \in latest
        PROVE  /\ e.version = grant[g].version
               /\ e.says.status = grant[g].state
               /\ IF Held(g) /\ ends # {} THEN e.says.until = Max(ends) ELSE e.says.until <= clock
    <3>1. e.version = grant[g].version
      BY <2>2, <2>3
    <3>2. e.says.status = grant[g].state /\ TellsUntil(g, e.says.until)
      BY <3>1 DEF EventsTell
    <3>3. CASE Held(g) /\ ends # {}
      <4>1. PICK b \in Activations : Confers(b, g, clock)
        BY <3>3 DEF Ends, Confers
      <4>2. \A c \in Activations : Confers(c, g, clock) => c = b
        BY <4>1 DEF OneAtATime, OneOf
      <4>3. ends = {activation[b].ends}
        BY <4>1, <4>2 DEF Ends, Confers
      <4>4. activation[b].ends \in Nat
        BY DEF LocksInv, ProviderTypeOK, ActivationRecords
      <4>5. Max(ends) = activation[b].ends
        BY <4>3, <4>4 DEF Max
      <4> QED
        BY <3>1, <3>2, <3>3, <4>1, <4>5 DEF TellsUntil
    <3>4. CASE ~(Held(g) /\ ends # {})
      <4>1. ~Held(g) \/ \A b \in Activations : ~Confers(b, g, clock)
        BY <3>4 DEF Ends, Confers
      <4> QED
        BY <3>1, <3>2, <3>4, <4>1 DEF TellsUntil
    <3> QED
      BY <3>3, <3>4
  <2> QED
    BY <2>4, <2>5
<1> QED
  BY <1>1, <1>2, <1>3, LocksInvariant, PTL DEF ProviderSpec
==============================================================================
