-------------------------- MODULE ProviderAuthority --------------------------
(***************************************************************************)
(* Provider grants and their activations: internal/authority/authority.go, *)
(* administration.go, activation.go, publication.go, and the admission of  *)
(* a provider request in internal/httpapi/authentication.go.               *)
(*                                                                         *)
(* A request is admitted on a standing read in a transaction of its own,   *)
(* then performed in another.  The transactions are READ COMMITTED: each   *)
(* statement sees what is committed when it starts, and only a locked row  *)
(* stays as it was read.  A transaction is therefore split after its first *)
(* locks, and its second step commits.  now() is its first step's time,    *)
(* the process's clock and the database's agree.  A transaction may end at *)
(* any time with nothing done: refused, a deadlock's victim, or crashed.   *)
(***************************************************************************)
EXTENDS Naturals, FiniteSets, FiniteSetsExt

CONSTANTS
    Principals,        \* the people who may be providers
    Grants,            \* identifiers for provider grants
    Activations,       \* identifiers for activations
    Requests,          \* requests in flight at one time
    ApprovalPolicies,  \* ActivationPolicy.ApprovalRequired, of the processes running
    Durations,         \* durations that may be asked for, in ticks
    PendingLifetime,   \* ticks after which a pending activation lapses
    MaxClock,          \* bound on time
    NoOne              \* no principal, grant or activation

ASSUME ProviderAssumption ==
    /\ ApprovalPolicies \subseteq BOOLEAN
    /\ Durations \subseteq Nat \ {0}
    /\ PendingLifetime \in Nat /\ MaxClock \in Nat
    /\ NoOne \notin Principals \cup Grants \cup Activations

VARIABLES
    clock,        \* the time
    grant,        \* organization.provider_grant
    activation,   \* organization.provider_activation
    events,       \* provider grant events published
    request       \* the requests in flight

providerVars == <<clock, grant, activation, events, request>>

Governing == "organization-control"
IdentityControl == "identity-control"
Scopes == {Governing, IdentityControl}
PublishedScopes == {IdentityControl}
Kinds == {"eligible", "emergency"}

NoGrant == [state |-> "none", principal |-> NoOne, scope |-> Governing, kind |-> "eligible",
            version |-> 0]
NoActivation == [of |-> NoOne, decision |-> "none", requested |-> 0, duration |-> 0, ends |-> 0,
                 ended |-> FALSE]
Idle == [step |-> "idle", by |-> NoOne, inForce |-> FALSE, on |-> NoOne, locked |-> {}, at |-> 0]

ProviderInit ==
    /\ clock = 0
    /\ grant = [g \in Grants |-> NoGrant]
    /\ activation = [a \in Activations |-> NoActivation]
    /\ events = {}
    /\ request = [r \in Requests |-> Idle]

Held(g) == grant[g].state = "held"
IsPublished(g) == grant[g].scope \in PublishedScopes

(* decision = 'approved' AND ended_at IS NULL AND now() < ends_at. *)
InForceAt(a, at) == a.decision = "approved" /\ ~a.ended /\ at < a.ends

Holds(p, scope) == \E g \in Grants : Held(g) /\ grant[g].principal = p /\ grant[g].scope = scope

(* No other request holds the row of grant or activation x. *)
Free(r, x) == \A q \in Requests \ {r} : x \notin request[q].locked

-----------------------------------------------------------------------------

(* The first grant: an emergency one, for nobody could approve an activation yet. *)
Bootstrap(p, g) ==
    /\ \A h \in Grants : grant[h] = NoGrant
    /\ grant' = [grant EXCEPT ![g] = [state |-> "held", principal |-> p, scope |-> Governing,
                                      kind |-> "emergency", version |-> 0]]
    /\ UNCHANGED <<clock, activation, events, request>>

(* standingStatement: authority in force over this service. *)
InForce(p) ==
    \E g \in Grants :
        /\ Held(g) /\ grant[g].principal = p /\ grant[g].scope = Governing
        /\ \/ grant[g].kind = "emergency"
           \/ \E a \in Activations : activation[a].of = g /\ InForceAt(activation[a], clock)

(* authorize: a holder of any grant is admitted, and in force or only eligible. *)
Admit(r, p) ==
    /\ request[r] = Idle
    /\ \E g \in Grants : Held(g) /\ grant[g].principal = p
    /\ request' = [request EXCEPT ![r] =
                     [Idle EXCEPT !.step = "admitted", !.by = p, !.inForce = InForce(p)]]
    /\ UNCHANGED <<clock, grant, activation, events>>

(* The request holds the rows until its second step. *)
Enter(r, step, on, rows) ==
    request' = [request EXCEPT ![r] = [@ EXCEPT !.step = step, !.on = on, !.locked = rows,
                                                !.at = clock]]

Answer(r) == request' = [request EXCEPT ![r] = Idle]

-----------------------------------------------------------------------------

(* The ends of g's activations in force, among the rows as. *)
Ends(g, as, at) == {as[a].ends : a \in {b \in Activations : as[b].of = g /\ InForceAt(as[b], at)}}

(* Mutant: the event is built before the transition is written. *)
ConferredBefore(g, gs, as, at) ==
    [status |-> "held", until |-> Max({0} \cup Ends(g, activation, at))]

(* grantStateStatement: the grant's status and the latest end of its activations in    *)
(* force, 0 for none.  A revoked grant carries none.                                   *)
Conferred(g, gs, as, at) ==
    [status |-> gs[g].state,
     until |-> IF gs[g].state = "revoked" THEN 0 ELSE Max({0} \cup Ends(g, as, at))]

(* publish: the grant's version advances and an event carries what it confers.  gs and *)
(* as are the rows as the transition left them.                                        *)
Publish(g, gs, as, at) ==
    LET version == gs[g].version + 1 IN
    IF gs[g].scope \in PublishedScopes
    THEN /\ grant' = [gs EXCEPT ![g].version = version]
         /\ events' = events \cup
                {[grant |-> g, version |-> version, says |-> Conferred(g, gs, as, at)]}
    ELSE grant' = gs /\ events' = events

(* Administration.Grant: the unique index refuses a second unrevoked grant of a scope. *)
Grant(r, g, p, scope, kind) ==
    /\ request[r].step = "admitted" /\ request[r].inForce
    /\ grant[g] = NoGrant
    /\ ~Holds(p, scope)
    /\ Publish(g, [grant EXCEPT ![g] = [state |-> "held", principal |-> p, scope |-> scope,
                                        kind |-> kind, version |-> 0]], activation, clock)
    /\ Answer(r)
    /\ UNCHANGED <<clock, activation>>

(* Mutant: the grants are read without FOR UPDATE. *)
NothingLocked == {}

(* lockActiveStatement: every unrevoked grant, FOR UPDATE. *)
LockActive == {g \in Grants : Held(g)}

(* Revoke: the grants are locked and counted, and the last governing one is kept. *)
RevokeLock(r, g) ==
    /\ request[r].step = "admitted" /\ request[r].inForce
    /\ \A h \in LockActive : Free(r, h)
    /\ Held(g)
    /\ grant[g].scope = Governing =>
          Cardinality({h \in Grants : Held(h) /\ grant[h].scope = Governing}) # 1
    /\ Enter(r, "revoking", g, LockActive)
    /\ UNCHANGED <<clock, grant, activation, events>>

RevokeCommit(r) ==
    LET g == request[r].on IN
    /\ request[r].step = "revoking"
    /\ Held(g)
    /\ Publish(g, [grant EXCEPT ![g].state = "revoked"], activation, request[r].at)
    /\ Answer(r)
    /\ UNCHANGED <<clock, activation>>

-----------------------------------------------------------------------------

(* Mutant: the grant is read without FOR UPDATE. *)
NoGrantLocked(g) == {}

(* grantForActivationStatement: the grant asked for, FOR UPDATE. *)
LockGrant(g) == {g}

(* Activations.Request, first statements: the caller's own eligible grant, no activation *)
(* of it in force.                                                                       *)
RequestLock(r, g) ==
    /\ request[r].step = "admitted"
    /\ \A h \in LockGrant(g) : Free(r, h)
    /\ Held(g) /\ grant[g].principal = request[r].by /\ grant[g].kind = "eligible"
    /\ \A a \in Activations : ~(activation[a].of = g /\ InForceAt(activation[a], clock))
    /\ Enter(r, "requesting", g, LockGrant(g))
    /\ UNCHANGED <<clock, grant, activation, events>>

Pending(g) == {a \in Activations : activation[a].of = g /\ activation[a].decision = "pending"}

(* Activations.Request, later statements: an old pending request lapses, a younger one   *)
(* refuses this; without approval the new one is approved at once.                       *)
RequestCommit(r, a, duration, approvalRequired) ==
    LET g == request[r].on
        at == request[r].at
        lapsed == {b \in Pending(g) : activation[b].requested + PendingLifetime <= at}
        asked == [of |-> g, requested |-> at, duration |-> duration, ended |-> FALSE,
                  decision |-> IF approvalRequired THEN "pending" ELSE "approved",
                  ends |-> IF approvalRequired THEN 0 ELSE at + duration]
        next == [b \in Activations |-> IF b = a THEN asked
                                       ELSE IF b \in lapsed
                                       THEN [activation[b] EXCEPT !.decision = "lapsed"]
                                       ELSE activation[b]]
    IN  /\ request[r].step = "requesting"
        /\ activation[a] = NoActivation
        /\ \A b \in lapsed : Free(r, b)
        /\ Pending(g) = lapsed
        /\ activation' = next
        /\ IF approvalRequired THEN UNCHANGED <<grant, events>> ELSE Publish(g, grant, next, at)
        /\ Answer(r)
        /\ UNCHANGED clock

(* Decide: the activation's row is locked, the decider's grant only read. *)
DecideLock(r, a) ==
    LET row == activation[a] IN
    /\ request[r].step = "admitted"
    /\ Free(r, a)
    /\ row.decision = "pending"
    /\ Holds(request[r].by, grant[row.of].scope)
    /\ grant[row.of].principal # request[r].by
    /\ clock <= row.requested + PendingLifetime
    /\ Enter(r, "deciding", a, {a})
    /\ UNCHANGED <<clock, grant, activation, events>>

(* Decide: the grant is neither locked nor looked at again, but the version an approval *)
(* of a published scope advances is the grant's own row.                                *)
DecideCommit(r, decision) ==
    LET a == request[r].on
        at == request[r].at
        g == activation[a].of
        next == [activation EXCEPT ![a].decision = decision,
                   ![a].ends = IF decision = "approved" THEN at + activation[a].duration ELSE 0]
    IN  /\ request[r].step = "deciding"
        /\ activation' = next
        /\ IF decision = "approved"
           THEN (IsPublished(g) => Free(r, g)) /\ Publish(g, grant, next, at)
           ELSE UNCHANGED <<grant, events>>
        /\ Answer(r)
        /\ UNCHANGED clock

(* End: by the activation's holder, or by one who was in force when admitted. *)
End(r, a) ==
    LET g == activation[a].of
        next == [activation EXCEPT ![a].ended = TRUE]
    IN  /\ request[r].step = "admitted"
        /\ Free(r, a)
        /\ InForceAt(activation[a], clock)
        /\ grant[g].principal = request[r].by \/ request[r].inForce
        /\ IsPublished(g) => Free(r, g)
        /\ activation' = next
        /\ Publish(g, grant, next, clock)
        /\ Answer(r)
        /\ UNCHANGED clock

-----------------------------------------------------------------------------

Abandon(r) ==
    /\ request[r] # Idle
    /\ Answer(r)
    /\ UNCHANGED <<clock, grant, activation, events>>

Tick ==
    /\ clock < MaxClock
    /\ clock' = clock + 1
    /\ UNCHANGED <<grant, activation, events, request>>

ProviderNext ==
    \/ \E p \in Principals, g \in Grants : Bootstrap(p, g)
    \/ \E r \in Requests :
          \/ \E p \in Principals : Admit(r, p)
          \/ \E g \in Grants, p \in Principals, s \in Scopes, k \in Kinds : Grant(r, g, p, s, k)
          \/ \E g \in Grants : RevokeLock(r, g) \/ RequestLock(r, g)
          \/ RevokeCommit(r)
          \/ \E a \in Activations, d \in Durations, ar \in ApprovalPolicies :
                RequestCommit(r, a, d, ar)
          \/ \E a \in Activations : DecideLock(r, a) \/ End(r, a)
          \/ \E d \in {"approved", "denied"} : DecideCommit(r, d)
          \/ Abandon(r)
    \/ Tick

ProviderSpec == ProviderInit /\ [][ProviderNext]_providerVars

-----------------------------------------------------------------------------

(* lockActiveStatement: "two revocations cannot both count the other as the one that   *)
(* remains".  Once the first grant is made, an unrevoked grant of this service's scope *)
(* remains, whatever requests run beside each other.                                   *)
GoverningGrantRemains ==
    (\E g \in Grants : grant[g] # NoGrant) => \E p \in Principals : Holds(p, Governing)

(* publication.go: "delivery order never decides which state is newer".  The events of *)
(* a published grant's highest version, all alike, say what the grant confers now: a   *)
(* revoked grant nothing, a held one its kind and the activation in force, until the   *)
(* same time.                                                                          *)
LatestEventTellsTheGrant ==
    \A g \in Grants : grant[g] # NoGrant /\ IsPublished(g) =>
        LET latest == {e \in events : e.grant = g /\
                          \A f \in events : f.grant = g => f.version <= e.version}
            ends == Ends(g, activation, clock)
        IN  /\ latest # {}
            /\ \A e \in latest :
                  /\ e.version = grant[g].version
                  /\ e.says.status = grant[g].state
                  /\ IF Held(g) /\ ends # {} THEN e.says.until = Max(ends) ELSE e.says.until <= clock

(* "At most one activation of it is in force" (standingStatement's comment), where the *)
(* grant is published: an approval must then take the row that a request holds.        *)
OneInForceWhenPublished ==
    \A g \in Grants : IsPublished(g) =>
        \A a, b \in Activations :
            /\ activation[a].of = g /\ InForceAt(activation[a], clock)
            /\ activation[b].of = g /\ InForceAt(activation[b], clock)
            => a = b
==============================================================================
