-------------------------- MODULE MCConsumerRegistry --------------------------
(***************************************************************************)
(* The consumer registry on a small instance.  MCScope bounds the          *)
(* behaviours to the union of four: two events committing in either order, *)
(* with one request in flight; requests that overlap while a Membership or *)
(* Tenant event commits and the consumer is registered anew; dead letters  *)
(* and waivers; and requests that overlap while two Membership events      *)
(* commit, under one subscription.                                         *)
(***************************************************************************)
EXTENDS ConsumerRegistry, TLC

Symmetric == Permutations(Requests)

NamedTypes == {stream[p] : p \in Committed}
                  \cup UNION {consumer[c].types : c \in Consumers}
                  \cup UNION {request[r].types : r \in Requests}

OneRequest == Cardinality({r \in Requests : ~Free(r)}) <= 1
OneEvent == \A p \in Positions \ {1} : stream[p] = NoOne
OneSubscription == \A c \in Consumers : consumer[c].writings <= 1
NoDeadLetter == \A d \in DOMAIN dead : dead[d] = NoIncident
OneSnapshot == \E t \in {"tenant", "provider"} : NamedTypes \subseteq {"membership", t}

StreamScope == OneRequest /\ NoDeadLetter /\ OneSnapshot
OverlapScope == OneEvent /\ NoDeadLetter /\ NamedTypes \subseteq OrganizationSnapshotTypes
IncidentScope == OneRequest /\ OneEvent /\ Cardinality(NamedTypes) <= 2
OrderScope == OneSubscription /\ NoDeadLetter /\ NamedTypes \subseteq {"membership"}

MCScope == StreamScope \/ OverlapScope \/ IncidentScope \/ OrderScope
==============================================================================
