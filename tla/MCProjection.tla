---------------------------- MODULE MCProjection ----------------------------
(***************************************************************************)
(* The projection on small instances.  MCScope bounds the behaviours of    *)
(* the safety run to the union of three: the deliveries, dead letters and  *)
(* sweeps of one Membership; a Tenant that changes, with a bootstrap; and  *)
(* two Memberships read by a bootstrap page by page.                       *)
(***************************************************************************)
EXTENDS Projection

Incidents == Cardinality(dead \cup closed)

OneMembership == \A m \in Memberships \ {1} : mem[m] = NoMembership

DeliveryScope == tenant.sec = 1 /\ boot.count = 0 /\ OneMembership

TenantScope == mem[1].version <= 1 /\ OneMembership /\ Incidents <= 2 /\ sweep = NoSweep

PagingScope ==
    /\ tenant.sec = 1 /\ sweep = NoSweep /\ Incidents <= 1
    /\ \A m \in Memberships : mem[m].version <= 2

MCScope == DeliveryScope \/ TenantScope \/ PagingScope
==============================================================================
