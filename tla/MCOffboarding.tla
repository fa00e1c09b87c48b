--------------------------- MODULE MCOffboarding ---------------------------
(***************************************************************************)
(* One Tenant, with every Membership another Principal's.  MCScope bounds  *)
(* the behaviours to the union of two: one offboarding without obligations *)
(* that two freeze requests work at, on two Memberships; and two           *)
(* offboardings, one after the other, of a Tenant with one Membership, one *)
(* freeze request and an obligation.  The steps that w1 is fair to leave   *)
(* neither scope, so the bound takes no step from a fair behaviour.        *)
(***************************************************************************)
EXTENDS Offboarding

CONSTANTS w1, w2

MCDistinct == [m \in 1..NMemberships |-> m]

WorkersScope ==
    /\ off[2].stage = "none"
    /\ \A b \in Obligations : obligation[1][b] = "none"

SequenceScope ==
    /\ mem[2] = "none" /\ admitted[2] = "none" /\ worker[w2] = Idle
    /\ off[2].stage # "none" =>
          /\ \A o \in Offboardings : ~off[o].hold
          /\ \A b \in Obligations : obligation[1][b] \in {"none", "cancelled"}

MCScope == WorkersScope \/ SequenceScope

MCSpec == OffboardingSpec /\ OffboardingFairness(w1)
==============================================================================
