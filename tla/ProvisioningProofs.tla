------------------------- MODULE ProvisioningProofs -------------------------
(***************************************************************************)
(* The safety properties of Provisioning, proved for every set of Tenants  *)
(* and any number of provisioning requests of each.                        *)
(*                                                                         *)
(* Beside the properties themselves the inductive invariant says what the  *)
(* two requests in flight still know when they commit: a Tenant that is    *)
(* asked for is not there yet, although the sponsor may have retired       *)
(* meanwhile, and one that is being activated is still provisioning on a   *)
(* realized request, under a sponsor that has not retired.                 *)
(***************************************************************************)
EXTENDS Provisioning, SequenceTheorems, TLAPS

AttemptStates == {"requested", "unresolved", "realized", "failed"}

ProvisioningTypeOK ==
    /\ parent \in {"none", "active", "retired"}
    /\ sponsor \in {"none", "active", "suspended", "retired"}
    /\ status \in [Tenants -> TenantStates \cup {"none"}]
    /\ attempts \in [Tenants -> Seq(AttemptStates)]
    /\ asking \subseteq Tenants
    /\ activating \subseteq Tenants

(* What holds of each Tenant.  The second to fourth conjunct are what the properties lack. *)
TenantOK(t) ==
    /\ status[t] \in {"none", "requested", "provisioning", "failed", "active", "retired"}
    /\ status[t] = "none" <=> attempts[t] = << >>
    /\ t \in asking => status[t] = "none"
    /\ t \in activating => /\ status[t] = "provisioning" /\ Latest(t) = "realized"
                           /\ sponsor # "retired"
    /\ status[t] = "requested" => Latest(t) \in Outstanding
    /\ status[t] = "provisioning" => Latest(t) # "failed"
    /\ status[t] = "failed" => Latest(t) = "failed"
    /\ status[t] \in {"active", "retired"} => Latest(t) = "realized"
    /\ \A k \in DOMAIN attempts[t] : k < Len(attempts[t]) => attempts[t][k] = "failed"
    /\ sponsor = "retired" => status[t] # "active"

ProvisioningInv == ProvisioningTypeOK /\ \A t \in Tenants : TenantOK(t)

-----------------------------------------------------------------------------

(* Where the Tenant's transitions lead. *)
LEMMA TenantMoves ==
    /\ TenantFrom("provision") = {"requested", "failed"} /\ TenantTo("provision") = "provisioning"
    /\ TenantTo("fail") = "failed"
    /\ TenantFrom("activate") = {"provisioning"} /\ TenantTo("activate") = "active"
    /\ TenantTo("retire") = "retired"
  BY Zenon DEF TenantFrom, TenantTo

(* An outcome moves a Tenant only where advance says so. *)
LEMMA Outcomes ==
    ASSUME NEW s, NEW to
    PROVE  AfterOutcome(s, to) = IF to = "realized" /\ s = "requested" THEN "provisioning"
                                 ELSE IF to = "failed" /\ s \in {"requested", "provisioning"}
                                 THEN "failed" ELSE s
<1>1. CASE to = "realized" /\ s = "requested"
  BY <1>1, TenantMoves DEF AfterOutcome
<1>2. CASE to = "failed" /\ s \in {"requested", "provisioning"}
  BY <1>2, TenantMoves DEF AfterOutcome
<1>3. CASE ~(to = "realized" /\ s = "requested") /\ ~(to = "failed" /\ s \in {"requested", "provisioning"})
  BY <1>3 DEF AfterOutcome
<1> QED
  BY <1>1, <1>2, <1>3

(* One request recorded: the others stay, and the last is the last. *)
LEMMA RecordOne ==
    ASSUME NEW s \in Seq(AttemptStates), NEW k \in DOMAIN s, NEW e \in AttemptStates,
           NEW n, n = [s EXCEPT ![k] = e]
    PROVE  /\ n \in Seq(AttemptStates) /\ n # << >> /\ Len(n) = Len(s) /\ DOMAIN n = DOMAIN s
           /\ Last(n) = IF k = Len(s) THEN e ELSE Last(s)
           /\ \A j \in DOMAIN s : n[j] = IF j = k THEN e ELSE s[j]
  BY LenProperties, ExceptSeq DEF Last

(* A new request follows the others. *)
LEMMA AppendOne ==
    ASSUME NEW s \in Seq(AttemptStates), NEW e \in AttemptStates
    PROVE  LET n == Append(s, e) IN
           /\ n \in Seq(AttemptStates) /\ n # << >> /\ Len(n) = Len(s) + 1
           /\ Last(n) = e
           /\ DOMAIN n = 1 .. (Len(s) + 1)
           /\ \A j \in 1 .. Len(s) : n[j] = s[j]
  BY LenProperties, AppendProperties DEF Last

(* The initial states satisfy the invariant. *)
LEMMA ProvisioningInvInit == ProvisioningInit => ProvisioningInv
  BY DEF ProvisioningInit, ProvisioningInv, ProvisioningTypeOK, TenantOK, TenantStates

(* What a step leaves of a Tenant as it was stays right, unless its sponsor retires. *)
LEMMA Untouched ==
    ASSUME NEW t, TenantOK(t), sponsor' = sponsor, status'[t] = status[t],
           attempts'[t] = attempts[t], t \in asking' => t \in asking,
           t \in activating' => t \in activating
    PROVE  TenantOK(t)'
  BY DEF TenantOK, Latest

(* A Tenant and its first request, inserted whatever became of the sponsor meanwhile. *)
LEMMA InsertStep ==
    ASSUME ProvisioningInv, NEW t \in Tenants, InsertTenant(t)
    PROVE  ProvisioningInv'
<1>1. ProvisioningTypeOK'
  BY DEF InsertTenant, ProvisioningInv, ProvisioningTypeOK, TenantStates, AttemptStates
<1>2. TenantOK(t)'
  BY DEF InsertTenant, ProvisioningInv, ProvisioningTypeOK, TenantOK, Latest, Last, Outstanding
<1>3. \A u \in Tenants \ {t} : TenantOK(u)'
  BY Untouched DEF InsertTenant, ProvisioningInv, ProvisioningTypeOK
<1> QED
  BY <1>1, <1>2, <1>3 DEF ProvisioningInv

(* A dispatch, and a retry, which is made only after a failure. *)
LEMMA ProvisionStep ==
    ASSUME ProvisioningInv, NEW t \in Tenants, Provision(t)
    PROVE  ProvisioningInv'
<1> USE TenantMoves DEF ProvisioningInv, ProvisioningTypeOK, Provision
<1>1. CASE status[t] = "failed"
  <2>1. attempts' = [attempts EXCEPT ![t] = Append(attempts[t], "requested")]
    BY <1>1
  <2>2. "requested" \in AttemptStates
    BY DEF AttemptStates
  <2>3. Append(attempts[t], "requested") \in Seq(AttemptStates)
    BY <2>2, AppendOne
  <2>4. ProvisioningTypeOK'
    BY <1>1, <2>1, <2>3 DEF TenantStates
  <2>5. TenantOK(t)'
    BY <1>1, <2>1, <2>2, AppendOne, LenProperties DEF TenantOK, Latest, Last, Unlocked
  <2>6. \A u \in Tenants \ {t} : TenantOK(u)'
    BY <2>1, Untouched
  <2> QED
    BY <2>4, <2>5, <2>6
<1>2. CASE status[t] # "failed"
  <2>1. ProvisioningTypeOK'
    BY <1>2 DEF TenantStates
  <2>2. TenantOK(t)'
    BY <1>2 DEF TenantOK, Latest, Unlocked, Outstanding
  <2>3. \A u \in Tenants \ {t} : TenantOK(u)'
    BY <1>2, Untouched
  <2> QED
    BY <2>1, <2>2, <2>3
<1> QED
  BY <1>1, <1>2

(* A request that is still open is the latest one. *)
LEMMA OpenIsLatest ==
    ASSUME ProvisioningInv, NEW t \in Tenants, NEW k \in DOMAIN attempts[t],
           attempts[t][k] \in Outstanding
    PROVE  k = Len(attempts[t]) /\ Latest(t) = attempts[t][k]
  BY LenProperties DEF ProvisioningInv, ProvisioningTypeOK, TenantOK, Latest, Last, Outstanding

(* A report, early, late or repeated. *)
LEMMA RecordStep ==
    ASSUME ProvisioningInv, NEW t \in Tenants, NEW k \in DOMAIN attempts[t],
           NEW to \in {"realized", "failed"}, Record(t, k, to)
    PROVE  ProvisioningInv'
<1> USE DEF ProvisioningInv, ProvisioningTypeOK, Record
<1>1. to \in AttemptStates /\ attempts[t] \in Seq(AttemptStates)
  BY DEF AttemptStates
<1>2. attempts'[t] = [attempts[t] EXCEPT ![k] = to] /\ status'[t] = AfterOutcome(status[t], to)
  OBVIOUS
<1>3. attempts'[t] \in Seq(AttemptStates)
  BY <1>1, <1>2, RecordOne
<1>4. k = Len(attempts[t]) /\ Latest(t) = attempts[t][k]
  BY OpenIsLatest
<1>5. status'[t] \in {"none", "requested", "provisioning", "failed", "active", "retired"}
  BY <1>2, Outcomes DEF TenantOK
<1>6. ProvisioningTypeOK'
  BY <1>3, <1>5 DEF TenantStates
<1>7. /\ attempts'[t] # << >> /\ Latest(t)' = to /\ Len(attempts'[t]) = Len(attempts[t])
      /\ \A j \in DOMAIN attempts'[t] : j < Len(attempts'[t]) => attempts'[t][j] = "failed"
  <2>1. /\ attempts'[t] # << >> /\ Len(attempts'[t]) = Len(attempts[t])
        /\ DOMAIN attempts'[t] = DOMAIN attempts[t]
        /\ \A j \in DOMAIN attempts[t] \ {k} : attempts'[t][j] = attempts[t][j]
        /\ Last(attempts'[t]) = to
    BY ONLY k \in DOMAIN attempts[t], <1>1, <1>2, <1>4, RecordOne
  <2>2. \A j \in DOMAIN attempts[t] : j < Len(attempts[t]) => attempts[t][j] = "failed"
    BY DEF TenantOK
  <2>3. \A j \in DOMAIN attempts[t] : j < Len(attempts[t]) => j # k
    BY <1>1, <1>4, LenProperties
  <2> QED
    BY <2>1, <2>2, <2>3 DEF Latest
<1>8. TenantOK(t)'
  BY <1>2, <1>4, <1>5, <1>7, Outcomes DEF TenantOK, Unlocked, Outstanding
<1>9. \A u \in Tenants \ {t} : TenantOK(u)'
  BY Untouched
<1> QED
  BY <1>6, <1>8, <1>9

(* No answer in time. *)
LEMMA SweepStep ==
    ASSUME ProvisioningInv, NEW t \in Tenants, NEW k \in DOMAIN attempts[t],
           SweepUnresolved(t, k)
    PROVE  ProvisioningInv'
<1> USE DEF ProvisioningInv, ProvisioningTypeOK, SweepUnresolved
<1>1. "unresolved" \in AttemptStates /\ attempts[t] \in Seq(AttemptStates)
  BY DEF AttemptStates
<1>2. attempts'[t] = [attempts[t] EXCEPT ![k] = "unresolved"]
  OBVIOUS
<1>3. attempts'[t] \in Seq(AttemptStates)
  BY <1>1, <1>2, RecordOne
<1>4. k = Len(attempts[t]) /\ Latest(t) = "requested"
  BY OpenIsLatest DEF Outstanding
<1>5. ProvisioningTypeOK'
  BY <1>3
<1>6. /\ attempts'[t] # << >> /\ Latest(t)' = "unresolved"
      /\ Len(attempts'[t]) = Len(attempts[t])
      /\ \A j \in DOMAIN attempts'[t] : j < Len(attempts'[t]) => attempts'[t][j] = "failed"
  <2>1. /\ attempts'[t] # << >> /\ Len(attempts'[t]) = Len(attempts[t])
        /\ DOMAIN attempts'[t] = DOMAIN attempts[t]
        /\ \A j \in DOMAIN attempts[t] \ {k} : attempts'[t][j] = attempts[t][j]
        /\ Last(attempts'[t]) = "unresolved"
    BY ONLY k \in DOMAIN attempts[t], <1>1, <1>2, <1>4, RecordOne
  <2>2. \A j \in DOMAIN attempts[t] : j < Len(attempts[t]) => attempts[t][j] = "failed"
    BY DEF TenantOK
  <2>3. \A j \in DOMAIN attempts[t] : j < Len(attempts[t]) => j # k
    BY <1>1, <1>4, LenProperties
  <2> QED
    BY <2>1, <2>2, <2>3 DEF Latest
<1>7. TenantOK(t)'
  BY <1>2, <1>4, <1>6 DEF TenantOK, Outstanding
<1>8. \A u \in Tenants \ {t} : TenantOK(u)'
  BY Untouched
<1> QED
  BY <1>5, <1>7, <1>8

(* Every step keeps the invariant. *)
LEMMA ProvisioningInvStep ==
    ASSUME ProvisioningInv, [ProvisioningNext]_provisioningVars
    PROVE  ProvisioningInv'
<1>1. CASE UNCHANGED provisioningVars
  BY <1>1 DEF ProvisioningInv, ProvisioningTypeOK, TenantOK, Latest, provisioningVars
<1>2. ASSUME OrganizationTransition({"active"}, "suspended")
             \/ OrganizationTransition({"suspended"}, "active")
      PROVE  ProvisioningInv'
  BY <1>2 DEF OrganizationTransition, ProvisioningInv, ProvisioningTypeOK, TenantOK, Latest
<1>3. ASSUME OrganizationTransition({"active", "suspended"}, "retired")
      PROVE  ProvisioningInv'
  BY <1>3 DEF OrganizationTransition, ProvisioningInv, ProvisioningTypeOK, TenantOK, Latest
<1>9. ASSUME Register \/ RetireParent
      PROVE  ProvisioningInv'
  BY <1>9 DEF Register, RetireParent, ProvisioningInv, ProvisioningTypeOK, TenantOK, Latest
<1>4. ASSUME NEW t \in Tenants, CheckSponsor(t)
      PROVE  ProvisioningInv'
  BY <1>4 DEF CheckSponsor, ProvisioningInv, ProvisioningTypeOK, TenantOK, Latest
<1>5. ASSUME NEW t \in Tenants, CheckActivation(t)
      PROVE  ProvisioningInv'
  BY <1>5, TenantMoves DEF CheckActivation, ProvisioningInv, ProvisioningTypeOK, TenantOK, Latest
<1>6. ASSUME NEW t \in Tenants, Activate(t)
      PROVE  ProvisioningInv'
  BY <1>6, TenantMoves DEF Activate, ProvisioningInv, ProvisioningTypeOK, TenantOK, Latest,
                           TenantStates
<1>7. ASSUME NEW t \in Tenants, Abandon(t)
      PROVE  ProvisioningInv'
  BY <1>7 DEF Abandon, ProvisioningInv, ProvisioningTypeOK, TenantOK, Latest
<1>8. ASSUME NEW t \in Tenants, RetireTenant(t)
      PROVE  ProvisioningInv'
  BY <1>8, TenantMoves DEF RetireTenant, ProvisioningInv, ProvisioningTypeOK, TenantOK, Latest,
                           TenantStates
<1> QED
  BY <1>1, <1>2, <1>3, <1>4, <1>5, <1>6, <1>7, <1>8, <1>9, InsertStep, ProvisionStep, RecordStep,
     SweepStep DEF ProvisioningNext

(* The inductive invariant holds in every reachable state. *)
THEOREM ProvisioningInvariant == ProvisioningSpec => []ProvisioningInv
<1>1. ProvisioningInv /\ [ProvisioningNext]_provisioningVars => ProvisioningInv'
  BY ProvisioningInvStep
<1> QED
  BY <1>1, ProvisioningInvInit, PTL DEF ProvisioningSpec

-----------------------------------------------------------------------------

(* record, advance and Activate: a Tenant's status agrees with its latest provisioning   *)
(* request, whatever reports are repeated or late.                                       *)
THEOREM StatusFollowsRequests == ProvisioningSpec => []StatusAgreesWithLatest
<1>1. ProvisioningInv => StatusAgreesWithLatest
  BY DEF ProvisioningInv, TenantOK, StatusAgreesWithLatest
<1> QED
  BY <1>1, ProvisioningInvariant, PTL

(* Provision and SweepUnresolved: no request is made while an earlier one may still be   *)
(* realized.                                                                             *)
THEOREM ProvisionedOnce == ProvisioningSpec => []NeverProvisionedTwice
<1>1. ProvisioningInv => NeverProvisionedTwice
  BY DEF ProvisioningInv, TenantOK, NeverProvisionedTwice
<1> QED
  BY <1>1, ProvisioningInvariant, PTL

(* Retire of the Organization counts every Tenant an activation in flight could make     *)
(* active, although neither holds a lock the other waits for.                            *)
THEOREM NoActiveUnderRetired == ProvisioningSpec => []RetiredSponsorsNoneActive
<1>1. ProvisioningInv => RetiredSponsorsNoneActive
  BY DEF ProvisioningInv, TenantOK, RetiredSponsorsNoneActive
<1> QED
  BY <1>1, ProvisioningInvariant, PTL
==============================================================================
