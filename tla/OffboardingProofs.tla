------------------------- MODULE OffboardingProofs -------------------------
(***************************************************************************)
(* The safety properties of Offboarding, proved for every number of        *)
(* Memberships, offboardings, obligations, workers and requests in flight, *)
(* every batch size and every assignment of Principals.                    *)
(*                                                                         *)
(* Beside the properties themselves the inductive invariant needs one      *)
(* fact: a freeze batch that is running belongs to an offboarding.         *)
(***************************************************************************)
EXTENDS Offboarding, TLAPS

WorkersBelong == \A w \in Workers : worker[w] # Idle => worker[w].off \in Offboardings

OffboardingInv ==
    /\ OffboardingTypeOK
    /\ WorkersBelong
    /\ OneInProgress
    /\ SettledAfterRelease
    /\ NothingFrozenIsForgotten

-----------------------------------------------------------------------------

(* Where the Tenant's transitions lead. *)
LEMMA TenantMoves ==
    /\ TenantFrom("suspend") = {"active"} /\ TenantTo("suspend") = "suspended"
    /\ TenantFrom("restore") = {"suspended"} /\ TenantTo("restore") = "active"
    /\ TenantFrom("begin-offboarding") = {"active", "suspended"}
    /\ TenantTo("begin-offboarding") = "offboarding"
    /\ TenantFrom("retire") = {"offboarding"} /\ TenantTo("retire") = "retired"
    /\ TenantFrom("cancel-offboarding-to-active") = {"offboarding"}
    /\ TenantTo("cancel-offboarding-to-active") = "active"
    /\ TenantFrom("cancel-offboarding-to-suspended") = {"offboarding"}
    /\ TenantTo("cancel-offboarding-to-suspended") = "suspended"
  BY Zenon DEF TenantFrom, TenantTo

(* A cancellation moves a Tenant that is offboarding back to active or suspended. *)
LEMMA CancelMoves ==
    ASSUME NEW o \in Offboardings
    PROVE  /\ TenantFrom(CancelAction(o)) = {"offboarding"}
           /\ TenantTo(CancelAction(o)) \in {"active", "suspended"}
  BY TenantMoves DEF CancelAction

(* Every action of the Membership machine leads to a status of it. *)
LEMMA MembershipMoves ==
    ASSUME NEW a \in MembershipActions \cup {"grant"}
    PROVE  MembershipTo(a) \in MembershipStates
  BY DEF MembershipActions, MembershipTo, MembershipStates

(* A batch takes from what it is offered. *)
LEMMA BatchTakes ==
    ASSUME NEW S, NEW L
    PROVE  Batch(S, L) \subseteq S
  BY DEF Batch

(* Changing one field of an offboarding, or of a worker, keeps its type. *)
LEMMA RecordUpdates ==
    /\ \A r \in OffboardingRecords, s \in Stages : [r EXCEPT !.stage = s] \in OffboardingRecords
    /\ \A r \in OffboardingRecords, d \in DeprovisioningStates :
          [r EXCEPT !.deprov = d] \in OffboardingRecords
    /\ \A r \in OffboardingRecords, h \in BOOLEAN : [r EXCEPT !.hold = h] \in OffboardingRecords
    /\ \A r \in WorkerRecords : [r EXCEPT !.at = "checked"] \in WorkerRecords
    /\ Idle \in WorkerRecords
  BY DEF OffboardingRecords, WorkerRecords, Idle

(* An advance moves one offboarding to the next stage and keeps its type. *)
LEMMA AdvanceIs ==
    ASSUME OffboardingTypeOK, NEW o \in Offboardings, NEW gate \in BOOLEAN,
           NEW from \in {"freeze", "obligations", "release"}, Advance(o, from, gate)
    PROVE  off' \in [Offboardings -> OffboardingRecords]
<1>1. NextStage[from] \in Stages
  BY DEF NextStage, Stages
<1>2. off[o] \in OffboardingRecords
  BY DEF OffboardingTypeOK
<1> DEFINE d == IF from = "obligations" THEN "requested" ELSE off[o].deprov
           new == [off[o] EXCEPT !.stage = NextStage[from], !.deprov = d]
<1>3. d \in DeprovisioningStates \cup {"none"}
  BY <1>2 DEF OffboardingRecords, DeprovisioningStates
<1>4. new \in OffboardingRecords
  BY <1>1, <1>2, <1>3 DEF OffboardingRecords
<1>5. off' = [off EXCEPT ![o] = new]
  BY DEF Advance
<1> HIDE DEF new
<1> QED
  BY <1>4, <1>5 DEF OffboardingTypeOK

(* The initial states satisfy the invariant. *)
LEMMA OffboardingInvInit == OffboardingInit => OffboardingInv
<1> SUFFICES ASSUME OffboardingInit PROVE OffboardingInv
  OBVIOUS
<1> USE DEF OffboardingInit, NoOffboarding, Idle
<1>1. OffboardingTypeOK
  BY DEF OffboardingTypeOK, OffboardingRecords, WorkerRecords, TenantStates, MembershipStates
<1>2. WorkersBelong /\ SettledAfterRelease
  BY DEF WorkersBelong, SettledAfterRelease
<1>3. OneInProgress
  BY DEF OneInProgress, InProgress
<1>4. NothingFrozenIsForgotten
  BY DEF NothingFrozenIsForgotten
<1> QED
  BY <1>1, <1>2, <1>3, <1>4 DEF OffboardingInv

(* Every step keeps the types. *)
LEMMA TypesStep ==
    ASSUME OffboardingInv, OffboardingNext
    PROVE  OffboardingTypeOK' /\ WorkersBelong'
<1> USE DEF OffboardingInv, OffboardingTypeOK, WorkersBelong
<1>1. ASSUME NEW m \in Memberships, NEW a \in MembershipActions \cup {"grant"}, Admit(m, a)
      PROVE  OffboardingTypeOK' /\ WorkersBelong'
  BY <1>1 DEF Admit
<1>2. ASSUME NEW m \in Memberships, Perform(m)
      PROVE  OffboardingTypeOK' /\ WorkersBelong'
  BY <1>2, MembershipMoves DEF Perform, Stale
<1>3. ASSUME NEW m \in Memberships, Drop(m)
      PROVE  OffboardingTypeOK' /\ WorkersBelong'
  BY <1>3 DEF Drop, Stale
<1>4. ASSUME NEW m \in Memberships, NEW a \in ProviderMembershipActions, ProviderWithdraw(m, a)
      PROVE  OffboardingTypeOK' /\ WorkersBelong'
  BY <1>4, MembershipMoves DEF ProviderWithdraw, Stale, ProviderMembershipActions, MembershipActions
<1>5. ASSUME NEW a \in {"suspend", "restore"}, SuspendOrRestoreTenant(a)
      PROVE  OffboardingTypeOK' /\ WorkersBelong'
  BY <1>5, TenantMoves DEF SuspendOrRestoreTenant, TenantStates
<1>6. ASSUME NEW o \in Offboardings, NEW h \in BOOLEAN, Begin(o, h)
      PROVE  OffboardingTypeOK' /\ WorkersBelong'
  BY <1>6, TenantMoves DEF Begin, TenantStates, OffboardingRecords, Stages
<1>7. ASSUME NEW o \in Offboardings, NEW h \in BOOLEAN, SetLegalHold(o, h)
      PROVE  OffboardingTypeOK' /\ WorkersBelong'
  BY <1>7, RecordUpdates DEF SetLegalHold, Stages, DeprovisioningStates
<1>8. ASSUME NEW w \in Workers, NEW o \in Offboardings, StartFreeze(w, o)
      PROVE  OffboardingTypeOK' /\ WorkersBelong'
  BY <1>8 DEF StartFreeze, Idle, WorkerRecords
<1>9. ASSUME NEW w \in Workers, CheckFreeze(w)
      PROVE  OffboardingTypeOK' /\ WorkersBelong'
  BY <1>9, RecordUpdates DEF CheckFreeze, Idle, WorkerRecords
<1>10. ASSUME NEW w \in Workers, AbandonFreeze(w)
      PROVE  OffboardingTypeOK' /\ WorkersBelong'
  BY <1>10, RecordUpdates DEF AbandonFreeze
<1>11. ASSUME NEW w \in Workers, NEW L \in SUBSET Memberships, FreezeBatch(w, L)
      PROVE  OffboardingTypeOK' /\ WorkersBelong'
  <2>1. worker[w].off \in Offboardings
    BY <1>11 DEF FreezeBatch, Idle
  <2>2. worker' \in [Workers -> WorkerRecords] /\ WorkersBelong'
    BY <1>11, RecordUpdates DEF FreezeBatch
  <2>3. /\ mem' \in [Memberships -> MembershipStates \cup {"none"}]
        /\ cause' \in [Memberships -> Offboardings \cup {0}]
    BY <1>11, <2>1 DEF FreezeBatch, MembershipStates
  <2>4. freeze' \in [Offboardings -> [Memberships -> {"none", "frozen", "restored"}]]
    BY <1>11, <2>1 DEF FreezeBatch
  <2>5. admitted' \in [Memberships -> MembershipActions \cup {"grant", "none"}]
    BY <1>11 DEF FreezeBatch, Stale
  <2> QED
    BY <1>11, <2>2, <2>3, <2>4, <2>5 DEF FreezeBatch
<1>12. ASSUME NEW o \in Offboardings, CompleteFreeze(o)
      PROVE  OffboardingTypeOK' /\ WorkersBelong'
  BY <1>12, AdvanceIs DEF CompleteFreeze, Advance
<1>13. ASSUME NEW o \in Offboardings, Release(o)
      PROVE  OffboardingTypeOK' /\ WorkersBelong'
  BY <1>13, AdvanceIs DEF Release, Advance, ReleaseGates
<1>14. ASSUME NEW o \in Offboardings, Retire(o)
      PROVE  OffboardingTypeOK' /\ WorkersBelong'
  BY <1>14, TenantMoves, AdvanceIs DEF Retire, Advance, ReleaseGates, TenantStates
<1>15. ASSUME NEW o \in Offboardings, Cancel(o)
      PROVE  OffboardingTypeOK' /\ WorkersBelong'
  BY <1>15, CancelMoves, RecordUpdates DEF Cancel, TenantStates, Stages, ObligationStates
<1>16. ASSUME NEW o \in Offboardings, SweepDeprovisioning(o)
      PROVE  OffboardingTypeOK' /\ WorkersBelong'
  BY <1>16, RecordUpdates DEF SweepDeprovisioning, Stages, DeprovisioningStates
<1>17. ASSUME NEW o \in Offboardings, ResendDeprovisioning(o)
      PROVE  OffboardingTypeOK' /\ WorkersBelong'
  BY <1>17, RecordUpdates DEF ResendDeprovisioning, Stages, DeprovisioningStates
<1>18. ASSUME NEW o \in Offboardings, NEW b \in Obligations, Raise(o, b)
      PROVE  OffboardingTypeOK' /\ WorkersBelong'
  BY <1>18 DEF Raise, ObligationStates
<1>19. ASSUME NEW o \in Offboardings, NEW b \in Obligations,
             NEW s \in {"completed", "waived", "failed"}, Resolve(o, b, s)
      PROVE  OffboardingTypeOK' /\ WorkersBelong'
  BY <1>19 DEF Resolve, ObligationStates
<1>20. ASSUME NEW o \in Offboardings, NEW s \in {"realized", "failed", "unresolved"},
              RecordDeprovisioning(o, s)
      PROVE  OffboardingTypeOK' /\ WorkersBelong'
  BY <1>20, RecordUpdates DEF RecordDeprovisioning, Stages, DeprovisioningStates
<1>21. ASSUME NEW o \in Offboardings, NEW L \in SUBSET Memberships, RestoreBatch(o, L)
      PROVE  OffboardingTypeOK' /\ WorkersBelong'
  BY <1>21 DEF RestoreBatch, Stale, MembershipStates
<1> QED
  BY <1>1, <1>2, <1>3, <1>4, <1>5, <1>6, <1>7, <1>8, <1>9, <1>10, <1>11,
     <1>12, <1>13, <1>14, <1>15, <1>16, <1>17, <1>18, <1>19, <1>20, <1>21 DEF OffboardingNext

(* What a step may do to the stages and to the Tenant's status: nothing, a suspension or *)
(* a restoration of the Tenant, or one move of one offboarding with its status.         *)
StagesStay == \A p \in Offboardings : off'[p].stage = off[p].stage
OnlyStageOf(o) == \A p \in Offboardings \ {o} : off'[p].stage = off[p].stage

StageMove(o) ==
    /\ OnlyStageOf(o)
    /\ \/ /\ off[o].stage = "none" /\ off'[o].stage = "freeze"
          /\ status \in {"active", "suspended"} /\ status' = "offboarding"
       \/ /\ off[o].stage = "freeze" /\ off'[o].stage = "obligations" /\ status' = status
       \/ /\ off[o].stage = "obligations" /\ off'[o].stage = "release" /\ status' = status
       \/ /\ off[o].stage = "release" /\ off'[o].stage = "retired"
          /\ status = "offboarding" /\ status' = "retired"
       \/ /\ off[o].stage \in {"freeze", "obligations"} /\ off'[o].stage = "cancelled"
          /\ status = "offboarding" /\ status' \in {"active", "suspended"}

TenantMove ==
    /\ StagesStay
    /\ \/ status' = status
       \/ status \in {"active", "suspended"} /\ status' \in {"active", "suspended"}

(* Every step is one of these. *)
LEMMA StageMoves ==
    ASSUME OffboardingInv, OffboardingNext
    PROVE  TenantMove \/ \E o \in Offboardings : StageMove(o)
<1> USE DEF OffboardingInv, OffboardingTypeOK, OffboardingRecords
<1>1. ASSUME NEW m \in Memberships, NEW a \in MembershipActions \cup {"grant"}, Admit(m, a)
      PROVE  TenantMove
  BY <1>1 DEF Admit, TenantMove, StagesStay
<1>2. ASSUME NEW m \in Memberships, Perform(m)
      PROVE  TenantMove
  BY <1>2 DEF Perform, TenantMove, StagesStay
<1>3. ASSUME NEW m \in Memberships, Drop(m)
      PROVE  TenantMove
  BY <1>3 DEF Drop, TenantMove, StagesStay
<1>4. ASSUME NEW m \in Memberships, NEW a \in ProviderMembershipActions, ProviderWithdraw(m, a)
      PROVE  TenantMove
  BY <1>4 DEF ProviderWithdraw, TenantMove, StagesStay
<1>5. ASSUME NEW a \in {"suspend", "restore"}, SuspendOrRestoreTenant(a)
      PROVE  TenantMove
  BY <1>5, TenantMoves DEF SuspendOrRestoreTenant, TenantMove, StagesStay
<1>6. ASSUME NEW o \in Offboardings, NEW h \in BOOLEAN, Begin(o, h)
      PROVE  StageMove(o)
  BY <1>6, TenantMoves DEF Begin, StageMove, OnlyStageOf
<1>7. ASSUME NEW o \in Offboardings, NEW h \in BOOLEAN, SetLegalHold(o, h)
      PROVE  TenantMove
  BY <1>7 DEF SetLegalHold, TenantMove, StagesStay
<1>8. ASSUME NEW w \in Workers, NEW o \in Offboardings, StartFreeze(w, o)
      PROVE  TenantMove
  BY <1>8 DEF StartFreeze, TenantMove, StagesStay
<1>9. ASSUME NEW w \in Workers, CheckFreeze(w)
      PROVE  TenantMove
  BY <1>9 DEF CheckFreeze, TenantMove, StagesStay
<1>10. ASSUME NEW w \in Workers, AbandonFreeze(w)
      PROVE  TenantMove
  BY <1>10 DEF AbandonFreeze, TenantMove, StagesStay
<1>11. ASSUME NEW w \in Workers, NEW L \in SUBSET Memberships, FreezeBatch(w, L)
      PROVE  TenantMove
  BY <1>11 DEF FreezeBatch, TenantMove, StagesStay
<1>12. ASSUME NEW o \in Offboardings, CompleteFreeze(o)
      PROVE  StageMove(o)
  BY <1>12 DEF CompleteFreeze, Advance, NextStage, StageMove, OnlyStageOf
<1>13. ASSUME NEW o \in Offboardings, Release(o)
      PROVE  StageMove(o)
  BY <1>13 DEF Release, Advance, NextStage, StageMove, OnlyStageOf
<1>14. ASSUME NEW o \in Offboardings, Retire(o)
      PROVE  StageMove(o)
  BY <1>14, TenantMoves DEF Retire, Advance, NextStage, StageMove, OnlyStageOf
<1>15. ASSUME NEW o \in Offboardings, Cancel(o)
      PROVE  StageMove(o)
  BY <1>15, CancelMoves DEF Cancel, StageMove, OnlyStageOf, Cancellable
<1>16. ASSUME NEW o \in Offboardings, SweepDeprovisioning(o)
      PROVE  TenantMove
  BY <1>16 DEF SweepDeprovisioning, TenantMove, StagesStay
<1>17. ASSUME NEW o \in Offboardings, ResendDeprovisioning(o)
      PROVE  TenantMove
  BY <1>17 DEF ResendDeprovisioning, TenantMove, StagesStay
<1>18. ASSUME NEW o \in Offboardings, NEW b \in Obligations, Raise(o, b)
      PROVE  TenantMove
  BY <1>18 DEF Raise, TenantMove, StagesStay
<1>19. ASSUME NEW o \in Offboardings, NEW b \in Obligations,
             NEW s \in {"completed", "waived", "failed"}, Resolve(o, b, s)
      PROVE  TenantMove
  BY <1>19 DEF Resolve, TenantMove, StagesStay
<1>20. ASSUME NEW o \in Offboardings, NEW s \in {"realized", "failed", "unresolved"},
              RecordDeprovisioning(o, s)
      PROVE  TenantMove
  BY <1>20 DEF RecordDeprovisioning, TenantMove, StagesStay
<1>21. ASSUME NEW o \in Offboardings, NEW L \in SUBSET Memberships, RestoreBatch(o, L)
      PROVE  TenantMove
  BY <1>21 DEF RestoreBatch, TenantMove, StagesStay
<1> QED
  BY <1>1, <1>2, <1>3, <1>4, <1>5, <1>6, <1>7, <1>8, <1>9, <1>10, <1>11,
     <1>12, <1>13, <1>14, <1>15, <1>16, <1>17, <1>18, <1>19, <1>20, <1>21 DEF OffboardingNext

(* The Tenant is offboarding exactly while one offboarding is in progress. *)
LEMMA OneInProgressStep ==
    ASSUME OffboardingInv, OffboardingNext
    PROVE  OneInProgress'
<1> USE DEF OffboardingInv, OneInProgress, InProgress
<1>1. CASE TenantMove
  BY <1>1 DEF TenantMove, StagesStay
<1>2. ASSUME NEW o \in Offboardings, StageMove(o)
      PROVE  OneInProgress'
  BY <1>2 DEF StageMove, OnlyStageOf
<1> QED
  BY <1>1, <1>2, StageMoves

(* What releaseGates checked stays true, and a cancellation leaves nothing open. *)
LEMMA SettledStep ==
    ASSUME OffboardingInv, OffboardingNext
    PROVE  SettledAfterRelease'
<1> USE DEF OffboardingInv, SettledAfterRelease, OffboardingTypeOK, OffboardingRecords
<1>1. ASSUME NEW m \in Memberships, NEW a \in MembershipActions \cup {"grant"}, Admit(m, a)
      PROVE  SettledAfterRelease'
  BY <1>1 DEF Admit
<1>2. ASSUME NEW m \in Memberships, Perform(m)
      PROVE  SettledAfterRelease'
  BY <1>2 DEF Perform
<1>3. ASSUME NEW m \in Memberships, Drop(m)
      PROVE  SettledAfterRelease'
  BY <1>3 DEF Drop
<1>4. ASSUME NEW m \in Memberships, NEW a \in ProviderMembershipActions, ProviderWithdraw(m, a)
      PROVE  SettledAfterRelease'
  BY <1>4 DEF ProviderWithdraw
<1>5. ASSUME NEW a \in {"suspend", "restore"}, SuspendOrRestoreTenant(a)
      PROVE  SettledAfterRelease'
  BY <1>5 DEF SuspendOrRestoreTenant
<1>6. ASSUME NEW o \in Offboardings, NEW h \in BOOLEAN, Begin(o, h)
      PROVE  SettledAfterRelease'
  BY <1>6 DEF Begin
<1>7. ASSUME NEW o \in Offboardings, NEW h \in BOOLEAN, SetLegalHold(o, h)
      PROVE  SettledAfterRelease'
  BY <1>7 DEF SetLegalHold, InProgress
<1>8. ASSUME NEW w \in Workers, NEW o \in Offboardings, StartFreeze(w, o)
      PROVE  SettledAfterRelease'
  BY <1>8 DEF StartFreeze
<1>9. ASSUME NEW w \in Workers, CheckFreeze(w)
      PROVE  SettledAfterRelease'
  BY <1>9 DEF CheckFreeze
<1>10. ASSUME NEW w \in Workers, AbandonFreeze(w)
      PROVE  SettledAfterRelease'
  BY <1>10 DEF AbandonFreeze
<1>11. ASSUME NEW w \in Workers, NEW L \in SUBSET Memberships, FreezeBatch(w, L)
      PROVE  SettledAfterRelease'
  BY <1>11 DEF FreezeBatch
<1>12. ASSUME NEW o \in Offboardings, CompleteFreeze(o)
      PROVE  SettledAfterRelease'
  BY <1>12 DEF CompleteFreeze, Advance, NextStage
<1>13. ASSUME NEW o \in Offboardings, Release(o)
      PROVE  SettledAfterRelease'
  BY <1>13 DEF Release, Advance, NextStage, ReleaseGates
<1>14. ASSUME NEW o \in Offboardings, Retire(o)
      PROVE  SettledAfterRelease'
  BY <1>14 DEF Retire, Advance, NextStage, ReleaseGates
<1>15. ASSUME NEW o \in Offboardings, Cancel(o)
      PROVE  SettledAfterRelease'
  BY <1>15 DEF Cancel, Cancellable
<1>16. ASSUME NEW o \in Offboardings, SweepDeprovisioning(o)
      PROVE  SettledAfterRelease'
  BY <1>16 DEF SweepDeprovisioning
<1>17. ASSUME NEW o \in Offboardings, ResendDeprovisioning(o)
      PROVE  SettledAfterRelease'
  BY <1>17 DEF ResendDeprovisioning, ReleaseGates
<1>18. ASSUME NEW o \in Offboardings, NEW b \in Obligations, Raise(o, b)
      PROVE  SettledAfterRelease'
  BY <1>18 DEF Raise
<1>19. ASSUME NEW o \in Offboardings, NEW b \in Obligations,
             NEW s \in {"completed", "waived", "failed"}, Resolve(o, b, s)
      PROVE  SettledAfterRelease'
  BY <1>19 DEF Resolve
<1>20. ASSUME NEW o \in Offboardings, NEW s \in {"realized", "failed", "unresolved"},
              RecordDeprovisioning(o, s)
      PROVE  SettledAfterRelease'
  BY <1>20 DEF RecordDeprovisioning
<1>21. ASSUME NEW o \in Offboardings, NEW L \in SUBSET Memberships, RestoreBatch(o, L)
      PROVE  SettledAfterRelease'
  BY <1>21 DEF RestoreBatch
<1> HIDE DEF OffboardingInv, SettledAfterRelease, OffboardingTypeOK, OffboardingRecords
<1> QED
  BY <1>1, <1>2, <1>3, <1>4, <1>5, <1>6, <1>7, <1>8, <1>9, <1>10, <1>11,
     <1>12, <1>13, <1>14, <1>15, <1>16, <1>17, <1>18, <1>19, <1>20, <1>21 DEF OffboardingNext

(* A suspension a freeze made keeps its row until it is lifted. *)
LEMMA FrozenStep ==
    ASSUME OffboardingInv, OffboardingNext
    PROVE  NothingFrozenIsForgotten'
<1>0. \A o \in Offboardings : off[o].stage = "cancelled" => off'[o].stage = "cancelled"
  BY StageMoves DEF TenantMove, StagesStay, StageMove, OnlyStageOf
<1> USE <1>0 DEF OffboardingInv, NothingFrozenIsForgotten, OffboardingTypeOK
<1>1. ASSUME NEW m \in Memberships, NEW a \in MembershipActions \cup {"grant"}, Admit(m, a)
      PROVE  NothingFrozenIsForgotten'
  BY <1>1 DEF Admit
<1>2. ASSUME NEW m \in Memberships, Perform(m)
      PROVE  NothingFrozenIsForgotten'
  BY <1>2 DEF Perform
<1>3. ASSUME NEW m \in Memberships, Drop(m)
      PROVE  NothingFrozenIsForgotten'
  BY <1>3 DEF Drop
<1>4. ASSUME NEW m \in Memberships, NEW a \in ProviderMembershipActions, ProviderWithdraw(m, a)
      PROVE  NothingFrozenIsForgotten'
  BY <1>4 DEF ProviderWithdraw
<1>5. ASSUME NEW a \in {"suspend", "restore"}, SuspendOrRestoreTenant(a)
      PROVE  NothingFrozenIsForgotten'
  BY <1>5 DEF SuspendOrRestoreTenant
<1>6. ASSUME NEW o \in Offboardings, NEW h \in BOOLEAN, Begin(o, h)
      PROVE  NothingFrozenIsForgotten'
  BY <1>6 DEF Begin
<1>7. ASSUME NEW o \in Offboardings, NEW h \in BOOLEAN, SetLegalHold(o, h)
      PROVE  NothingFrozenIsForgotten'
  BY <1>7 DEF SetLegalHold
<1>8. ASSUME NEW w \in Workers, NEW o \in Offboardings, StartFreeze(w, o)
      PROVE  NothingFrozenIsForgotten'
  BY <1>8 DEF StartFreeze
<1>9. ASSUME NEW w \in Workers, CheckFreeze(w)
      PROVE  NothingFrozenIsForgotten'
  BY <1>9 DEF CheckFreeze
<1>10. ASSUME NEW w \in Workers, AbandonFreeze(w)
      PROVE  NothingFrozenIsForgotten'
  BY <1>10 DEF AbandonFreeze
<1>11. ASSUME NEW w \in Workers, NEW L \in SUBSET Memberships, FreezeBatch(w, L)
      PROVE  NothingFrozenIsForgotten'
  <2> DEFINE S == Batch(ActiveMemberships, L)
             p == worker[w].off
  <2>1. p \in Offboardings
    BY <1>11 DEF FreezeBatch, WorkersBelong, Idle
  <2>2. \A n \in Memberships : n \in S => freeze[p][n] = "none"
    BY <1>11, BatchTakes DEF FreezeBatch
  <2>3. /\ off' = off
        /\ \A n \in Memberships :
              /\ mem'[n] = IF n \in S THEN "suspended" ELSE mem[n]
              /\ cause'[n] = IF n \in S THEN p ELSE cause[n]
              /\ freeze'[p][n] = IF n \in S THEN "frozen" ELSE freeze[p][n]
              /\ \A o \in Offboardings \ {p} : freeze'[o][n] = freeze[o][n]
    BY <1>11, <2>1 DEF FreezeBatch
  <2> HIDE DEF S, p
  <2>4. ASSUME NEW n \in Memberships, cause'[n] # 0
        PROVE  mem'[n] = "suspended" /\ freeze'[cause'[n]][n] = "frozen"
    <3>1. CASE n \in S
      BY <2>3, <3>1
    <3>2. CASE n \notin S
      <4>1. cause'[n] = cause[n] /\ mem'[n] = mem[n] /\ cause[n] \in Offboardings
        BY <2>3, <2>4, <3>2
      <4>2. freeze'[cause[n]][n] = freeze[cause[n]][n]
        BY <2>1, <2>3, <3>2, <4>1
      <4>3. mem[n] = "suspended" /\ freeze[cause[n]][n] = "frozen"
        BY <2>4, <4>1
      <4> QED
        BY <4>1, <4>2, <4>3
    <3> QED
      BY <3>1, <3>2
  <2>5. ASSUME NEW n \in Memberships, NEW o \in Offboardings, freeze'[o][n] = "restored"
        PROVE  off'[o].stage = "cancelled"
    <3>1. CASE o = p
      <4>1. n \notin S
        BY <2>3, <2>5, <3>1
      <4>2. freeze[o][n] = "restored"
        BY <2>3, <2>5, <3>1, <4>1
      <4> QED
        BY <2>3, <4>2
    <3>2. CASE o # p
      <4>1. freeze[o][n] = "restored"
        BY <2>3, <2>5, <3>2
      <4> QED
        BY <2>3, <4>1
    <3> QED
      BY <3>1, <3>2
  <2> QED
    BY <2>4, <2>5
<1>12. ASSUME NEW o \in Offboardings, CompleteFreeze(o)
      PROVE  NothingFrozenIsForgotten'
  BY <1>12 DEF CompleteFreeze, Advance, NextStage
<1>13. ASSUME NEW o \in Offboardings, Release(o)
      PROVE  NothingFrozenIsForgotten'
  BY <1>13 DEF Release, Advance, NextStage
<1>14. ASSUME NEW o \in Offboardings, Retire(o)
      PROVE  NothingFrozenIsForgotten'
  BY <1>14 DEF Retire, Advance, NextStage
<1>15. ASSUME NEW o \in Offboardings, Cancel(o)
      PROVE  NothingFrozenIsForgotten'
  BY <1>15 DEF Cancel
<1>16. ASSUME NEW o \in Offboardings, SweepDeprovisioning(o)
      PROVE  NothingFrozenIsForgotten'
  BY <1>16 DEF SweepDeprovisioning
<1>17. ASSUME NEW o \in Offboardings, ResendDeprovisioning(o)
      PROVE  NothingFrozenIsForgotten'
  BY <1>17 DEF ResendDeprovisioning
<1>18. ASSUME NEW o \in Offboardings, NEW b \in Obligations, Raise(o, b)
      PROVE  NothingFrozenIsForgotten'
  BY <1>18 DEF Raise
<1>19. ASSUME NEW o \in Offboardings, NEW b \in Obligations,
             NEW s \in {"completed", "waived", "failed"}, Resolve(o, b, s)
      PROVE  NothingFrozenIsForgotten'
  BY <1>19 DEF Resolve
<1>20. ASSUME NEW o \in Offboardings, NEW s \in {"realized", "failed", "unresolved"},
              RecordDeprovisioning(o, s)
      PROVE  NothingFrozenIsForgotten'
  BY <1>20 DEF RecordDeprovisioning
<1>21. ASSUME NEW o \in Offboardings, NEW L \in SUBSET Memberships, RestoreBatch(o, L)
      PROVE  NothingFrozenIsForgotten'
  <2> DEFINE S == Batch(RestorePending(o), L)
  <2>1. /\ off' = off /\ off[o].stage = "cancelled"
        /\ \A n \in Memberships :
              /\ mem'[n] = IF n \in S THEN "active" ELSE mem[n]
              /\ cause'[n] = IF n \in S THEN 0 ELSE cause[n]
              /\ freeze'[o][n] = IF n \in S THEN "restored" ELSE freeze[o][n]
              /\ \A p \in Offboardings \ {o} : freeze'[p][n] = freeze[p][n]
    BY <1>21 DEF RestoreBatch
  <2> HIDE DEF S
  <2>2. ASSUME NEW n \in Memberships, cause'[n] # 0
        PROVE  mem'[n] = "suspended" /\ freeze'[cause'[n]][n] = "frozen"
    <3>1. n \notin S /\ cause'[n] = cause[n] /\ mem'[n] = mem[n] /\ cause[n] \in Offboardings
      BY <2>1, <2>2
    <3>2. freeze'[cause[n]][n] = freeze[cause[n]][n]
      BY <2>1, <3>1
    <3>3. mem[n] = "suspended" /\ freeze[cause[n]][n] = "frozen"
      BY <2>2, <3>1
    <3> QED
      BY <3>1, <3>2, <3>3
  <2>3. ASSUME NEW n \in Memberships, NEW p \in Offboardings, freeze'[p][n] = "restored"
        PROVE  off'[p].stage = "cancelled"
    BY <2>1, <2>3
  <2> QED
    BY <2>2, <2>3
<1> QED
  BY <1>1, <1>2, <1>3, <1>4, <1>5, <1>6, <1>7, <1>8, <1>9, <1>10, <1>11,
     <1>12, <1>13, <1>14, <1>15, <1>16, <1>17, <1>18, <1>19, <1>20, <1>21 DEF OffboardingNext

(* Every step of an offboarding keeps the invariant. *)
LEMMA OffboardingInvStep ==
    OffboardingInv /\ [OffboardingNext]_offboardingVars => OffboardingInv'
<1> SUFFICES ASSUME OffboardingInv, [OffboardingNext]_offboardingVars PROVE OffboardingInv'
  OBVIOUS
<1>1. CASE OffboardingNext
  BY <1>1, TypesStep, OneInProgressStep, SettledStep, FrozenStep DEF OffboardingInv
<1>2. CASE UNCHANGED offboardingVars
  BY <1>2 DEF offboardingVars, OffboardingInv, OffboardingTypeOK, WorkersBelong, OneInProgress,
              SettledAfterRelease, NothingFrozenIsForgotten
<1> QED
  BY <1>1, <1>2

-----------------------------------------------------------------------------

(* The inductive invariant. *)
THEOREM OffboardingInvariant == OffboardingSpec => []OffboardingInv
  BY OffboardingInvInit, OffboardingInvStep, PTL DEF OffboardingSpec

(* Every variable of an offboarding keeps its type. *)
THEOREM OffboardingTypes == OffboardingSpec => []OffboardingTypeOK
<1>1. OffboardingInv => OffboardingTypeOK
  BY DEF OffboardingInv
<1> QED
  BY <1>1, OffboardingInvariant, PTL

(* A Tenant is offboarding exactly while one offboarding is in progress, and retired   *)
(* exactly when one has retired it, though no constraint of the schema says so.         *)
THEOREM OneOffboarding == OffboardingSpec => []OneInProgress
<1>1. OffboardingInv => OneInProgress
  BY DEF OffboardingInv
<1> QED
  BY <1>1, OffboardingInvariant, PTL

(* From release on nothing is outstanding, and a retired Tenant is under no hold. *)
THEOREM ReleaseSettles == OffboardingSpec => []SettledAfterRelease
<1>1. OffboardingInv => SettledAfterRelease
  BY DEF OffboardingInv
<1> QED
  BY <1>1, OffboardingInvariant, PTL

(* A suspension a freeze made has its unrestored row for as long as it stands. *)
THEOREM FreezeIsRemembered == OffboardingSpec => []NothingFrozenIsForgotten
<1>1. OffboardingInv => NothingFrozenIsForgotten
  BY DEF OffboardingInv
<1> QED
  BY <1>1, OffboardingInvariant, PTL

(* Once released, an offboarding only retires and its Tenant never comes back. *)
THEOREM ReleaseIsFinal == OffboardingSpec => ReleaseIsIrreversible
<1> DEFINE Final == \A o \in Offboardings :
              /\ off[o].stage = "release" => off'[o].stage \in {"release", "retired"}
                                             /\ status' \in {"offboarding", "retired"}
              /\ off[o].stage \in {"retired", "cancelled"} => off'[o].stage = off[o].stage
<1>1. OffboardingInv /\ [OffboardingNext]_offboardingVars => [Final]_offboardingVars
  <2> SUFFICES ASSUME OffboardingInv, OffboardingNext PROVE Final
    OBVIOUS
  <2>1. \A o \in Offboardings : off[o].stage = "release" => status = "offboarding"
    BY DEF OffboardingInv, OneInProgress, InProgress
  <2>2. CASE TenantMove
    BY <2>1, <2>2 DEF TenantMove, StagesStay
  <2>3. ASSUME NEW o \in Offboardings, StageMove(o)
        PROVE  Final
    BY <2>1, <2>3 DEF StageMove, OnlyStageOf, OffboardingInv, OneInProgress, InProgress
  <2> QED
    BY <2>2, <2>3, StageMoves
<1> QED
  BY <1>1, OffboardingInvariant, PTL DEF OffboardingSpec, ReleaseIsIrreversible

=============================================================================
