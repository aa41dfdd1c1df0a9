---------------------------- MODULE KernelProofs ----------------------------
(***************************************************************************)
(* KernelInv is an invariant of Kernel for all runs, steps, workers,       *)
(* dependency graphs, limits and bounds.                                   *)
(*                                                                         *)
(* Most actions take steps away from their workers: they differ in which   *)
(* steps and where to, but all release, park and clear the leases of the   *)
(* same set M.  The lemma Retire says what such a transaction must respect *)
(* to preserve the invariant; each of them is then an instance of it.      *)
(***************************************************************************)
EXTENDS Kernel, TLAPS, FiniteSetTheorems

USE GraphAssumption, ClassAssumption, BoundAssumption
USE DEF RunStates, StepStates, RunTerminal, StepTerminal, EffectStates, Lease, Claim
USE DEF Decisions, InverseStates

\* The rows createRun inserts satisfy the invariant.
LEMMA InitInv == Init => KernelInv
  <1> SUFFICES ASSUME Init PROVE KernelInv
    OBVIOUS
  <1> USE DEF Init
  <1>1. TypeOK
    <2>1. stepState \in [Steps -> StepStates] /\ lease \in [Steps -> SUBSET Lease]
      OBVIOUS
    <2>2. claiming \in SUBSET Claim /\ issued \in SUBSET Lease
      OBVIOUS
    <2>3. attempt \in [Steps -> 0..MaxEpoch] /\ epoch \in [Steps -> 0..MaxEpoch]
      OBVIOUS
    <2>4. ttl \in [Steps -> 0..LeaseTTL] /\ effEpoch \in [Steps -> 0..MaxEpoch]
      OBVIOUS
    <2>5. gen \in [Workers -> 1..MaxGen] /\ usage \in Nat
      OBVIOUS
    <2>6. runState \in [Runs -> RunStates] /\ effect \in [Steps -> EffectStates]
      OBVIOUS
    <2>8. /\ decided \in [Steps -> Decisions] /\ inverse \in [Inverses -> InverseStates]
          /\ undue \in Nat
      OBVIOUS
    <2>7. /\ due \in [Steps -> BOOLEAN] /\ receipt \in [Steps -> BOOLEAN]
          /\ active \in [Workers -> BOOLEAN] /\ paused \in BOOLEAN
      OBVIOUS
    <2> QED
      BY <2>1, <2>2, <2>3, <2>4, <2>5, <2>6, <2>7, <2>8 DEF TypeOK
  <1>2. ClaimStillValid /\ AttemptsWithinClaims /\ RunsInOrder /\ RunningUnderLatestClaim
    BY DEF ClaimStillValid, AttemptsWithinClaims, RunsInOrder, RunningUnderLatestClaim, Running
  <1>3. NoOrphanAdmission /\ WaitsForItsEffect /\ PausedTenantIsIdle
    BY DEF NoOrphanAdmission, WaitsForItsEffect, PausedTenantIsIdle
  <1>4. ClosedRunIsQuiet /\ TerminalRunHasEvidence /\ SucceededRunIsDone
    BY DEF ClosedRunIsQuiet, TerminalRunHasEvidence, SucceededRunIsDone
  <1>5. OneClaim /\ DecisionStands /\ PausedRunStops
    BY DEF OneClaim, DecisionStands, Decided, PausedRunStops
  <1> QED
    BY <1>1, <1>2, <1>3, <1>4, <1>5 DEF KernelInv

-----------------------------------------------------------------------------
(* Claiming.                                                               *)

\* The candidate query reads what ClaimStillValid says.
LEMMA BeginClaimInv ==
    ASSUME KernelInv, NEW s \in Steps, NEW w \in Workers, BeginClaim(s, w)
    PROVE  KernelInv'
  <1> USE DEF BeginClaim, KernelInv, stepVars, otherVars, effectVars
  <1>1. TypeOK'
    BY DEF TypeOK
  <1>2. ClaimStillValid' /\ OneClaim'
    BY DEF ClaimStillValid, OneClaim, TypeOK, Claimable, NoClaim
  <1>3. PausedRunStops'
    <2>1. \A x \in Steps : runState[RunOf[x]] = "PAUSED" /\ Engaged(x)' => Engaged(x)
      BY DEF Claimable, Engaged, Claimed
    <2> QED
      BY <2>1 DEF PausedRunStops, StepsOf
  <1> QED
    BY <1>1, <1>2, <1>3
    DEF DecisionStands, Decided, AttemptsWithinClaims, RunningUnderLatestClaim, NoOrphanAdmission,
        WaitsForItsEffect, ClosedRunIsQuiet, TerminalRunHasEvidence,
        SucceededRunIsDone, PausedTenantIsIdle, RunsInOrder, Running, EvidenceReady, Done

\* The commit starts the step under a new lease.
LEMMA CommitClaimInv ==
    ASSUME KernelInv, NEW c \in claiming, CommitClaim(c)
    PROVE  KernelInv'
  <1> USE DEF CommitClaim, KernelInv, stepVars, otherVars, effectVars
  <1>0. c \in Claim /\ c.step \in Steps /\ RunOf[c.step] \in Runs
    BY DEF TypeOK
  <1>1. TypeOK'
    BY <1>0 DEF TypeOK, ClaimStillValid, AttemptsWithinClaims
  <1>2. ClaimStillValid' /\ OneClaim'
    BY DEF ClaimStillValid, OneClaim
  <1>3. AttemptsWithinClaims'
    BY <1>0 DEF AttemptsWithinClaims, TypeOK
  <1>12. DecisionStands'
    <2>1. ~Decided(c.step)
      BY <1>0 DEF DecisionStands, ClaimStillValid
    <2>2. \A s \in Steps : Decided(s)' = Decided(s)
      BY DEF Decided
    <2> QED
      BY <1>0, <2>1, <2>2 DEF DecisionStands, TypeOK
  <1>13. PausedRunStops'
    <2>1. \A s \in Steps : Engaged(s)' => Engaged(s)
      BY <1>0 DEF Engaged, Claimed, TypeOK
    <2>2. \A r \in Runs : runState'[r] = "PAUSED" => runState[r] = "PAUSED"
      BY DEF TypeOK
    <2> QED
      BY <2>1, <2>2 DEF PausedRunStops, StepsOf
  <1>4. RunningUnderLatestClaim'
    <2> SUFFICES ASSUME NEW s \in Steps, stepState'[s] = "RUNNING"
                 PROVE  \E l \in issued' : lease'[s] = {l} /\ l.step = s /\ l.epoch = epoch'[s]
      BY DEF RunningUnderLatestClaim, Running
    <2>1. CASE s = c.step
      <3> DEFINE l == [step |-> s, worker |-> c.worker, gen |-> c.gen, epoch |-> epoch[s] + 1]
      <3>1. l \in issued' /\ lease'[s] = {l}
        BY <1>0, <2>1 DEF TypeOK
      <3>2. l.step = s /\ l.epoch = epoch'[s]
        BY <1>0, <2>1 DEF TypeOK
      <3> QED
        BY <3>1, <3>2
    <2>2. CASE s # c.step
      <3>1. s \in Running /\ lease'[s] = lease[s] /\ epoch'[s] = epoch[s]
        BY <1>0, <2>2 DEF Running, TypeOK
      <3>2. PICK l \in issued : lease[s] = {l} /\ l.step = s /\ l.epoch = epoch[s]
        BY <3>1 DEF RunningUnderLatestClaim
      <3>3. l \in issued'
        OBVIOUS
      <3> QED
        BY <3>1, <3>2, <3>3
    <2> QED
      BY <2>1, <2>2
  <1>5. NoOrphanAdmission'
    BY <1>0 DEF NoOrphanAdmission, TypeOK, ClaimStillValid
  <1>6. WaitsForItsEffect'
    BY <1>0 DEF WaitsForItsEffect, TypeOK
  <1>7. ClosedRunIsQuiet'
    BY <1>0 DEF ClosedRunIsQuiet, TypeOK, ClaimStillValid
  <1>8. TerminalRunHasEvidence'
    BY <1>0 DEF TerminalRunHasEvidence, TypeOK, ClaimStillValid, EvidenceReady
  <1>9. SucceededRunIsDone'
    BY <1>0 DEF SucceededRunIsDone, TypeOK, ClaimStillValid, Done, StepsOf
  <1>10. PausedTenantIsIdle'
    BY <1>0 DEF PausedTenantIsIdle, TypeOK, ClaimStillValid
  <1>11. RunsInOrder'
    BY <1>0 DEF RunsInOrder, TypeOK, ClaimStillValid
  <1> QED
    BY <1>1, <1>2, <1>3, <1>4, <1>5, <1>6, <1>7, <1>8, <1>9, <1>10, <1>11, <1>12, <1>13

-----------------------------------------------------------------------------
(* Taking steps away from their workers.                                   *)

\* The step may be sent to reconciliation.
MayWait(s) ==
    \/ effect[s] = "ADMITTED"
    \/ effect[s] \in {"COMPLETED", "FAILED"} /\ effEpoch[s] = epoch[s]

\* Releasing slots lowers the counter or leaves it at zero.
LEMMA ReleaseBounds ==
    ASSUME usage \in Nat, NEW n \in Nat, ReleaseSlots(n)
    PROVE  usage' \in Nat /\ usage' <= usage
  BY DEF ReleaseSlots

\* ... in particular those of the steps of S.
LEMMA ReleaseOfSteps ==
    ASSUME usage \in Nat, NEW S \in SUBSET Steps, Release(S)
    PROVE  usage' \in Nat /\ usage' <= usage
  <1>1. Cardinality({s \in S : stepState[s] = "RUNNING"}) \in Nat
    BY FiniteAssumption, FS_Subset, FS_CardinalityType
  <1> QED
    BY <1>1, ReleaseBounds DEF Release

\* A transaction that moves the open steps M out of RUNNING, PENDING and
\* claims preserves the invariant if it releases, parks and clears M, sends
\* to reconciliation only what has an admitted effect (or had one when the
\* reclaim decided), locks M against a reclaim, and closes no run with open
\* steps or without evidence.
LEMMA Retire ==
    ASSUME KernelInv,
           NEW M \in SUBSET Steps,
           stepState' \in [Steps -> StepStates],
           \A s \in Steps \ M : stepState'[s] = stepState[s],
           \A s \in M : stepState[s] \notin StepTerminal /\ stepState'[s] # "RUNNING",
           \A s \in M : stepState'[s] = "WAITING_FOR_RECONCILIATION" => MayWait(s),
           usage' \in Nat, usage' <= usage,
           Park(M), ClearLease(M),
           decided' \in [Steps -> Decisions],
           \A s \in Steps : decided'[s] = IF s \in M THEN "none" ELSE decided[s],
           runState' \in [Runs -> RunStates],
           \A s \in Steps : runState'[RunOf[s]] \in RunTerminal \cup {"COMPENSATING"}
                              => stepState'[s] \in StepTerminal,
           \A r \in Runs : runState'[r] \in RunTerminal
                             => runState[r] \in RunTerminal \/ EvidenceReady(r),
           \A r \in Runs : runState'[r] = "SUCCEEDED"
                             => runState[r] = "SUCCEEDED" \/ Done(stepState', r),
           \A r \in Runs : runState'[r] = "PAUSED" /\ runState[r] # "PAUSED"
                             => \A s \in StepsOf(r) : stepState'[s] # "RUNNING",
           attempt' \in [Steps -> Nat], \A s \in Steps : attempt'[s] <= attempt[s],
           due' \in [Steps -> BOOLEAN],
           paused' \in BOOLEAN,
           paused' => claiming = {} /\ \A s \in Steps : stepState'[s] # "RUNNING",
           \A c \in claiming : /\ c.step \notin M
                               /\ runState'[RunOf[c.step]] \in {"PENDING", "RUNNING", "PAUSED"},
           inverse' \in [Inverses -> InverseStates], undue' \in Nat,
           UNCHANGED <<epoch, gen, active, effEpoch, receipt, claiming, issued>>
    PROVE  KernelInv'
  <1> USE DEF KernelInv
  <1>0. usage' \in Nat /\ usage' <= usage
    OBVIOUS
  <1>1. TypeOK'
    <2>1. effect' \in [Steps -> EffectStates]
      BY DEF TypeOK, Park
    <2>2. lease' \in [Steps -> SUBSET Lease] /\ ttl' \in [Steps -> 0..LeaseTTL]
      BY DEF TypeOK, ClearLease
    <2>3. attempt' \in [Steps -> 0..MaxEpoch]
      BY DEF TypeOK
    <2> QED
      BY <1>0, <2>1, <2>2, <2>3 DEF TypeOK
  <1>2. ClaimStillValid'
    <2> SUFFICES ASSUME NEW c \in claiming
                 PROVE  /\ stepState'[c.step] \in {"PENDING", "RETRY_WAIT"}
                        /\ epoch'[c.step] < MaxEpoch
                        /\ runState'[RunOf[c.step]] \in {"PENDING", "RUNNING", "PAUSED"}
                        /\ ~paused'
                        /\ usage' < Limit
                        /\ \A d \in Deps[c.step] : stepState'[d] \in {"SUCCEEDED", "SKIPPED"}
      BY DEF ClaimStillValid
    <2>1. c.step \in Steps \ M
      BY DEF TypeOK
    <2>2. stepState'[c.step] \in {"PENDING", "RETRY_WAIT"} /\ epoch'[c.step] < MaxEpoch
      BY <2>1 DEF ClaimStillValid
    <2>3. usage' < Limit
      BY <1>0 DEF ClaimStillValid, TypeOK
    <2>4. \A d \in Deps[c.step] : stepState'[d] \in {"SUCCEEDED", "SKIPPED"}
      BY <2>1 DEF ClaimStillValid
    <2> QED
      BY <2>2, <2>3, <2>4
  <1>3. AttemptsWithinClaims'
    BY DEF AttemptsWithinClaims, TypeOK
  <1>4. RunningUnderLatestClaim'
    BY DEF RunningUnderLatestClaim, Running, ClearLease, TypeOK
  <1>5. NoOrphanAdmission'
    BY DEF NoOrphanAdmission, Park, TypeOK
  <1>6. WaitsForItsEffect'
    <2> SUFFICES ASSUME NEW s \in Steps, stepState'[s] = "WAITING_FOR_RECONCILIATION"
                 PROVE  \/ effect'[s] = "COMPLETION_UNKNOWN"
                        \/ effect'[s] \in {"COMPLETED", "FAILED"} /\ effEpoch[s] = epoch[s]
      BY DEF WaitsForItsEffect
    <2>1. CASE s \in M
      BY <2>1 DEF Park, MayWait
    <2>2. CASE s \notin M
      BY <2>2 DEF Park, WaitsForItsEffect
    <2> QED
      BY <2>1, <2>2
  <1>12. OneClaim'
    BY DEF OneClaim
  <1>13. DecisionStands'
    <2> SUFFICES ASSUME NEW s \in Steps \ M, decided[s] # "none"
                 PROVE  /\ stepState'[s] = "RUNNING" /\ ttl'[s] = 0
                        /\ effect'[s] = effect[s]
      BY DEF DecisionStands, Decided
    <2> QED
      BY DEF DecisionStands, Decided, ClearLease, Park
  <1>14. PausedRunStops'
    <2>1. \A s \in Steps : Engaged(s)' => Engaged(s)
      BY DEF Engaged, Claimed
    <2> SUFFICES ASSUME NEW r \in Runs, runState'[r] = "PAUSED",
                        NEW s \in StepsOf(r), NEW x \in StepsOf(r), Engaged(s)', Engaged(x)'
                 PROVE  s = x
      BY DEF PausedRunStops, StepsOf
    <2>2. s \in Steps /\ x \in Steps
      BY DEF StepsOf
    <2>3. CASE runState[r] = "PAUSED"
      BY <2>1, <2>2, <2>3 DEF PausedRunStops
    <2>4. CASE runState[r] # "PAUSED"
      <3>1. (\E c \in claiming : c.step = s) /\ (\E c \in claiming : c.step = x)
        BY <2>4 DEF Engaged, Claimed
      <3> QED
        BY <3>1 DEF OneClaim
    <2> QED
      BY <2>3, <2>4
  <1>7. ClosedRunIsQuiet'
    BY DEF ClosedRunIsQuiet
  <1>8. TerminalRunHasEvidence'
    BY DEF TerminalRunHasEvidence, EvidenceReady, StepsOf, Park, TypeOK
  <1>9. SucceededRunIsDone'
    <2> SUFFICES ASSUME NEW r \in Runs, runState[r] = "SUCCEEDED"
                 PROVE  Done(stepState', r)
      BY DEF SucceededRunIsDone, Done
    <2>1. \A s \in StepsOf(r) : stepState'[s] = stepState[s]
      BY DEF SucceededRunIsDone, Done, StepsOf
    <2> QED
      BY <2>1 DEF SucceededRunIsDone, Done
  <1>10. PausedTenantIsIdle'
    BY DEF PausedTenantIsIdle
  <1>11. RunsInOrder'
    BY DEF RunsInOrder, Running, TypeOK
  <1> QED
    BY <1>1, <1>2, <1>3, <1>4, <1>5, <1>6, <1>7, <1>8, <1>9, <1>10, <1>11, <1>12, <1>13, <1>14

\* The instance of Retire for the tails that leave every run alone.
LEMMA MoveStepsInv ==
    ASSUME KernelInv, NoClaim,
           NEW moved \in SUBSET Steps, NEW st \in [Steps -> StepStates],
           \A s \in Steps \ moved : st[s] = stepState[s],
           \A s \in moved : stepState[s] \notin StepTerminal /\ st[s] # "RUNNING",
           \A s \in moved : st[s] = "WAITING_FOR_RECONCILIATION" => MayWait(s),
           MoveSteps(moved, st),
           decided' \in [Steps -> Decisions],
           \A s \in Steps : decided'[s] = IF s \in moved THEN "none" ELSE decided[s],
           attempt' \in [Steps -> Nat], \A s \in Steps : attempt'[s] <= attempt[s],
           due' \in [Steps -> BOOLEAN],
           UNCHANGED <<epoch, paused, otherVars, effEpoch, receipt, claiming, issued>>
    PROVE  KernelInv'
  <1>1. /\ stepState' = st /\ runState' = runState
        /\ Release(moved) /\ Park(moved) /\ ClearLease(moved)
    BY DEF MoveSteps
  <1>2. runState' \in [Runs -> RunStates]
    BY <1>1 DEF KernelInv, TypeOK
  <1>3. \A s \in Steps : runState'[RunOf[s]] \in RunTerminal \cup {"COMPENSATING"}
                           => stepState'[s] \in StepTerminal
    BY <1>1 DEF KernelInv, ClosedRunIsQuiet
  <1>4. paused' => \A s \in Steps : stepState'[s] # "RUNNING"
    BY <1>1 DEF KernelInv, PausedTenantIsIdle
  <1>5. claiming = {} /\ paused' \in BOOLEAN
    BY DEF NoClaim, KernelInv, TypeOK
  <1>6. usage' \in Nat /\ usage' <= usage
    BY <1>1, ReleaseOfSteps DEF KernelInv, TypeOK
  <1>7. inverse' \in [Inverses -> InverseStates] /\ undue' \in Nat
        /\ UNCHANGED <<gen, active>>
    BY DEF otherVars, KernelInv, TypeOK
  <1> QED
    BY <1>1, <1>2, <1>3, <1>4, <1>5, <1>6, <1>7, Retire

\* The instance of Retire for the tails that end the run with the step.
LEMMA EndStepsInv ==
    ASSUME KernelInv, NoClaim,
           NEW r \in Runs, NEW moved \in SUBSET StepsOf(r), moved # {},
           NEW st \in [Steps -> StepStates], NEW failed,
           \A s \in Steps \ moved : st[s] = stepState[s],
           \A s \in moved : stepState[s] \notin StepTerminal /\ st[s] # "RUNNING",
           \A s \in moved : st[s] = "WAITING_FOR_RECONCILIATION" => MayWait(s),
           EndSteps(r, moved, st, failed),
           decided' \in [Steps -> Decisions],
           \A s \in Steps : decided'[s] = IF s \in moved THEN "none" ELSE decided[s],
           attempt' \in [Steps -> Nat], \A s \in Steps : attempt'[s] <= attempt[s],
           due' \in [Steps -> BOOLEAN],
           UNCHANGED <<epoch, paused, otherVars, effEpoch, receipt, claiming, issued>>
    PROVE  KernelInv'
  <1> DEFINE target == RunAfter(r, st, failed)
             cancelled == CancelledWith(r, st, failed)
             M == moved \cup cancelled
  <1>1. /\ runState' = [runState EXCEPT ![r] = target]
        /\ stepState' = [s \in Steps |-> IF s \in cancelled THEN "CANCELLED" ELSE st[s]]
        /\ Release(M) /\ Park(M) /\ ClearLease(M)
    BY DEF EndSteps
  <1>2. moved \subseteq Steps /\ cancelled \in SUBSET StepsOf(r) /\ M \in SUBSET Steps
    BY DEF CancelledWith, Open, StepsOf
  <1>3. \A s \in cancelled : st[s] \notin StepTerminal
    BY DEF CancelledWith, Open
  <1>4. runState[r] \notin RunTerminal \cup {"COMPENSATING"}
    BY <1>2 DEF KernelInv, ClosedRunIsQuiet, StepsOf
  <1>5. target \in RunStates /\ runState' \in [Runs -> RunStates]
    BY <1>1 DEF RunAfter, KernelInv, TypeOK
  <1>6. stepState' \in [Steps -> StepStates]
    BY <1>1
  <1>7. \A s \in Steps \ M : stepState'[s] = stepState[s]
    BY <1>1, <1>2
  <1>8. \A s \in M : stepState[s] \notin StepTerminal /\ stepState'[s] # "RUNNING"
    BY <1>1, <1>2, <1>3
  <1>9. \A s \in M : stepState'[s] = "WAITING_FOR_RECONCILIATION" => MayWait(s)
    BY <1>1, <1>2
  <1>10. target # runState[r] =>
           \/ target \in {"COMPENSATING", "FAILED"} /\ cancelled = Open(st, r)
           \/ target = "SUCCEEDED" /\ Done(st, r) /\ EvidenceReady(r)
    BY DEF RunAfter, CancelledWith
  <1>11. target = "FAILED" => EvidenceReady(r)
    BY <1>4 DEF RunAfter, FailsRun
  <1>12. \A s \in Steps : runState'[RunOf[s]] \in RunTerminal \cup {"COMPENSATING"}
                            => stepState'[s] \in StepTerminal
    <2> SUFFICES ASSUME NEW s \in Steps,
                        runState'[RunOf[s]] \in RunTerminal \cup {"COMPENSATING"}
                 PROVE  stepState'[s] \in StepTerminal
      OBVIOUS
    <2>1. CASE RunOf[s] = r
      <3>1. target # runState[r] /\ s \in StepsOf(r)
        BY <1>1, <1>4, <1>5, <2>1 DEF KernelInv, TypeOK, StepsOf
      <3>2. CASE cancelled = Open(st, r)
        BY <1>1, <3>1, <3>2 DEF Open
      <3>3. CASE Done(st, r)
        BY <1>1, <3>1, <3>3 DEF Done
      <3> QED
        BY <1>10, <3>1, <3>2, <3>3
    <2>2. CASE RunOf[s] # r
      <3>1. s \notin M /\ runState'[RunOf[s]] = runState[RunOf[s]]
        BY <1>1, <1>2, <2>2 DEF StepsOf, KernelInv, TypeOK
      <3> QED
        BY <1>7, <3>1 DEF KernelInv, ClosedRunIsQuiet
    <2> QED
      BY <2>1, <2>2
  <1>13. \A x \in Runs : runState'[x] \in RunTerminal
                           => runState[x] \in RunTerminal \/ EvidenceReady(x)
    BY <1>1, <1>4, <1>10, <1>11 DEF KernelInv, TypeOK
  <1>14. \A x \in Runs : runState'[x] = "SUCCEEDED"
                           => runState[x] = "SUCCEEDED" \/ Done(stepState', x)
    <2> SUFFICES ASSUME target = "SUCCEEDED" PROVE Done(stepState', r)
      BY <1>1 DEF KernelInv, TypeOK
    <2>1. Done(st, r)
      BY <1>4, <1>10
    <2>2. \A s \in StepsOf(r) : stepState'[s] = st[s]
      BY <1>1, <1>3, <2>1 DEF Done, StepsOf
    <2> QED
      BY <2>1, <2>2 DEF Done
  <1>15. paused' => \A s \in Steps : stepState'[s] # "RUNNING"
    BY <1>7, <1>8 DEF KernelInv, PausedTenantIsIdle
  <1>16. claiming = {} /\ paused' \in BOOLEAN
    BY DEF NoClaim, KernelInv, TypeOK
  <1>17. usage' \in Nat /\ usage' <= usage
    BY <1>1, <1>2, ReleaseOfSteps DEF KernelInv, TypeOK
  <1>18. inverse' \in [Inverses -> InverseStates] /\ undue' \in Nat
         /\ UNCHANGED <<gen, active>>
    BY DEF otherVars, KernelInv, TypeOK
  <1>19. \A s \in Steps : decided'[s] = IF s \in M THEN "none" ELSE decided[s]
    <2>1. \A s \in cancelled \ moved : decided[s] = "none"
      BY <1>2 DEF EndSteps, Decided
    <2> QED
      BY <2>1
  <1>20. \A x \in Runs : runState'[x] = "PAUSED" => runState[x] = "PAUSED"
    BY <1>1, <1>10 DEF KernelInv, TypeOK
  <1> HIDE DEF M, target, cancelled
  <1> QED
    BY <1>1, <1>2, <1>5, <1>6, <1>7, <1>8, <1>9, <1>12, <1>13, <1>14, <1>15, <1>16, <1>17,
       <1>18, <1>19, <1>20, Retire

-----------------------------------------------------------------------------
(* The actions that are instances of the two lemmas.                       *)

\* A lease that is alive is not being reclaimed.
LEMMA HoldersStepIsFree ==
    ASSUME KernelInv, NEW l \in issued, HoldsLive(l)
    PROVE  l.step \in Steps /\ decided[l.step] = "none"
  BY DEF KernelInv, TypeOK, DecisionStands, Decided, HoldsLive

\* completeStep.
LEMMA CompleteStepInv ==
    ASSUME KernelInv, NEW l \in issued, CompleteStep(l)
    PROVE  KernelInv'
  <1> DEFINE s == l.step
             st == [stepState EXCEPT ![s] = "SUCCEEDED"]
  <1>1. s \in Steps /\ RunOf[s] \in Runs /\ {s} \in SUBSET StepsOf(RunOf[s])
    BY DEF KernelInv, TypeOK, StepsOf
  <1>2. stepState[s] = "RUNNING" /\ st \in [Steps -> StepStates]
    BY DEF CompleteStep, HoldsLive, Holds, KernelInv, TypeOK
  <1>3. /\ NoClaim /\ EndSteps(RunOf[s], {s}, st, {})
        /\ UNCHANGED <<attempt, epoch, due, paused, otherVars, effEpoch, receipt, decided,
                       claiming, issued>>
    BY DEF CompleteStep
  <1>6. /\ decided' \in [Steps -> Decisions]
        /\ \A x \in Steps : decided'[x] = IF x \in {s} THEN "none" ELSE decided[x]
    BY <1>3, HoldersStepIsFree DEF CompleteStep, KernelInv, TypeOK
  <1>4. /\ \A x \in Steps \ {s} : st[x] = stepState[x]
        /\ st[s] = "SUCCEEDED"
    BY <1>1 DEF KernelInv, TypeOK
  <1>5. /\ attempt' \in [Steps -> Nat] /\ \A x \in Steps : attempt'[x] <= attempt[x]
        /\ due' \in [Steps -> BOOLEAN]
    BY <1>3 DEF KernelInv, TypeOK
  <1> HIDE DEF s, st
  <1> QED
    BY <1>1, <1>2, <1>3, <1>4, <1>5, <1>6, EndStepsInv

\* failStep, with its retry and its failure.
LEMMA FailStepInv ==
    ASSUME KernelInv, NEW l \in issued, NEW retryable \in BOOLEAN, NEW refund \in BOOLEAN,
           FailStep(l, retryable, refund)
    PROVE  KernelInv'
  <1> DEFINE s == l.step
             counted == IF refund /\ attempt[s] > 0 THEN attempt[s] - 1 ELSE attempt[s]
             retry == retryable /\ counted < MaxAttempts
             stR == [stepState EXCEPT ![s] = "RETRY_WAIT"]
             stF == [stepState EXCEPT ![s] = "FAILED"]
  <1>1. s \in Steps /\ RunOf[s] \in Runs /\ {s} \in SUBSET StepsOf(RunOf[s])
    BY DEF KernelInv, TypeOK, StepsOf
  <1>2. /\ stepState[s] = "RUNNING"
        /\ stR \in [Steps -> StepStates] /\ stF \in [Steps -> StepStates]
    BY DEF FailStep, HoldsLive, Holds, KernelInv, TypeOK
  <1>3. /\ NoClaim
        /\ retry => MoveSteps({s}, stR)
        /\ ~retry => EndSteps(RunOf[s], {s}, stF, {s})
        /\ UNCHANGED <<epoch, paused, otherVars, effEpoch, receipt, decided, claiming, issued>>
    BY DEF FailStep
  <1>4. /\ \A x \in Steps \ {s} : stR[x] = stepState[x] /\ stF[x] = stepState[x]
        /\ stR[s] = "RETRY_WAIT" /\ stF[s] = "FAILED"
    BY <1>1 DEF KernelInv, TypeOK
  <1>5. /\ attempt' \in [Steps -> Nat] /\ \A x \in Steps : attempt'[x] <= attempt[x]
        /\ due' \in [Steps -> BOOLEAN]
    <2>1. attempt[s] \in Nat /\ counted \in Nat /\ counted <= attempt[s]
      BY <1>1 DEF KernelInv, TypeOK
    <2>2. attempt' = [attempt EXCEPT ![s] = counted]
      BY DEF FailStep
    <2>3. attempt \in [Steps -> Nat]
      BY DEF KernelInv, TypeOK
    <2>4. due \in [Steps -> BOOLEAN] /\ due' = [due EXCEPT ![s] = IF retry THEN FALSE ELSE @]
      BY DEF KernelInv, TypeOK, FailStep
    <2>5. due' \in [Steps -> BOOLEAN]
      BY <1>1, <2>4
    <2> HIDE DEF counted, s
    <2> QED
      BY <1>1, <2>1, <2>2, <2>3, <2>5
  <1>6. /\ decided' \in [Steps -> Decisions]
        /\ \A x \in Steps : decided'[x] = IF x \in {s} THEN "none" ELSE decided[x]
    BY <1>3, HoldersStepIsFree DEF FailStep, KernelInv, TypeOK
  <1> HIDE DEF s, counted, retry, stR, stF
  <1>7. CASE retry
    BY <1>1, <1>2, <1>3, <1>4, <1>5, <1>6, <1>7, MoveStepsInv
  <1>8. CASE ~retry
    BY <1>1, <1>2, <1>3, <1>4, <1>5, <1>6, <1>8, EndStepsInv
  <1> QED
    BY <1>7, <1>8

\* reclaimExpiredLeases, its first statement.
LEMMA BeginReclaimInv ==
    ASSUME KernelInv, NEW s \in Steps, BeginReclaim(s)
    PROVE  KernelInv'
  <1> USE DEF KernelInv, BeginReclaim, otherVars, effectVars
  <1>1. TypeOK'
    BY DEF TypeOK, Reclaimed
  <1>2. \A x \in Steps : decided'[x] = IF x = s THEN Reclaimed(s) ELSE decided[x]
    BY DEF TypeOK
  <1>3. DecisionStands'
    <2> SUFFICES ASSUME NEW x \in Steps, decided'[x] # "none"
                 PROVE  /\ stepState[x] = "RUNNING" /\ ttl[x] = 0
                        /\ IF decided'[x] = "WAITING_FOR_RECONCILIATION"
                           THEN /\ effect[x] \in {"ADMITTED", "COMPLETED", "FAILED"}
                                /\ effEpoch[x] = epoch[x]
                           ELSE effect[x] # "ADMITTED"
      BY DEF DecisionStands, Decided
    <2>1. CASE x = s
      BY <1>2, <2>1 DEF Reclaimed, NoOrphanAdmission
    <2>2. CASE x # s
      BY <1>2, <2>2 DEF DecisionStands, Decided
    <2> QED
      BY <2>1, <2>2
  <1> QED
    BY <1>1, <1>3
    DEF ClaimStillValid, OneClaim, AttemptsWithinClaims, RunningUnderLatestClaim,
        NoOrphanAdmission, WaitsForItsEffect, ClosedRunIsQuiet, TerminalRunHasEvidence,
        EvidenceReady, SucceededRunIsDone, Done, PausedTenantIsIdle, PausedRunStops,
        Engaged, Claimed, RunsInOrder, Running

\* ... and the rest of it.
LEMMA CommitReclaimInv ==
    ASSUME KernelInv, NEW r \in Runs, NEW batch \in SUBSET StepsOf(r),
           CommitReclaim(r, batch)
    PROVE  KernelInv'
  <1> DEFINE st == [s \in Steps |-> IF s \in batch THEN decided[s] ELSE stepState[s]]
             failed == {s \in batch : decided[s] = "FAILED"}
  <1>1. batch \in SUBSET Steps
    BY DEF StepsOf
  <1>2. \A s \in batch : /\ decided[s] \in {"WAITING_FOR_RECONCILIATION", "RETRY_WAIT", "FAILED"}
                         /\ stepState[s] = "RUNNING"
                         /\ decided[s] = "WAITING_FOR_RECONCILIATION" => MayWait(s)
    BY <1>1 DEF CommitReclaim, Decided, DecisionStands, MayWait, KernelInv, TypeOK
  <1>3. st \in [Steps -> StepStates]
    BY <1>2 DEF KernelInv, TypeOK
  <1>5. /\ \A s \in Steps \ batch : st[s] = stepState[s]
        /\ \A s \in batch : stepState[s] \notin StepTerminal /\ st[s] # "RUNNING"
        /\ \A s \in batch : st[s] = "WAITING_FOR_RECONCILIATION" => MayWait(s)
    BY <1>1, <1>2
  <1>6. /\ NoClaim /\ batch # {}
        /\ failed = {} => MoveSteps(batch, st)
        /\ failed # {} => EndSteps(r, batch, st, failed)
        /\ UNCHANGED <<attempt, epoch, paused, otherVars, effEpoch, receipt, claiming, issued>>
    BY DEF CommitReclaim
  <1>7. attempt' \in [Steps -> Nat] /\ \A x \in Steps : attempt'[x] <= attempt[x]
    BY <1>6 DEF KernelInv, TypeOK
  <1>8. due' \in [Steps -> BOOLEAN]
    BY DEF CommitReclaim
  <1>4. /\ decided' \in [Steps -> Decisions]
        /\ \A s \in Steps : decided'[s] = IF s \in batch THEN "none" ELSE decided[s]
    BY DEF CommitReclaim, KernelInv, TypeOK
  <1> HIDE DEF st, failed
  <1>9. CASE failed = {}
    BY <1>1, <1>3, <1>4, <1>5, <1>6, <1>7, <1>8, <1>9, MoveStepsInv
  <1>10. CASE failed # {}
    BY <1>1, <1>3, <1>4, <1>5, <1>6, <1>7, <1>8, <1>10, EndStepsInv
  <1> QED
    BY <1>9, <1>10

\* failStepByTimer.
LEMMA FailStepByTimerInv ==
    ASSUME KernelInv, NEW s \in Steps, FailStepByTimer(s)
    PROVE  KernelInv'
  <1> DEFINE st == [stepState EXCEPT ![s] = "FAILED"]
  <1>1. RunOf[s] \in Runs /\ {s} \in SUBSET StepsOf(RunOf[s])
    BY DEF StepsOf
  <1>2. stepState[s] \notin StepTerminal /\ st \in [Steps -> StepStates]
    BY DEF FailStepByTimer, KernelInv, TypeOK
  <1>3. /\ NoClaim /\ EndSteps(RunOf[s], {s}, st, {s})
        /\ UNCHANGED <<attempt, epoch, due, paused, otherVars, effEpoch, receipt, decided,
                       claiming, issued>>
    BY DEF FailStepByTimer
  <1>6. /\ decided' \in [Steps -> Decisions]
        /\ \A x \in Steps : decided'[x] = IF x \in {s} THEN "none" ELSE decided[x]
    BY <1>3 DEF FailStepByTimer, Decided, KernelInv, TypeOK
  <1>4. /\ \A x \in Steps \ {s} : st[x] = stepState[x]
        /\ st[s] = "FAILED"
    BY DEF KernelInv, TypeOK
  <1>5. /\ attempt' \in [Steps -> Nat] /\ \A x \in Steps : attempt'[x] <= attempt[x]
        /\ due' \in [Steps -> BOOLEAN]
    BY <1>3 DEF KernelInv, TypeOK
  <1> HIDE DEF st
  <1> QED
    BY <1>1, <1>2, <1>3, <1>4, <1>5, <1>6, EndStepsInv

\* markEffectCompletionUnknown and parkEffectCompletionUnknown.
LEMMA HandToReconcilerInv ==
    ASSUME KernelInv, NEW s \in Steps, stepState[s] = "RUNNING", HandToReconciler(s)
    PROVE  KernelInv'
  <1> DEFINE st == [stepState EXCEPT ![s] = "WAITING_FOR_RECONCILIATION"]
  <1>1. {s} \in SUBSET Steps /\ st \in [Steps -> StepStates] /\ effect[s] = "ADMITTED"
    BY DEF KernelInv, TypeOK, HandToReconciler
  <1>2. /\ NoClaim /\ MoveSteps({s}, st) /\ MayWait(s)
        /\ UNCHANGED <<attempt, epoch, due, paused, otherVars, effEpoch, receipt, decided,
                       claiming, issued>>
    BY DEF HandToReconciler, MayWait
  <1>5. /\ decided' \in [Steps -> Decisions]
        /\ \A x \in Steps : decided'[x] = IF x \in {s} THEN "none" ELSE decided[x]
    BY <1>2 DEF HandToReconciler, Decided, KernelInv, TypeOK
  <1>3. /\ \A x \in Steps \ {s} : st[x] = stepState[x]
        /\ st[s] = "WAITING_FOR_RECONCILIATION"
    BY DEF KernelInv, TypeOK
  <1>4. /\ attempt' \in [Steps -> Nat] /\ \A x \in Steps : attempt'[x] <= attempt[x]
        /\ due' \in [Steps -> BOOLEAN]
    BY <1>2 DEF KernelInv, TypeOK
  <1> HIDE DEF st
  <1> QED
    BY <1>1, <1>2, <1>3, <1>4, <1>5, MoveStepsInv

-----------------------------------------------------------------------------
(* The actions that are instances of Retire itself.                        *)

\* pauseTenant.
LEMMA PauseTenantInv ==
    ASSUME KernelInv, PauseTenant
    PROVE  KernelInv'
  <1> DEFINE M == {s \in Steps : stepState[s] = "RUNNING"}
             U == {c \in Inverses : inverse[c] = "RUNNING"}
  <1>1. M \in SUBSET Steps /\ Cardinality(M) \in Nat /\ Cardinality(U) \in Nat
    BY FiniteAssumption, FS_Subset, FS_CardinalityType
  <1>2. /\ claiming = {} /\ paused' = TRUE
        /\ stepState' = [s \in Steps |-> IF s \in M THEN "RETRY_WAIT" ELSE stepState[s]]
        /\ inverse' = [c \in Inverses |-> IF c \in U THEN "WAITING" ELSE inverse[c]]
        /\ ReleaseSlots(Cardinality(M) + Cardinality(U))
        /\ undue' = undue + Cardinality(U)
        /\ \A s \in M : decided[s] = "none"
        /\ Park(M) /\ ClearLease(M)
        /\ UNCHANGED <<runState, attempt, epoch, gen, active, effEpoch, receipt, decided,
                       claiming, issued>>
    BY DEF PauseTenant, NoClaim, Decided
  <1>3. /\ stepState' \in [Steps -> StepStates] /\ runState' \in [Runs -> RunStates]
        /\ inverse' \in [Inverses -> InverseStates] /\ undue' \in Nat
    BY <1>1, <1>2 DEF KernelInv, TypeOK
  <1>4. /\ \A x \in Steps \ M : stepState'[x] = stepState[x]
        /\ \A x \in M : stepState[x] = "RUNNING" /\ stepState'[x] = "RETRY_WAIT"
        /\ \A x \in Steps : stepState'[x] # "RUNNING"
    BY <1>2
  <1>5. /\ attempt' \in [Steps -> Nat] /\ \A x \in Steps : attempt'[x] <= attempt[x]
        /\ due' \in [Steps -> BOOLEAN] /\ paused' \in BOOLEAN
    BY <1>2 DEF PauseTenant, KernelInv, TypeOK
  <1>6. usage' \in Nat /\ usage' <= usage
    BY <1>1, <1>2, ReleaseBounds DEF KernelInv, TypeOK
  <1>7. /\ decided' \in [Steps -> Decisions]
        /\ \A s \in Steps : decided'[s] = IF s \in M THEN "none" ELSE decided[s]
    BY <1>2 DEF KernelInv, TypeOK
  <1>8. \A s \in Steps : runState'[RunOf[s]] \in RunTerminal \cup {"COMPENSATING"}
                           => stepState'[s] \in StepTerminal
    BY <1>2, <1>4 DEF KernelInv, ClosedRunIsQuiet
  <1> HIDE DEF M, U
  <1> QED
    BY <1>1, <1>2, <1>3, <1>4, <1>5, <1>6, <1>7, <1>8, Retire

\* pauseRun, also with a claim of the run in flight.
LEMMA PauseRunInv ==
    ASSUME KernelInv, NEW r \in Runs, PauseRun(r)
    PROVE  KernelInv'
  <1> DEFINE M == {s \in StepsOf(r) : stepState[s] = "RUNNING"}
  <1>1. M \in SUBSET Steps
    BY DEF StepsOf
  <1>2. /\ stepState' = [s \in Steps |-> IF s \in M THEN "RETRY_WAIT" ELSE stepState[s]]
        /\ runState' = [runState EXCEPT ![r] = "PAUSED"] /\ runState[r] \in {"PENDING", "RUNNING"}
        /\ Release(M) /\ Park(M) /\ ClearLease(M) /\ \A s \in M : decided[s] = "none"
        /\ UNCHANGED <<attempt, epoch, due, paused, otherVars, effEpoch, receipt, decided,
                       claiming, issued>>
    BY DEF PauseRun, Decided
  <1>3. stepState' \in [Steps -> StepStates] /\ runState' \in [Runs -> RunStates]
    BY <1>2 DEF KernelInv, TypeOK
  <1>4. /\ \A s \in Steps \ M : stepState'[s] = stepState[s]
        /\ \A s \in M : stepState[s] = "RUNNING" /\ stepState'[s] = "RETRY_WAIT"
    BY <1>1, <1>2
  <1>5. \A x \in Runs : runState'[x] = IF x = r THEN "PAUSED" ELSE runState[x]
    BY <1>2 DEF KernelInv, TypeOK
  <1>6. \A s \in Steps : runState'[RunOf[s]] \in RunTerminal \cup {"COMPENSATING"}
                           => stepState'[s] \in StepTerminal
    BY <1>4, <1>5 DEF KernelInv, ClosedRunIsQuiet
  <1>7. /\ attempt' \in [Steps -> Nat] /\ \A x \in Steps : attempt'[x] <= attempt[x]
        /\ due' \in [Steps -> BOOLEAN] /\ paused' \in BOOLEAN
    BY <1>2 DEF KernelInv, TypeOK
  <1>8. \A c \in claiming : /\ c.step \notin M
                            /\ runState'[RunOf[c.step]] \in {"PENDING", "RUNNING", "PAUSED"}
    BY <1>4, <1>5 DEF KernelInv, TypeOK, ClaimStillValid
  <1>9. paused' => claiming = {} /\ \A s \in Steps : stepState'[s] # "RUNNING"
    BY <1>2, <1>4 DEF KernelInv, ClaimStillValid, PausedTenantIsIdle
  <1>10. \A x \in Runs : runState'[x] \in RunTerminal => runState[x] \in RunTerminal
    BY <1>5
  <1>11. \A x \in Runs : runState'[x] = "SUCCEEDED" => runState[x] = "SUCCEEDED"
    BY <1>5
  <1>12. \A x \in Runs : runState'[x] = "PAUSED" /\ runState[x] # "PAUSED"
                            => \A s \in StepsOf(x) : stepState'[s] # "RUNNING"
    BY <1>2, <1>5 DEF StepsOf
  <1>13. /\ usage' \in Nat /\ usage' <= usage
         /\ inverse' \in [Inverses -> InverseStates] /\ undue' \in Nat /\ UNCHANGED <<gen, active>>
    BY <1>1, <1>2, ReleaseOfSteps DEF otherVars, KernelInv, TypeOK
  <1>14. /\ decided' \in [Steps -> Decisions]
         /\ \A s \in Steps : decided'[s] = IF s \in M THEN "none" ELSE decided[s]
    BY <1>2 DEF KernelInv, TypeOK
  <1> HIDE DEF M
  <1> QED
    BY <1>1, <1>2, <1>3, <1>4, <1>6, <1>7, <1>8, <1>9, <1>10, <1>11, <1>12, <1>13, <1>14, Retire

\* cancelRun.
LEMMA CancelRunInv ==
    ASSUME KernelInv, NEW r \in Runs, CancelRun(r)
    PROVE  KernelInv'
  <1> DEFINE M == Open(stepState, r)
  <1>1. M \in SUBSET Steps /\ \A s \in M : stepState[s] \notin StepTerminal
    BY DEF Open, StepsOf
  <1>2. /\ stepState' = [s \in Steps |-> IF s \in M THEN "CANCELLED" ELSE stepState[s]]
        /\ runState' = [runState EXCEPT ![r] = "CANCELLED"]
        /\ EvidenceReady(r) /\ claiming = {}
        /\ Release(M) /\ Park(M) /\ ClearLease(M) /\ \A s \in M : decided[s] = "none"
        /\ UNCHANGED <<attempt, epoch, due, paused, otherVars, effEpoch, receipt, decided,
                       claiming, issued>>
    BY DEF CancelRun, NoClaim, Decided
  <1>3. stepState' \in [Steps -> StepStates] /\ runState' \in [Runs -> RunStates]
    BY <1>2 DEF KernelInv, TypeOK
  <1>4. /\ \A s \in Steps \ M : stepState'[s] = stepState[s]
        /\ \A s \in M : stepState'[s] = "CANCELLED"
    BY <1>1, <1>2
  <1>5. \A x \in Runs : runState'[x] = IF x = r THEN "CANCELLED" ELSE runState[x]
    BY <1>2 DEF KernelInv, TypeOK
  <1>6. \A s \in Steps : runState'[RunOf[s]] \in RunTerminal \cup {"COMPENSATING"}
                           => stepState'[s] \in StepTerminal
    <2>1. \A s \in Steps : RunOf[s] = r /\ s \notin M => stepState[s] \in StepTerminal
      BY DEF Open, StepsOf
    <2> QED
      BY <1>4, <1>5, <2>1 DEF KernelInv, ClosedRunIsQuiet
  <1>7. /\ attempt' \in [Steps -> Nat] /\ \A x \in Steps : attempt'[x] <= attempt[x]
        /\ due' \in [Steps -> BOOLEAN] /\ paused' \in BOOLEAN
    BY <1>2 DEF KernelInv, TypeOK
  <1>8. paused' => claiming = {} /\ \A s \in Steps : stepState'[s] # "RUNNING"
    BY <1>2, <1>4 DEF KernelInv, PausedTenantIsIdle
  <1>9. \A x \in Runs : runState'[x] \in RunTerminal => runState[x] \in RunTerminal \/ EvidenceReady(x)
    BY <1>2, <1>5
  <1>10. \A x \in Runs : /\ runState'[x] = "SUCCEEDED" => runState[x] = "SUCCEEDED"
                         /\ runState'[x] = "PAUSED" => runState[x] = "PAUSED"
    BY <1>5
  <1>11. /\ usage' \in Nat /\ usage' <= usage
         /\ inverse' \in [Inverses -> InverseStates] /\ undue' \in Nat /\ UNCHANGED <<gen, active>>
    BY <1>1, <1>2, ReleaseOfSteps DEF otherVars, KernelInv, TypeOK
  <1>12. /\ decided' \in [Steps -> Decisions]
         /\ \A s \in Steps : decided'[s] = IF s \in M THEN "none" ELSE decided[s]
    BY <1>2 DEF KernelInv, TypeOK
  <1> HIDE DEF M
  <1> QED
    BY <1>1, <1>2, <1>3, <1>4, <1>6, <1>7, <1>8, <1>9, <1>10, <1>11, <1>12, Retire

-----------------------------------------------------------------------------
(* The reconciler and the compensation.                                    *)

\* A reconcile mutation moves an open step to a state that is not RUNNING
\* and leaves its lease and its slot alone; the run ends only if it may.
LEMMA ReconcileInv ==
    ASSUME KernelInv, NEW s \in Steps,
           NEW effectTo \in EffectStates \ {"ADMITTED"},
           NEW stepTo \in {"SUCCEEDED", "FAILED", "WAITING_FOR_HUMAN"},
           NEW runMayEnd \in BOOLEAN,
           NEW runTo \in {"SUCCEEDED", "FAILED", "RUNNING"},
           runMayEnd => Open([stepState EXCEPT ![s] = stepTo], RunOf[s]) = {},
           runMayEnd /\ runTo = "SUCCEEDED" => Done([stepState EXCEPT ![s] = stepTo], RunOf[s]),
           Reconcile(s, effectTo, stepTo, runMayEnd, runTo)
    PROVE  KernelInv'
  <1> DEFINE r == RunOf[s]
             ready == \A x \in (StepsOf(r) \cap ClassA) \ {s} : effect[x] = "NONE" \/ receipt[x]
             ends == runState[r] = "RUNNING" /\ runMayEnd /\ ready
  <1> USE DEF KernelInv, otherVars
  <1>1. r \in Runs /\ s \in StepsOf(r)
    BY DEF StepsOf
  <1>2. /\ effect[s] = "COMPLETION_UNKNOWN" /\ stepState[s] \notin StepTerminal
        /\ runState[r] \notin RunTerminal \cup {"COMPENSATING"}
        /\ ~Decided(s)
        /\ \A c \in claiming : c.step # s
    BY DEF Reconcile, Reconcilable, ClosedRunIsQuiet, Claimed
  <1>3. /\ effect' = [effect EXCEPT ![s] = effectTo]
        /\ receipt' = [receipt EXCEPT ![s] = TRUE]
        /\ stepState' = [stepState EXCEPT ![s] = stepTo]
        /\ runState' = [runState EXCEPT ![r] = IF ends THEN runTo ELSE @]
        /\ UNCHANGED <<attempt, epoch, due, lease, ttl, usage, paused, otherVars,
                       effEpoch, decided, claiming, issued>>
    BY DEF Reconcile
  <1>4. /\ \A x \in Steps : stepState'[x] = IF x = s THEN stepTo ELSE stepState[x]
        /\ \A x \in Steps : effect'[x] = IF x = s THEN effectTo ELSE effect[x]
        /\ \A x \in Steps : receipt'[x] = IF x = s THEN TRUE ELSE receipt[x]
        /\ \A x \in Runs : runState'[x] = IF x = r /\ ends THEN runTo ELSE runState[x]
    BY <1>1, <1>3 DEF TypeOK
  <1>5. ends => Open(stepState', r) = {}
    BY <1>3
  <1>6. ends /\ runTo = "SUCCEEDED" => Done(stepState', r)
    BY <1>3
  <1>7. ends => \A x \in StepsOf(r) \cap ClassA : effect'[x] = "NONE" \/ receipt'[x]
    BY <1>4 DEF StepsOf
  <1>8. ends => runState[r] = "RUNNING"
    OBVIOUS
  <1>9. TypeOK'
    BY <1>1, <1>3 DEF TypeOK
  <1> HIDE DEF ends, ready, r
  <1>10. ClaimStillValid'
    <2> SUFFICES ASSUME NEW c \in claiming
                 PROVE  /\ stepState'[c.step] \in {"PENDING", "RETRY_WAIT"}
                        /\ epoch'[c.step] < MaxEpoch
                        /\ runState'[RunOf[c.step]] \in {"PENDING", "RUNNING", "PAUSED"}
                        /\ ~paused'
                        /\ usage' < Limit
                        /\ \A d \in Deps[c.step] : stepState'[d] \in {"SUCCEEDED", "SKIPPED"}
      BY <1>3 DEF ClaimStillValid
    <2>1. c.step \in Steps /\ c.step # s
      BY <1>2 DEF TypeOK
    <2>2. stepState'[c.step] \in {"PENDING", "RETRY_WAIT"}
      BY <1>4, <2>1 DEF ClaimStillValid
    <2>3. epoch'[c.step] < MaxEpoch /\ ~paused' /\ usage' < Limit
      BY <1>3 DEF ClaimStillValid
    <2>4. s \notin Deps[c.step]
      BY <1>2 DEF ClaimStillValid
    <2>5. \A d \in Deps[c.step] : stepState'[d] \in {"SUCCEEDED", "SKIPPED"}
      BY <1>4, <2>1, <2>4 DEF ClaimStillValid
    <2>6. RunOf[c.step] = r => ~ends
      BY <1>5, <2>1, <2>2 DEF Open, StepsOf
    <2>7. runState'[RunOf[c.step]] \in {"PENDING", "RUNNING", "PAUSED"}
      BY <1>4, <2>1, <2>6 DEF ClaimStillValid
    <2> QED
      BY <2>2, <2>3, <2>5, <2>7
  <1>11. AttemptsWithinClaims'
    BY <1>3 DEF AttemptsWithinClaims
  <1>12. RunningUnderLatestClaim'
    BY <1>3, <1>4 DEF RunningUnderLatestClaim, Running
  <1>13. NoOrphanAdmission'
    BY <1>3, <1>4 DEF NoOrphanAdmission
  <1>14. WaitsForItsEffect'
    BY <1>3, <1>4 DEF WaitsForItsEffect
  <1>15. ClosedRunIsQuiet'
    <2> SUFFICES ASSUME NEW x \in Steps,
                        runState'[RunOf[x]] \in RunTerminal \cup {"COMPENSATING"}
                 PROVE  stepState'[x] \in StepTerminal
      BY DEF ClosedRunIsQuiet
    <2>1. CASE RunOf[x] = r
      BY <1>1, <1>2, <1>4, <1>5, <2>1 DEF Open, StepsOf
    <2>2. CASE RunOf[x] # r
      <3>1. x # s /\ runState'[RunOf[x]] = runState[RunOf[x]]
        BY <1>4, <2>2 DEF r
      <3> QED
        BY <1>4, <3>1 DEF ClosedRunIsQuiet
    <2> QED
      BY <2>1, <2>2
  <1>16. TerminalRunHasEvidence'
    <2> SUFFICES ASSUME NEW x \in Runs, runState'[x] \in RunTerminal
                 PROVE  \A y \in StepsOf(x) \cap ClassA : effect'[y] = "NONE" \/ receipt'[y]
      BY DEF TerminalRunHasEvidence, EvidenceReady
    <2>1. CASE x = r
      BY <1>2, <1>4, <1>7, <2>1
    <2>2. CASE x # r
      <3>1. s \notin StepsOf(x) /\ runState[x] \in RunTerminal
        BY <1>4, <2>2 DEF r, StepsOf
      <3> QED
        BY <1>4, <3>1 DEF TerminalRunHasEvidence, EvidenceReady, StepsOf
    <2> QED
      BY <2>1, <2>2
  <1>17. SucceededRunIsDone'
    <2> SUFFICES ASSUME NEW x \in Runs, runState'[x] = "SUCCEEDED"
                 PROVE  Done(stepState', x)
      BY DEF SucceededRunIsDone, Done
    <2>1. CASE x = r
      BY <1>2, <1>4, <1>6, <2>1
    <2>2. CASE x # r
      <3>1. s \notin StepsOf(x) /\ runState[x] = "SUCCEEDED"
        BY <1>4, <2>2 DEF r, StepsOf
      <3>2. \A y \in StepsOf(x) : stepState'[y] = stepState[y]
        BY <1>4, <3>1 DEF StepsOf
      <3> QED
        BY <3>1, <3>2 DEF SucceededRunIsDone, Done
    <2> QED
      BY <2>1, <2>2
  <1>18. PausedTenantIsIdle'
    BY <1>3, <1>4 DEF PausedTenantIsIdle
  <1>19. RunsInOrder'
    BY <1>2, <1>3, <1>4 DEF RunsInOrder
  <1>20. OneClaim' /\ DecisionStands'
    BY <1>2, <1>3, <1>4 DEF OneClaim, DecisionStands, Decided
  <1>21. PausedRunStops'
    <2>1. \A x \in Steps : Engaged(x)' => Engaged(x)
      BY <1>3, <1>4 DEF Engaged, Claimed
    <2>2. \A x \in Runs : runState'[x] = "PAUSED" => runState[x] = "PAUSED"
      BY <1>4
    <2> QED
      BY <2>1, <2>2 DEF PausedRunStops, StepsOf
  <1> QED
    BY <1>9, <1>10, <1>11, <1>12, <1>13, <1>14, <1>15, <1>16, <1>17, <1>18, <1>19, <1>20, <1>21

\* COMPLETE, CONFIRM_NOT_APPLIED and ESCALATE.
LEMMA ReconcileActionsInv ==
    ASSUME KernelInv, NEW s \in Steps,
           CompleteReconciledEffect(s) \/ ConfirmNotApplied(s) \/ EscalateReconcile(s)
    PROVE  KernelInv'
  <1>1. CASE CompleteReconciledEffect(s)
    <2> DEFINE st == [stepState EXCEPT ![s] = "SUCCEEDED"]
               end == Done(st, RunOf[s])
    <2>1. end \in BOOLEAN /\ (end => Open(st, RunOf[s]) = {})
      BY DEF Done, Open
    <2>2. Reconcile(s, "COMPLETED", "SUCCEEDED", end, "SUCCEEDED")
      BY <1>1 DEF CompleteReconciledEffect
    <2> QED
      BY <2>1, <2>2, ReconcileInv
  <1>2. CASE ConfirmNotApplied(s)
    <2> DEFINE st == [stepState EXCEPT ![s] = "FAILED"]
               end == Open(st, RunOf[s]) = {}
    <2>1. Reconcile(s, "CONFIRMED_NOT_APPLIED", "FAILED", end, "FAILED")
      BY <1>2 DEF ConfirmNotApplied
    <2> QED
      BY <2>1, ReconcileInv
  <1>3. CASE EscalateReconcile(s)
    BY <1>3, ReconcileInv DEF EscalateReconcile
  <1> QED
    BY <1>1, <1>2, <1>3

\* The end of a compensation.
LEMMA SettleCompensationInv ==
    ASSUME KernelInv, NEW r \in Runs, SettleCompensation(r)
    PROVE  KernelInv'
  <1> USE DEF KernelInv, SettleCompensation, stepVars, otherVars, effectVars
  <1>1. PICK target \in {"COMPENSATED", "FAILED"} : runState' = [runState EXCEPT ![r] = target]
    OBVIOUS
  <1>2. \A x \in Runs : runState'[x] = IF x = r THEN target ELSE runState[x]
    BY <1>1 DEF TypeOK
  <1>3. TypeOK'
    BY <1>1 DEF TypeOK
  <1>4. ClaimStillValid'
    <2>1. \A c \in claiming : RunOf[c.step] # r /\ RunOf[c.step] \in Runs
      BY DEF ClaimStillValid, TypeOK
    <2> QED
      BY <1>2, <2>1 DEF ClaimStillValid
  <1>5. ClosedRunIsQuiet' /\ SucceededRunIsDone'
    BY <1>2 DEF ClosedRunIsQuiet, SucceededRunIsDone, Done
  <1>6. TerminalRunHasEvidence'
    BY <1>2 DEF TerminalRunHasEvidence, EvidenceReady
  <1>7. PausedRunStops'
    BY <1>2 DEF PausedRunStops, Engaged, Claimed, StepsOf
  <1> QED
    BY <1>3, <1>4, <1>5, <1>6, <1>7
    DEF OneClaim, DecisionStands, Decided, AttemptsWithinClaims, RunningUnderLatestClaim,
        NoOrphanAdmission, WaitsForItsEffect, PausedTenantIsIdle, RunsInOrder, Running

-----------------------------------------------------------------------------
(* The effects of a step, as the lease holder records them.                *)

\* A lease that passes the fence is that of the latest claim of its step.
LEMMA FencedLease ==
    ASSUME KernelInv, NEW l \in issued, Holds(l)
    PROVE  /\ l.step \in Steps
           /\ stepState[l.step] = "RUNNING"
           /\ l.epoch = epoch[l.step]
           /\ runState[RunOf[l.step]] \notin RunTerminal \cup {"COMPENSATING"}
  <1>1. l.step \in Steps /\ stepState[l.step] = "RUNNING" /\ l \in lease[l.step]
    BY DEF KernelInv, TypeOK, Holds
  <1>2. PICK k \in issued : lease[l.step] = {k} /\ k.epoch = epoch[l.step]
    BY <1>1 DEF KernelInv, RunningUnderLatestClaim, Running
  <1>3. l = k
    BY <1>1, <1>2
  <1> QED
    BY <1>1, <1>2, <1>3 DEF KernelInv, ClosedRunIsQuiet

\* What is common to admitting, completing and failing an effect: the step
\* is RUNNING under its latest claim, so its run is open.
LEMMA RecordEffectInv ==
    ASSUME KernelInv, NEW s \in Steps,
           stepState[s] = "RUNNING",
           runState[RunOf[s]] \notin RunTerminal \cup {"COMPENSATING"},
           NEW to \in EffectStates, NEW e \in 0..MaxEpoch, NEW got \in BOOLEAN,
           to = "ADMITTED" => e = epoch[s] /\ ~Decided(s),
           to # "ADMITTED" => /\ to \in {"COMPLETED", "FAILED"}
                              /\ effect[s] = "ADMITTED" /\ e = effEpoch[s],
           effect' = [effect EXCEPT ![s] = to],
           effEpoch' = [effEpoch EXCEPT ![s] = e],
           receipt' = [receipt EXCEPT ![s] = got],
           UNCHANGED <<runState, stepVars, usage, paused, otherVars, claiming, issued>>
    PROVE  KernelInv'
  <1> USE DEF KernelInv, stepVars, otherVars
  <1>1. TypeOK'
    BY DEF TypeOK
  <1>2. /\ \A x \in Steps : effect'[x] = IF x = s THEN to ELSE effect[x]
        /\ \A x \in Steps : effEpoch'[x] = IF x = s THEN e ELSE effEpoch[x]
        /\ \A x \in Steps : receipt'[x] = IF x = s THEN got ELSE receipt[x]
    BY DEF TypeOK
  <1>3. NoOrphanAdmission' /\ WaitsForItsEffect'
    BY <1>2 DEF NoOrphanAdmission, WaitsForItsEffect
  <1>4. TerminalRunHasEvidence'
    BY <1>2 DEF TerminalRunHasEvidence, EvidenceReady, StepsOf
  <1>5. DecisionStands'
    BY <1>2 DEF DecisionStands, Decided
  <1>6. PausedRunStops'
    BY DEF PausedRunStops, Engaged, Claimed
  <1> QED
    BY <1>1, <1>3, <1>4, <1>5, <1>6
    DEF ClaimStillValid, OneClaim, AttemptsWithinClaims, RunningUnderLatestClaim,
        ClosedRunIsQuiet, SucceededRunIsDone, Done, PausedTenantIsIdle, RunsInOrder, Running

\* admitEffect, completeEffect and failEffect.
LEMMA EffectActionsInv ==
    ASSUME KernelInv, NEW l \in issued,
           AdmitEffect(l) \/ \E evidence \in BOOLEAN :
                               CompleteEffect(l, evidence) \/ FailEffect(l, evidence)
    PROVE  KernelInv'
  <1>1. Holds(l)
    BY DEF AdmitEffect, CompleteEffect, FailEffect, HoldsLive, HoldsAtBegin
  <1>2. /\ l.step \in Steps /\ l.epoch \in 0..MaxEpoch
        /\ effEpoch[l.step] \in 0..MaxEpoch /\ receipt[l.step] \in BOOLEAN
        /\ effEpoch = [effEpoch EXCEPT ![l.step] = effEpoch[l.step]]
        /\ receipt = [receipt EXCEPT ![l.step] = receipt[l.step]]
    BY DEF KernelInv, TypeOK
  <1>3. CASE AdmitEffect(l)
    <2>1. /\ effect' = [effect EXCEPT ![l.step] = "ADMITTED"]
          /\ effEpoch' = [effEpoch EXCEPT ![l.step] = l.epoch]
          /\ receipt' = [receipt EXCEPT ![l.step] = receipt[l.step]]
          /\ UNCHANGED <<runState, stepVars, usage, paused, otherVars, claiming, issued>>
      BY <1>2, <1>3 DEF AdmitEffect
    <2>2. ~Decided(l.step)
      BY <1>2, <1>3 DEF AdmitEffect, HoldsLive, KernelInv, DecisionStands
    <2> QED
      BY <1>1, <1>2, <2>1, <2>2, FencedLease, RecordEffectInv
  <1>4. CASE \E evidence \in BOOLEAN : CompleteEffect(l, evidence) \/ FailEffect(l, evidence)
    <2>1. PICK evidence \in BOOLEAN, to \in {"COMPLETED", "FAILED"} :
            /\ effect[l.step] = "ADMITTED"
            /\ effect' = [effect EXCEPT ![l.step] = to]
            /\ receipt' = [receipt EXCEPT ![l.step] = evidence]
            /\ UNCHANGED <<runState, stepVars, usage, paused, otherVars, effEpoch, claiming, issued>>
      BY <1>4 DEF CompleteEffect, FailEffect
    <2>2. effEpoch' = [effEpoch EXCEPT ![l.step] = effEpoch[l.step]]
      BY <1>2, <2>1
    <2> QED
      BY <1>1, <1>2, <2>1, <2>2, FencedLease, RecordEffectInv
  <1> QED
    BY <1>3, <1>4

\* markEffectCompletionUnknown and parkEffectCompletionUnknown.
LEMMA UnknownActionsInv ==
    ASSUME KernelInv, NEW l \in issued,
           MarkEffectCompletionUnknown(l) \/ ParkEffectCompletionUnknown(l)
    PROVE  KernelInv'
  <1>1. l.step \in Steps
    BY DEF KernelInv, TypeOK
  <1>2. stepState[l.step] = "RUNNING" /\ HandToReconciler(l.step)
    BY DEF MarkEffectCompletionUnknown, ParkEffectCompletionUnknown, HoldsLive, Holds
  <1> QED
    BY <1>1, <1>2, HandToReconcilerInv

-----------------------------------------------------------------------------
(* The actions that disturb few parts of the invariant.                    *)

\* answerInteraction: the answered step was not RUNNING, so its lease columns
\* say nothing that the invariant relies on.
LEMMA AnswerInteractionInv ==
    ASSUME KernelInv, NEW s \in Steps, AnswerInteraction(s)
    PROVE  KernelInv'
  <1> USE DEF KernelInv, AnswerInteraction, otherVars, effectVars
  <1>1. TypeOK'
    BY DEF TypeOK, ClearLease
  <1>2. /\ \A x \in Steps : stepState'[x] = IF x = s THEN "RETRY_WAIT" ELSE stepState[x]
        /\ \A x \in Steps : x # s => lease'[x] = lease[x]
    BY DEF TypeOK, ClearLease
  <1>3. ClaimStillValid'
    <2>1. \A c \in claiming : c.step \in Steps /\ c.step # s /\ s \notin Deps[c.step]
      BY DEF ClaimStillValid, TypeOK
    <2> QED
      BY <1>2, <2>1 DEF ClaimStillValid
  <1>4. RunningUnderLatestClaim'
    BY <1>2 DEF RunningUnderLatestClaim, Running
  <1>5. NoOrphanAdmission' /\ WaitsForItsEffect' /\ ClosedRunIsQuiet'
    BY <1>2 DEF NoOrphanAdmission, WaitsForItsEffect, ClosedRunIsQuiet
  <1>6. SucceededRunIsDone'
    BY <1>2 DEF SucceededRunIsDone, Done, StepsOf
  <1>7. PausedTenantIsIdle' /\ RunsInOrder'
    BY <1>2 DEF PausedTenantIsIdle, RunsInOrder, Running
  <1>8. AttemptsWithinClaims' /\ TerminalRunHasEvidence' /\ OneClaim'
    BY DEF AttemptsWithinClaims, TerminalRunHasEvidence, EvidenceReady, OneClaim
  <1>9. DecisionStands'
    <2>1. ~Decided(s) /\ \A x \in Steps : x # s => ttl'[x] = ttl[x]
      BY DEF DecisionStands, ClearLease, TypeOK
    <2> QED
      BY <1>2, <2>1 DEF DecisionStands, Decided
  <1>10. PausedRunStops'
    BY <1>2 DEF PausedRunStops, Engaged, Claimed, StepsOf
  <1> QED
    BY <1>1, <1>3, <1>4, <1>5, <1>6, <1>7, <1>8, <1>9, <1>10

\* resumeRun: the paused run is open again.
LEMMA ResumeRunInv ==
    ASSUME KernelInv, NEW r \in Runs, ResumeRun(r)
    PROVE  KernelInv'
  <1> USE DEF KernelInv, ResumeRun, stepVars, otherVars, effectVars
  <1>1. TypeOK' /\ \A x \in Runs : runState'[x] = IF x = r THEN "RUNNING" ELSE runState[x]
    BY DEF TypeOK
  <1>2. ClaimStillValid'
    <2>1. \A c \in claiming : c.step \in Steps
      BY DEF TypeOK
    <2> QED
      BY <1>1, <2>1 DEF ClaimStillValid
  <1>3. ClosedRunIsQuiet' /\ SucceededRunIsDone' /\ TerminalRunHasEvidence'
    BY <1>1 DEF ClosedRunIsQuiet, SucceededRunIsDone, TerminalRunHasEvidence, EvidenceReady, Done
  <1>4. PausedRunStops'
    BY <1>1 DEF PausedRunStops, Engaged, Claimed, StepsOf
  <1> QED
    BY <1>1, <1>2, <1>3, <1>4
    DEF OneClaim, DecisionStands, Decided, AttemptsWithinClaims, RunningUnderLatestClaim,
        NoOrphanAdmission, WaitsForItsEffect, PausedTenantIsIdle, RunsInOrder, Running

\* appendEvidence: a receipt more.
LEMMA AppendEvidenceInv ==
    ASSUME KernelInv, NEW s \in Steps, AppendEvidence(s)
    PROVE  KernelInv'
  <1> USE DEF KernelInv, AppendEvidence, stepVars, otherVars
  <1>1. TypeOK' /\ \A x \in Steps : receipt'[x] = IF x = s THEN TRUE ELSE receipt[x]
    BY DEF TypeOK
  <1>2. TerminalRunHasEvidence'
    BY <1>1 DEF TerminalRunHasEvidence, EvidenceReady, StepsOf
  <1> QED
    BY <1>1, <1>2
    DEF ClaimStillValid, OneClaim, DecisionStands, Decided, AttemptsWithinClaims,
        RunningUnderLatestClaim, NoOrphanAdmission, WaitsForItsEffect, ClosedRunIsQuiet,
        SucceededRunIsDone, Done, PausedTenantIsIdle, PausedRunStops, Engaged, Claimed,
        RunsInOrder, Running

\* The actions that touch only what the invariant types (clocks, schedules,
\* workers), end a claim or a reclaim without effect, lift the pause of the
\* tenant, or release a slot.
LEMMA QuietInv ==
    ASSUME KernelInv,
           TypeOK',
           DecisionStands',
           claiming' \in SUBSET claiming,
           usage' <= usage,
           paused' => paused,
           UNCHANGED <<runState, stepState, attempt, epoch, lease, effectVars, issued>>
    PROVE  KernelInv'
  <1> USE DEF KernelInv, effectVars
  <1>1. ClaimStillValid'
    BY DEF ClaimStillValid, TypeOK
  <1>2. OneClaim'
    BY DEF OneClaim
  <1>3. PausedRunStops'
    BY DEF PausedRunStops, Engaged, Claimed
  <1> QED
    BY <1>1, <1>2, <1>3
    DEF AttemptsWithinClaims, RunningUnderLatestClaim, NoOrphanAdmission, WaitsForItsEffect,
        ClosedRunIsQuiet, TerminalRunHasEvidence, EvidenceReady, SucceededRunIsDone, Done,
        PausedTenantIsIdle, RunsInOrder, Running

-----------------------------------------------------------------------------
\* The invariant is inductive.
LEMMA NextInv ==
    ASSUME KernelInv, [Next]_vars
    PROVE  KernelInv'
  <1> USE DEF stepVars, otherVars, effectVars
  <1>0. TypeOK /\ DecisionStands /\ usage <= usage
    BY DEF KernelInv, TypeOK
  <1>1. ASSUME NEW l \in issued, HeartbeatStep(l)
        PROVE  KernelInv'
    <2>1. l.step \in Steps /\ ~Decided(l.step)
      BY <1>0, <1>1 DEF TypeOK, HeartbeatStep, HoldsLive, DecisionStands
    <2>2. DecisionStands'
      BY <1>0, <1>1, <2>1 DEF TypeOK, HeartbeatStep, DecisionStands, Decided
    <2>3. TypeOK'
      BY <1>0, <1>1 DEF TypeOK, HeartbeatStep
    <2> QED
      BY <1>0, <1>1, <2>2, <2>3, QuietInv DEF HeartbeatStep
  <1>2. ASSUME NEW s \in Steps, Elapse(s)
        PROVE  KernelInv'
    <2>1. DecisionStands'
      BY <1>0, <1>2 DEF TypeOK, Elapse, DecisionStands, Decided
    <2>2. TypeOK'
      BY <1>0, <1>2 DEF TypeOK, Elapse
    <2> QED
      BY <1>0, <1>2, <2>1, <2>2, QuietInv DEF Elapse
  <1>3. ASSUME NEW s \in Steps, WakeRetryStep(s)
        PROVE  KernelInv'
    <2>1. TypeOK' /\ DecisionStands'
      BY <1>0, <1>3 DEF TypeOK, WakeRetryStep, DecisionStands, Decided
    <2> QED
      BY <1>0, <1>3, <2>1, QuietInv DEF WakeRetryStep
  <1>4. CASE RollbackClaim
    <2>1. TypeOK' /\ DecisionStands'
      BY <1>0, <1>4 DEF TypeOK, RollbackClaim, DecisionStands, Decided
    <2> QED
      BY <1>0, <1>4, <2>1, QuietInv DEF RollbackClaim
  <1>5. CASE ResumeTenant
    <2>1. TypeOK' /\ DecisionStands'
      BY <1>0, <1>5 DEF TypeOK, ResumeTenant, DecisionStands, Decided
    <2> QED
      BY <1>0, <1>5, <2>1, QuietInv DEF ResumeTenant
  <1>6. ASSUME NEW w \in Workers, RegisterWorker(w) \/ DrainWorker(w)
        PROVE  KernelInv'
    <2>1. gen' \in [Workers -> 1..MaxGen]
      BY <1>0, <1>6 DEF TypeOK, RegisterWorker, DrainWorker
    <2>2. active' \in [Workers -> BOOLEAN]
      BY <1>0, <1>6 DEF TypeOK, RegisterWorker, DrainWorker
    <2>3. TypeOK' /\ DecisionStands'
      BY <1>0, <1>6, <2>1, <2>2 DEF TypeOK, RegisterWorker, DrainWorker, DecisionStands, Decided
    <2> QED
      BY <1>0, <1>6, <2>3, QuietInv DEF RegisterWorker, DrainWorker
  <1>7. CASE UNCHANGED vars
    <2>1. TypeOK' /\ DecisionStands'
      BY <1>0, <1>7 DEF TypeOK, vars, DecisionStands, Decided
    <2> QED
      BY <1>0, <1>7, <2>1, QuietInv DEF vars
  <1>8. ASSUME NEW s \in Steps, RollbackReclaim(s)
        PROVE  KernelInv'
    <2>1. TypeOK' /\ DecisionStands'
      BY <1>0, <1>8 DEF TypeOK, RollbackReclaim, DecisionStands, Decided, Decisions
    <2> QED
      BY <1>0, <1>8, <2>1, QuietInv DEF RollbackReclaim
  <1>9. CASE InverseNext
    <2>1. usage' \in Nat /\ usage' <= usage /\ undue' \in Nat
      BY <1>0, <1>9 DEF InverseNext, ClaimInverse, SettleInverse, RetireInverse, ReleaseSlots, TypeOK
    <2>2. inverse' \in [Inverses -> InverseStates]
      <3>1. PICK c \in Inverses, to \in InverseStates : inverse' = [inverse EXCEPT ![c] = to]
        BY <1>9 DEF InverseNext, ClaimInverse, SettleInverse, RetireInverse, InverseStates
      <3> QED
        BY <1>0, <3>1 DEF TypeOK
    <2>3. UNCHANGED <<runState, stepVars, paused, effectVars, gen, active, claiming, issued>>
      BY <1>9 DEF InverseNext, ClaimInverse, SettleInverse, RetireInverse
    <2>4. TypeOK' /\ DecisionStands'
      BY <1>0, <2>1, <2>2, <2>3 DEF TypeOK, DecisionStands, Decided
    <2> QED
      BY <2>1, <2>3, <2>4, QuietInv
  <1>10. CASE WorkerNext
    BY <1>1, <1>10, CompleteStepInv, FailStepInv, EffectActionsInv, UnknownActionsInv
    DEF WorkerNext
  <1>11. CASE ClaimNext
    BY <1>4, <1>6, <1>11, BeginClaimInv, CommitClaimInv DEF ClaimNext
  <1>12. CASE DaemonNext
    BY <1>2, <1>3, <1>8, <1>12, BeginReclaimInv, CommitReclaimInv, FailStepByTimerInv,
       AppendEvidenceInv, ReconcileActionsInv, SettleCompensationInv DEF DaemonNext
  <1>13. CASE OperatorNext
    BY <1>5, <1>13, PauseRunInv, ResumeRunInv, CancelRunInv, PauseTenantInv,
       AnswerInteractionInv DEF OperatorNext
  <1> QED
    BY <1>7, <1>9, <1>10, <1>11, <1>12, <1>13 DEF Next

\* The kernel's transactions keep every part of KernelInv, whatever the runs,
\* steps, workers, dependencies and limits are.
THEOREM KernelInvariant == Spec => []KernelInv
  BY InitInv, NextInv, PTL DEF Spec

-----------------------------------------------------------------------------
(* What a step of the kernel can do to the states of steps and runs, and   *)
(* to the usage counter.                                                   *)

\* The slots of M are released, and some that compensation steps never took.
Releases(M) ==
    \E k \in Nat :
        /\ ReleaseSlots(Cardinality({s \in M : stepState[s] = "RUNNING"}) + k)
        /\ undue' = undue + k

\* The steps of M leave their workers and give back their slots.
Retires(M) ==
    /\ Releases(M)
    /\ \A s \in Steps \ M : stepState'[s] = stepState[s]
    /\ \A s \in M : stepState[s] \notin StepTerminal /\ stepState'[s] # "RUNNING"

\* Open steps move without touching the counter.
Moves ==
    /\ usage' = usage /\ undue' = undue
    /\ \A s \in Steps : \/ stepState'[s] = stepState[s]
                        \/ stepState[s] \notin StepTerminal /\ stepState'[s] # "RUNNING"

\* No run leaves a terminal state.
KeepsRuns == \A r \in Runs : runState[r] \in RunTerminal => runState'[r] = runState[r]

\* What the kernel's own steps release was taken.
LEMMA PlainRelease ==
    ASSUME KernelInv, NEW M \in SUBSET Steps, Release(M), undue' = undue
    PROVE  Releases(M)
  <1> DEFINE n == Cardinality({s \in M : stepState[s] = "RUNNING"})
  <1>1. IsFiniteSet({s \in M : stepState[s] = "RUNNING"})
    BY FiniteAssumption, FS_Subset
  <1>2. n \in Nat
    BY <1>1, FS_CardinalityType
  <1>3. ReleaseSlots(n)
    BY DEF Release
  <1> HIDE DEF n
  <1>4. n + 0 = n /\ undue' = undue + 0
    BY <1>2 DEF KernelInv, TypeOK
  <1>5. \E k \in Nat : ReleaseSlots(n + k) /\ undue' = undue + k
    BY <1>3, <1>4
  <1> QED
    BY <1>5 DEF n, Releases

\* The tails that leave the run alone.
LEMMA MoveFrame ==
    ASSUME KernelInv, undue' = undue,
           NEW moved \in SUBSET Steps, NEW st,
           \A s \in Steps \ moved : st[s] = stepState[s],
           \A s \in moved : stepState[s] \notin StepTerminal /\ st[s] # "RUNNING",
           MoveSteps(moved, st)
    PROVE  (\E M \in SUBSET Steps : Retires(M)) /\ KeepsRuns
  <1>1. Retires(moved)
    BY PlainRelease DEF MoveSteps, Retires
  <1> QED
    BY <1>1 DEF MoveSteps, KeepsRuns

\* The tails that let the run follow.
LEMMA EndFrame ==
    ASSUME KernelInv, undue' = undue,
           NEW r \in Runs, NEW moved \in SUBSET StepsOf(r), moved # {},
           NEW st, NEW failed,
           \A s \in Steps \ moved : st[s] = stepState[s],
           \A s \in moved : stepState[s] \notin StepTerminal /\ st[s] # "RUNNING",
           EndSteps(r, moved, st, failed)
    PROVE  (\E M \in SUBSET Steps : Retires(M)) /\ KeepsRuns
  <1> DEFINE cancelled == CancelledWith(r, st, failed)
             M == moved \cup cancelled
  <1>1. moved \in SUBSET Steps /\ \A s \in moved : RunOf[s] = r
    BY DEF StepsOf
  <1>2. runState[r] \notin RunTerminal
    BY <1>1 DEF KernelInv, ClosedRunIsQuiet
  <1>3. /\ stepState' = [s \in Steps |-> IF s \in cancelled THEN "CANCELLED" ELSE st[s]]
        /\ runState' = [runState EXCEPT ![r] = RunAfter(r, st, failed)]
        /\ Release(M)
    BY DEF EndSteps
  <1>4. cancelled \in SUBSET Steps /\ \A s \in cancelled : st[s] \notin StepTerminal
    BY DEF CancelledWith, Open, StepsOf
  <1> HIDE DEF cancelled
  <1>5. Retires(M)
    BY <1>1, <1>3, <1>4, PlainRelease DEF Retires
  <1>6. KeepsRuns
    BY <1>2, <1>3 DEF KernelInv, TypeOK, KeepsRuns
  <1> QED
    BY <1>1, <1>4, <1>5, <1>6

\* A lease holder's action retires its step or leaves the steps alone.
LEMMA WorkerFrame ==
    ASSUME KernelInv, WorkerNext
    PROVE  (Moves \/ \E M \in SUBSET Steps : Retires(M)) /\ KeepsRuns
  <1>1. PICK l \in issued :
          \/ HeartbeatStep(l) \/ AdmitEffect(l)
          \/ \E evidence \in BOOLEAN : CompleteEffect(l, evidence) \/ FailEffect(l, evidence)
          \/ CompleteStep(l)
          \/ \E retryable, refund \in BOOLEAN : FailStep(l, retryable, refund)
          \/ MarkEffectCompletionUnknown(l) \/ ParkEffectCompletionUnknown(l)
    BY DEF WorkerNext
  <1> DEFINE s == l.step
  <1>2. s \in Steps /\ RunOf[s] \in Runs /\ {s} \in SUBSET StepsOf(RunOf[s])
    BY DEF KernelInv, TypeOK, StepsOf
  <1>3. CASE \/ HeartbeatStep(l) \/ AdmitEffect(l)
             \/ \E evidence \in BOOLEAN : CompleteEffect(l, evidence) \/ FailEffect(l, evidence)
    <2>1. UNCHANGED <<runState, stepState, usage, undue>>
      BY <1>3 DEF HeartbeatStep, AdmitEffect, CompleteEffect, FailEffect, stepVars, otherVars
    <2> QED
      BY <2>1 DEF Moves, KeepsRuns
  <1>4. CASE \/ CompleteStep(l)
             \/ \E retryable, refund \in BOOLEAN : FailStep(l, retryable, refund)
             \/ MarkEffectCompletionUnknown(l) \/ ParkEffectCompletionUnknown(l)
    <2>1. stepState[s] = "RUNNING"
      BY <1>4 DEF CompleteStep, FailStep, MarkEffectCompletionUnknown,
                  ParkEffectCompletionUnknown, HoldsLive, Holds
    <2> DEFINE Targets == {"SUCCEEDED", "RETRY_WAIT", "FAILED", "WAITING_FOR_RECONCILIATION"}
               Tail(to, failed) == \/ MoveSteps({s}, [stepState EXCEPT ![s] = to])
                                   \/ EndSteps(RunOf[s], {s}, [stepState EXCEPT ![s] = to], failed)
    <2>2. \E to \in Targets : \E failed \in {{}, {s}} : Tail(to, failed)
      <3>1. CASE CompleteStep(l)
        BY <3>1 DEF CompleteStep
      <3>2. CASE \E retryable, refund \in BOOLEAN : FailStep(l, retryable, refund)
        <4>1. \/ MoveSteps({s}, [stepState EXCEPT ![s] = "RETRY_WAIT"])
              \/ EndSteps(RunOf[s], {s}, [stepState EXCEPT ![s] = "FAILED"], {s})
          BY <3>2 DEF FailStep
        <4> QED
          BY <4>1
      <3>3. CASE MarkEffectCompletionUnknown(l) \/ ParkEffectCompletionUnknown(l)
        <4>1. MoveSteps({s}, [stepState EXCEPT ![s] = "WAITING_FOR_RECONCILIATION"])
          BY <3>3 DEF MarkEffectCompletionUnknown, ParkEffectCompletionUnknown, HandToReconciler
        <4> QED
          BY <4>1
      <3> QED
        BY <1>4, <3>1, <3>2, <3>3
    <2>3. PICK to \in Targets : \E failed \in {{}, {s}} : Tail(to, failed)
      BY <2>2
    <2>4. PICK failed \in {{}, {s}} : Tail(to, failed)
      BY <2>3
    <2> DEFINE st == [stepState EXCEPT ![s] = to]
    <2>5. MoveSteps({s}, st) \/ EndSteps(RunOf[s], {s}, st, failed)
      BY <2>4
    <2>6. st[s] # "RUNNING" /\ \A x \in Steps \ {s} : st[x] = stepState[x]
      BY <1>2 DEF KernelInv, TypeOK
    <2> HIDE DEF s, st, Targets, Tail
    <2>7. stepState[s] \notin StepTerminal /\ {s} # {}
      BY <2>1
    <2>10. undue' = undue
      BY <1>4 DEF CompleteStep, FailStep, MarkEffectCompletionUnknown,
                  ParkEffectCompletionUnknown, HandToReconciler, otherVars
    <2>8. CASE MoveSteps({s}, st)
      BY <1>2, <2>6, <2>7, <2>8, <2>10, MoveFrame
    <2>9. CASE EndSteps(RunOf[s], {s}, st, failed)
      BY <1>2, <2>6, <2>7, <2>9, <2>10, EndFrame
    <2> QED
      BY <2>5, <2>8, <2>9
  <1> QED
    BY <1>1, <1>3, <1>4

\* The daemons: reclaim and the deadline timer retire steps, the reconciler
\* moves one without releasing its slot.
LEMMA DaemonFrame ==
    ASSUME KernelInv, DaemonNext
    PROVE  (Moves \/ \E M \in SUBSET Steps : Retires(M)) /\ KeepsRuns
  <1>1. ASSUME NEW r \in Runs, NEW batch \in SUBSET StepsOf(r), CommitReclaim(r, batch)
        PROVE  (\E M \in SUBSET Steps : Retires(M)) /\ KeepsRuns
    <2> DEFINE st == [s \in Steps |-> IF s \in batch THEN decided[s] ELSE stepState[s]]
               failed == {s \in batch : decided[s] = "FAILED"}
    <2>1. /\ batch # {} /\ undue' = undue
          /\ \A s \in batch : Decided(s)
          /\ MoveSteps(batch, st) \/ EndSteps(r, batch, st, failed)
      BY <1>1 DEF CommitReclaim, otherVars
    <2>2. \A s \in batch : s \in Steps /\ stepState[s] = "RUNNING" /\ decided[s] # "RUNNING"
      BY <2>1 DEF StepsOf, KernelInv, DecisionStands, TypeOK, Decisions
    <2>3. (\A s \in Steps \ batch : st[s] = stepState[s]) /\ (\A s \in batch : st[s] # "RUNNING")
      BY <2>2
    <2> HIDE DEF st, failed
    <2>4. CASE MoveSteps(batch, st)
      BY <2>1, <2>2, <2>3, <2>4, MoveFrame
    <2>5. CASE EndSteps(r, batch, st, failed)
      BY <2>1, <2>2, <2>3, <2>5, EndFrame
    <2> QED
      BY <2>1, <2>4, <2>5
  <1>2. ASSUME NEW s \in Steps, FailStepByTimer(s)
        PROVE  (\E M \in SUBSET Steps : Retires(M)) /\ KeepsRuns
    <2> DEFINE st == [stepState EXCEPT ![s] = "FAILED"]
    <2>1. /\ stepState[s] \notin StepTerminal /\ EndSteps(RunOf[s], {s}, st, {s})
          /\ undue' = undue
      BY <1>2 DEF FailStepByTimer, otherVars
    <2>2. st[s] = "FAILED" /\ \A x \in Steps \ {s} : st[x] = stepState[x]
      BY DEF KernelInv, TypeOK
    <2>3. RunOf[s] \in Runs /\ {s} \in SUBSET StepsOf(RunOf[s])
      BY DEF StepsOf
    <2> HIDE DEF st
    <2> QED
      BY <2>1, <2>2, <2>3, EndFrame
  <1>3. ASSUME NEW s \in Steps,
               CompleteReconciledEffect(s) \/ ConfirmNotApplied(s) \/ EscalateReconcile(s)
        PROVE  Moves /\ KeepsRuns
    <2>1. PICK to \in {"SUCCEEDED", "FAILED", "WAITING_FOR_HUMAN"} :
            stepState' = [stepState EXCEPT ![s] = to]
      BY <1>3 DEF CompleteReconciledEffect, ConfirmNotApplied, EscalateReconcile, Reconcile
    <2>2. /\ usage' = usage /\ undue' = undue
          /\ stepState[s] \notin StepTerminal /\ runState[RunOf[s]] \notin RunTerminal
      BY <1>3 DEF CompleteReconciledEffect, ConfirmNotApplied, EscalateReconcile, Reconcile,
                  Reconcilable, otherVars
    <2>3. \A x \in Runs : x # RunOf[s] => runState'[x] = runState[x]
      BY <1>3 DEF CompleteReconciledEffect, ConfirmNotApplied, EscalateReconcile, Reconcile,
                  KernelInv, TypeOK
    <2>4. Moves
      BY <2>1, <2>2 DEF Moves, KernelInv, TypeOK
    <2> QED
      BY <2>2, <2>3, <2>4 DEF KeepsRuns
  <1>4. ASSUME NEW s \in Steps,
               \/ BeginReclaim(s) \/ RollbackReclaim(s)
               \/ Elapse(s) \/ WakeRetryStep(s) \/ AppendEvidence(s)
        PROVE  Moves /\ KeepsRuns
    BY <1>4 DEF BeginReclaim, RollbackReclaim, Elapse, WakeRetryStep, AppendEvidence, stepVars,
                otherVars, Moves, KeepsRuns
  <1>5. ASSUME NEW r \in Runs, SettleCompensation(r)
        PROVE  Moves /\ KeepsRuns
    BY <1>5 DEF SettleCompensation, stepVars, otherVars, Moves, KeepsRuns, KernelInv, TypeOK
  <1> QED
    BY <1>1, <1>2, <1>3, <1>4, <1>5 DEF DaemonNext

\* The operators.
LEMMA OperatorFrame ==
    ASSUME KernelInv, OperatorNext
    PROVE  (Moves \/ \E M \in SUBSET Steps : Retires(M)) /\ KeepsRuns
  <1>1. ASSUME NEW r \in Runs, PauseRun(r)
        PROVE  (\E M \in SUBSET Steps : Retires(M)) /\ KeepsRuns
    <2> DEFINE M == {s \in StepsOf(r) : stepState[s] = "RUNNING"}
    <2>1. M \in SUBSET Steps /\ Retires(M)
      BY <1>1, PlainRelease DEF PauseRun, Retires, StepsOf, otherVars
    <2>2. KeepsRuns
      BY <1>1 DEF PauseRun, KeepsRuns, KernelInv, TypeOK
    <2> QED
      BY <2>1, <2>2
  <1>2. ASSUME NEW r \in Runs, CancelRun(r)
        PROVE  (\E M \in SUBSET Steps : Retires(M)) /\ KeepsRuns
    <2> DEFINE M == Open(stepState, r)
    <2>1. M \in SUBSET Steps /\ Retires(M)
      BY <1>2, PlainRelease DEF CancelRun, Retires, Open, StepsOf, otherVars
    <2>2. KeepsRuns
      BY <1>2 DEF CancelRun, KeepsRuns, KernelInv, TypeOK
    <2> QED
      BY <2>1, <2>2
  <1>3. CASE PauseTenant
    <2> DEFINE M == {s \in Steps : stepState[s] = "RUNNING"}
    <2> DEFINE undoing == {c \in Inverses : inverse[c] = "RUNNING"}
    <2>1. Cardinality(undoing) \in Nat
      BY FiniteAssumption, FS_Subset, FS_CardinalityType
    <2>2. /\ ReleaseSlots(Cardinality(M) + Cardinality(undoing))
          /\ undue' = undue + Cardinality(undoing)
          /\ M = {s \in M : stepState[s] = "RUNNING"}
      BY <1>3 DEF PauseTenant
    <2>3. Releases(M)
      BY <2>1, <2>2 DEF Releases
    <2>4. M \in SUBSET Steps /\ Retires(M) /\ KeepsRuns
      BY <1>3, <2>3 DEF PauseTenant, Retires, KeepsRuns
    <2> QED
      BY <2>4
  <1>4. ASSUME NEW r \in Runs, ResumeRun(r)
        PROVE  Moves /\ KeepsRuns
    BY <1>4 DEF ResumeRun, stepVars, otherVars, Moves, KeepsRuns, KernelInv, TypeOK
  <1>5. ASSUME NEW s \in Steps, AnswerInteraction(s)
        PROVE  Moves /\ KeepsRuns
    BY <1>5 DEF AnswerInteraction, otherVars, Moves, KeepsRuns, KernelInv, TypeOK
  <1>6. CASE ResumeTenant
    BY <1>6 DEF ResumeTenant, stepVars, otherVars, Moves, KeepsRuns
  <1> QED
    BY <1>1, <1>2, <1>3, <1>4, <1>5, <1>6 DEF OperatorNext

\* Any step of the kernel retires steps, moves open ones, or commits a claim.
LEMMA StepFrame ==
    ASSUME KernelInv, [Next]_vars
    PROVE  /\ \/ Moves
              \/ \E M \in SUBSET Steps : Retires(M)
              \/ \E c \in claiming : CommitClaim(c)
           /\ KeepsRuns
  <1>1. ASSUME NEW c \in claiming, CommitClaim(c)
        PROVE  KeepsRuns
    BY <1>1 DEF CommitClaim, KeepsRuns, KernelInv, TypeOK
  <1>2. CASE UNCHANGED vars
    BY <1>2 DEF vars, stepVars, otherVars, Moves, KeepsRuns
  <1>3. CASE ClaimNext
    <2>1. CASE \E c \in claiming : CommitClaim(c)
      BY <1>1, <2>1
    <2>2. CASE ~ \E c \in claiming : CommitClaim(c)
      <3>1. UNCHANGED <<runState, stepState, usage, undue>>
        BY <1>3, <2>2 DEF ClaimNext, BeginClaim, RollbackClaim, RegisterWorker, DrainWorker,
                          stepVars, otherVars
      <3> QED
        BY <3>1 DEF Moves, KeepsRuns
    <2> QED
      BY <2>1, <2>2
  <1>4. CASE InverseNext
    <2>1. UNCHANGED <<runState, stepState>>
      BY <1>4 DEF InverseNext, ClaimInverse, SettleInverse, RetireInverse, stepVars
    <2>2. CASE UNCHANGED <<usage, undue>>
      BY <2>1, <2>2 DEF Moves, KeepsRuns
    <2>3. CASE ReleaseSlots(1) /\ undue' = undue + 1
      <3>1. Cardinality({s \in {} : stepState[s] = "RUNNING"}) + 1 = 1
        <4>1. {s \in {} : stepState[s] = "RUNNING"} = {}
          OBVIOUS
        <4> QED
          BY <4>1, FS_EmptySet
      <3>2. Releases({})
        BY <2>3, <3>1 DEF Releases
      <3> QED
        BY <2>1, <3>2 DEF Retires, KeepsRuns
    <2> QED
      BY <1>4, <2>2, <2>3 DEF InverseNext, ClaimInverse, SettleInverse, RetireInverse
  <1> QED
    BY <1>2, <1>3, <1>4, WorkerFrame, DaemonFrame, OperatorFrame DEF Next

\* Terminal states are final: no transaction of the kernel takes a step or a
\* run out of one.
THEOREM TerminalStatesAreFinal == Spec => TerminalIsFinal
  <1> DEFINE Final ==
        /\ \A s \in Steps : stepState[s] \in StepTerminal => stepState'[s] = stepState[s]
        /\ \A r \in Runs : runState[r] \in RunTerminal => runState'[r] = runState[r]
  <1>1. ASSUME KernelInv, [Next]_vars PROVE Final
    <2>1. KeepsRuns
      BY <1>1, StepFrame
    <2>2. CASE Moves
      BY <2>1, <2>2 DEF Moves, KeepsRuns
    <2>3. CASE \E M \in SUBSET Steps : Retires(M)
      BY <2>1, <2>3 DEF Retires, KeepsRuns
    <2>4. CASE \E c \in claiming : CommitClaim(c)
      <3>1. PICK c \in claiming : CommitClaim(c)
        BY <2>4
      <3>2. c.step \in Steps /\ stepState[c.step] \notin StepTerminal
        BY <1>1 DEF KernelInv, TypeOK, ClaimStillValid
      <3>3. \A s \in Steps : s # c.step => stepState'[s] = stepState[s]
        BY <1>1, <3>1 DEF CommitClaim, KernelInv, TypeOK
      <3> QED
        BY <2>1, <3>2, <3>3 DEF KeepsRuns
    <2> QED
      BY <1>1, <2>2, <2>3, <2>4, StepFrame
  <1>2. ASSUME KernelInv, [Next]_vars PROVE [Final]_vars
    BY <1>1, <1>2
  <1> HIDE DEF Final
  <1>3. Spec => [][Final]_vars
    BY <1>2, KernelInvariant, PTL DEF Spec
  <1> QED
    BY <1>3 DEF TerminalIsFinal, Final

-----------------------------------------------------------------------------
(* The contract of steps.                                                  *)

\* A change of state that StepsFollowContract allows.
Follows(s) ==
    stepState'[s] # stepState[s] =>
        \/ StepTransition(stepState[s], stepState'[s])
        \/ effect[s] = "COMPLETION_UNKNOWN" /\ effect'[s] # effect[s]

\* Every open step may be cancelled, and only open steps have transitions.
LEMMA OpenMayBeCancelled ==
    /\ \A x \in StepStates \ StepTerminal : StepTransition(x, "CANCELLED")
    /\ \A x \in StepStates, y \in StepStates : StepTransition(x, y) => x \notin StepTerminal
  BY DEF StepTransition, StepStates, StepTerminal

\* The tails that leave the run alone.
LEMMA MoveFollows ==
    ASSUME NEW moved \in SUBSET Steps, NEW st,
           \A s \in Steps \ moved : st[s] = stepState[s],
           \A s \in moved : StepTransition(stepState[s], st[s]),
           MoveSteps(moved, st)
    PROVE  \A s \in Steps : Follows(s)
  BY DEF MoveSteps, Follows

\* The tails that let the run follow: what they cancel was open.
LEMMA EndFollows ==
    ASSUME KernelInv,
           NEW r \in Runs, NEW moved \in SUBSET Steps, NEW st, NEW failed,
           \A s \in Steps \ moved : st[s] = stepState[s],
           \A s \in moved : StepTransition(stepState[s], st[s]) /\ stepState[s] \notin StepTerminal,
           EndSteps(r, moved, st, failed)
    PROVE  \A s \in Steps : Follows(s)
  <1> DEFINE cancelled == CancelledWith(r, st, failed)
  <1> SUFFICES ASSUME NEW s \in Steps PROVE Follows(s)
    OBVIOUS
  <1>1. stepState' = [x \in Steps |-> IF x \in cancelled THEN "CANCELLED" ELSE st[x]]
    BY DEF EndSteps
  <1>2. \A x \in cancelled : st[x] \notin StepTerminal
    BY DEF CancelledWith, Open
  <1>3. stepState[s] \in StepStates
    BY DEF KernelInv, TypeOK
  <1> HIDE DEF cancelled
  <1>4. CASE s \in cancelled
    <2>1. stepState[s] \notin StepTerminal
      BY <1>2, <1>4
    <2>2. StepTransition(stepState[s], "CANCELLED")
      BY <1>3, <2>1, OpenMayBeCancelled
    <2> QED
      BY <1>1, <1>4, <2>2 DEF Follows
  <1>5. CASE s \notin cancelled
    BY <1>1, <1>5 DEF Follows
  <1> QED
    BY <1>4, <1>5

\* A lease holder's action: its step is RUNNING.
LEMMA WorkerFollows ==
    ASSUME KernelInv, WorkerNext
    PROVE  \A s \in Steps : Follows(s)
  <1>1. PICK l \in issued :
          \/ HeartbeatStep(l) \/ AdmitEffect(l)
          \/ \E evidence \in BOOLEAN : CompleteEffect(l, evidence) \/ FailEffect(l, evidence)
          \/ CompleteStep(l)
          \/ \E retryable, refund \in BOOLEAN : FailStep(l, retryable, refund)
          \/ MarkEffectCompletionUnknown(l) \/ ParkEffectCompletionUnknown(l)
    BY DEF WorkerNext
  <1> DEFINE s == l.step
  <1>2. s \in Steps /\ RunOf[s] \in Runs /\ {s} \in SUBSET Steps
    BY DEF KernelInv, TypeOK
  <1>3. CASE \/ HeartbeatStep(l) \/ AdmitEffect(l)
             \/ \E evidence \in BOOLEAN : CompleteEffect(l, evidence) \/ FailEffect(l, evidence)
    <2>1. UNCHANGED stepState
      BY <1>3 DEF HeartbeatStep, AdmitEffect, CompleteEffect, FailEffect, stepVars
    <2> QED
      BY <2>1 DEF Follows
  <1>4. CASE \/ CompleteStep(l)
             \/ \E retryable, refund \in BOOLEAN : FailStep(l, retryable, refund)
             \/ MarkEffectCompletionUnknown(l) \/ ParkEffectCompletionUnknown(l)
    <2>1. stepState[s] = "RUNNING"
      BY <1>4 DEF CompleteStep, FailStep, MarkEffectCompletionUnknown,
                  ParkEffectCompletionUnknown, HoldsLive, Holds
    <2> DEFINE Targets == {"SUCCEEDED", "RETRY_WAIT", "FAILED", "WAITING_FOR_RECONCILIATION"}
               Tail(to, failed) == \/ MoveSteps({s}, [stepState EXCEPT ![s] = to])
                                   \/ EndSteps(RunOf[s], {s}, [stepState EXCEPT ![s] = to], failed)
    <2>2. \E to \in Targets : \E failed \in {{}, {s}} : Tail(to, failed)
      <3>1. CASE CompleteStep(l)
        BY <3>1 DEF CompleteStep
      <3>2. CASE \E retryable, refund \in BOOLEAN : FailStep(l, retryable, refund)
        <4>1. \/ MoveSteps({s}, [stepState EXCEPT ![s] = "RETRY_WAIT"])
              \/ EndSteps(RunOf[s], {s}, [stepState EXCEPT ![s] = "FAILED"], {s})
          BY <3>2 DEF FailStep
        <4> QED
          BY <4>1
      <3>3. CASE MarkEffectCompletionUnknown(l) \/ ParkEffectCompletionUnknown(l)
        <4>1. MoveSteps({s}, [stepState EXCEPT ![s] = "WAITING_FOR_RECONCILIATION"])
          BY <3>3 DEF MarkEffectCompletionUnknown, ParkEffectCompletionUnknown, HandToReconciler
        <4> QED
          BY <4>1
      <3> QED
        BY <1>4, <3>1, <3>2, <3>3
    <2>3. PICK to \in Targets : \E failed \in {{}, {s}} : Tail(to, failed)
      BY <2>2
    <2>4. PICK failed \in {{}, {s}} : Tail(to, failed)
      BY <2>3
    <2> DEFINE st == [stepState EXCEPT ![s] = to]
    <2>5. MoveSteps({s}, st) \/ EndSteps(RunOf[s], {s}, st, failed)
      BY <2>4
    <2>6. st[s] = to /\ \A x \in Steps \ {s} : st[x] = stepState[x]
      BY <1>2 DEF KernelInv, TypeOK
    <2>7. StepTransition("RUNNING", to) /\ "RUNNING" \notin StepTerminal
      BY DEF StepTransition, StepTerminal
    <2> HIDE DEF s, st, Targets, Tail
    <2>8. \A x \in {s} : StepTransition(stepState[x], st[x]) /\ stepState[x] \notin StepTerminal
      BY <2>1, <2>6, <2>7
    <2>9. CASE MoveSteps({s}, st)
      BY <1>2, <2>6, <2>8, <2>9, MoveFollows
    <2>10. CASE EndSteps(RunOf[s], {s}, st, failed)
      BY <1>2, <2>6, <2>8, <2>10, EndFollows
    <2> QED
      BY <2>5, <2>9, <2>10
  <1> QED
    BY <1>1, <1>3, <1>4

\* The daemons: only the reconciler leaves the contract, and it settles the
\* unknown effect of the step it moves.
LEMMA DaemonFollows ==
    ASSUME KernelInv, DaemonNext
    PROVE  \A s \in Steps : Follows(s)
  <1>1. ASSUME NEW r \in Runs, NEW batch \in SUBSET StepsOf(r), CommitReclaim(r, batch)
        PROVE  \A s \in Steps : Follows(s)
    <2> DEFINE st == [s \in Steps |-> IF s \in batch THEN decided[s] ELSE stepState[s]]
               failed == {s \in batch : decided[s] = "FAILED"}
    <2>1. /\ \A s \in batch : Decided(s)
          /\ MoveSteps(batch, st) \/ EndSteps(r, batch, st, failed)
      BY <1>1 DEF CommitReclaim
    <2>2. batch \in SUBSET Steps
      BY DEF StepsOf
    <2>3. \A s \in batch : /\ stepState[s] = "RUNNING"
                          /\ decided[s] \in {"WAITING_FOR_RECONCILIATION", "RETRY_WAIT", "FAILED"}
      BY <2>1, <2>2 DEF KernelInv, DecisionStands, TypeOK, Decided, Decisions
    <2>4. \A s \in Steps \ batch : st[s] = stepState[s]
      OBVIOUS
    <2>5. \A s \in batch : StepTransition(stepState[s], st[s]) /\ stepState[s] \notin StepTerminal
      BY <2>2, <2>3 DEF StepTransition, StepTerminal
    <2> HIDE DEF st, failed
    <2>6. CASE MoveSteps(batch, st)
      BY <2>2, <2>4, <2>5, <2>6, MoveFollows
    <2>7. CASE EndSteps(r, batch, st, failed)
      BY <2>2, <2>4, <2>5, <2>7, EndFollows
    <2> QED
      BY <2>1, <2>6, <2>7
  <1>2. ASSUME NEW s \in Steps, FailStepByTimer(s)
        PROVE  \A x \in Steps : Follows(x)
    <2> DEFINE st == [stepState EXCEPT ![s] = "FAILED"]
    <2>1. /\ stepState[s] \notin StepTerminal /\ StepTransition(stepState[s], "FAILED")
          /\ EndSteps(RunOf[s], {s}, st, {s})
      BY <1>2 DEF FailStepByTimer
    <2>2. st[s] = "FAILED" /\ \A x \in Steps \ {s} : st[x] = stepState[x]
      BY DEF KernelInv, TypeOK
    <2>3. RunOf[s] \in Runs /\ {s} \in SUBSET Steps
      OBVIOUS
    <2> HIDE DEF st
    <2>4. \A x \in {s} : StepTransition(stepState[x], st[x]) /\ stepState[x] \notin StepTerminal
      BY <2>1, <2>2
    <2> QED
      BY <2>1, <2>2, <2>3, <2>4, EndFollows
  <1>3. ASSUME NEW s \in Steps,
               CompleteReconciledEffect(s) \/ ConfirmNotApplied(s) \/ EscalateReconcile(s)
        PROVE  \A x \in Steps : Follows(x)
    <2>1. PICK to \in {"SUCCEEDED", "FAILED", "WAITING_FOR_HUMAN"},
               new \in {"COMPLETED", "CONFIRMED_NOT_APPLIED", "ESCALATED"} :
            stepState' = [stepState EXCEPT ![s] = to] /\ effect' = [effect EXCEPT ![s] = new]
      BY <1>3 DEF CompleteReconciledEffect, ConfirmNotApplied, EscalateReconcile, Reconcile
    <2>2. effect[s] = "COMPLETION_UNKNOWN"
      BY <1>3 DEF CompleteReconciledEffect, ConfirmNotApplied, EscalateReconcile, Reconcile,
                  Reconcilable
    <2>3. effect'[s] # effect[s] /\ \A x \in Steps : x # s => stepState'[x] = stepState[x]
      BY <2>1, <2>2 DEF KernelInv, TypeOK
    <2> QED
      BY <2>2, <2>3 DEF Follows
  <1>4. ASSUME NEW s \in Steps,
               \/ BeginReclaim(s) \/ RollbackReclaim(s)
               \/ Elapse(s) \/ WakeRetryStep(s) \/ AppendEvidence(s)
        PROVE  \A x \in Steps : Follows(x)
    BY <1>4 DEF BeginReclaim, RollbackReclaim, Elapse, WakeRetryStep, AppendEvidence, stepVars,
                Follows
  <1>5. ASSUME NEW r \in Runs, SettleCompensation(r)
        PROVE  \A x \in Steps : Follows(x)
    BY <1>5 DEF SettleCompensation, stepVars, Follows
  <1> QED
    BY <1>1, <1>2, <1>3, <1>4, <1>5 DEF DaemonNext

\* The operators pause what runs, cancel what is open and answer what waits.
LEMMA OperatorFollows ==
    ASSUME KernelInv, OperatorNext
    PROVE  \A s \in Steps : Follows(s)
  <1>0. /\ StepTransition("RUNNING", "RETRY_WAIT") /\ StepTransition("WAITING_FOR_HUMAN", "RETRY_WAIT")
        /\ \A s \in Steps : stepState[s] \notin StepTerminal => StepTransition(stepState[s], "CANCELLED")
    BY OpenMayBeCancelled DEF StepTransition, KernelInv, TypeOK
  <1>1. ASSUME NEW r \in Runs, PauseRun(r)
        PROVE  \A s \in Steps : Follows(s)
    BY <1>0, <1>1 DEF PauseRun, Follows
  <1>2. ASSUME NEW r \in Runs, CancelRun(r)
        PROVE  \A s \in Steps : Follows(s)
    BY <1>0, <1>2 DEF CancelRun, Open, Follows
  <1>3. CASE PauseTenant
    BY <1>0, <1>3 DEF PauseTenant, Follows
  <1>4. ASSUME NEW s \in Steps, AnswerInteraction(s)
        PROVE  \A x \in Steps : Follows(x)
    <2>1. stepState[s] = "WAITING_FOR_HUMAN" /\ stepState' = [stepState EXCEPT ![s] = "RETRY_WAIT"]
      BY <1>4 DEF AnswerInteraction
    <2>2. stepState'[s] = "RETRY_WAIT" /\ \A x \in Steps : x # s => stepState'[x] = stepState[x]
      BY <2>1 DEF KernelInv, TypeOK
    <2> QED
      BY <1>0, <2>1, <2>2 DEF Follows
  <1>5. ASSUME UNCHANGED stepState
        PROVE  \A s \in Steps : Follows(s)
    BY <1>5 DEF Follows
  <1> QED
    BY <1>1, <1>2, <1>3, <1>4, <1>5 DEF OperatorNext, ResumeRun, ResumeTenant, stepVars

\* Claims take a waiting step to RUNNING: what the claim read still holds.
LEMMA ClaimFollows ==
    ASSUME KernelInv, ClaimNext
    PROVE  \A s \in Steps : Follows(s)
  <1>1. ASSUME NEW c \in claiming, CommitClaim(c)
        PROVE  \A s \in Steps : Follows(s)
    <2>1. c.step \in Steps /\ StepTransition(stepState[c.step], "RUNNING")
      BY DEF KernelInv, TypeOK, ClaimStillValid, StepTransition, Claim
    <2>2. /\ stepState'[c.step] = "RUNNING"
          /\ \A s \in Steps : s # c.step => stepState'[s] = stepState[s]
      BY <1>1, <2>1 DEF CommitClaim, KernelInv, TypeOK
    <2> QED
      BY <2>1, <2>2 DEF Follows
  <1>2. ASSUME UNCHANGED stepState
        PROVE  \A s \in Steps : Follows(s)
    BY <1>2 DEF Follows
  <1>3. CASE ~ \E c \in claiming : CommitClaim(c)
    <2>1. UNCHANGED stepState
      BY <1>3 DEF ClaimNext, BeginClaim, RollbackClaim, RegisterWorker, DrainWorker, stepVars
    <2> QED
      BY <1>2, <2>1
  <1> QED
    BY <1>1, <1>3

\* Whoever writes a step's state, through assertStepTransition or in SQL, keeps
\* to STEP_TRANSITIONS, but for the reconciler that settles the step's effect.
THEOREM StepsKeepTheContract == Spec => StepsFollowContract
  <1>1. ASSUME KernelInv, [Next]_vars
        PROVE  \A s \in Steps : Follows(s)
    <2>1. CASE UNCHANGED vars
      BY <2>1 DEF vars, stepVars, Follows
    <2>2. CASE InverseNext
      BY <2>2 DEF InverseNext, ClaimInverse, SettleInverse, RetireInverse, stepVars, Follows
    <2> QED
      BY <1>1, <2>1, <2>2, WorkerFollows, ClaimFollows, DaemonFollows, OperatorFollows DEF Next
  <1>2. KernelInv /\ [Next]_vars =>
           [\A s \in Steps : stepState'[s] # stepState[s] =>
               \/ StepTransition(stepState[s], stepState'[s])
               \/ effect[s] = "COMPLETION_UNKNOWN" /\ effect'[s] # effect[s]]_vars
    BY <1>1 DEF Follows
  <1> QED
    BY <1>2, KernelInvariant, PTL DEF Spec, StepsFollowContract

-----------------------------------------------------------------------------
(* The usage counter.                                                      *)

\* releaseTenantSlot takes one off the counter per step that stops running,
\* and stops at zero: the counter falls below the number of RUNNING steps only
\* by what was released for compensation steps.
LEMMA SlotAccounting ==
    ASSUME KernelInv, TenantWithinLimit, [Next]_vars
    PROVE  TenantWithinLimit'
  <1> USE DEF TenantWithinLimit
  <1>0. IsFiniteSet(Running) /\ Cardinality(Running) \in Nat /\ usage \in Nat /\ undue \in Nat
    BY FiniteAssumption, FS_Subset, FS_CardinalityType DEF Running, KernelInv, TypeOK
  <1>1. CASE Moves
    <2>1. Running' \subseteq Running
      BY <1>1 DEF Moves, Running
    <2>2. Cardinality(Running') \in Nat /\ Cardinality(Running') <= Cardinality(Running)
      BY <1>0, <2>1, FS_Subset, FS_CardinalityType
    <2> QED
      BY <1>0, <1>1, <2>2 DEF Moves
  <1>2. CASE \E M \in SUBSET Steps : Retires(M)
    <2>1. PICK M \in SUBSET Steps : Retires(M)
      BY <1>2
    <2> DEFINE R == {s \in M : stepState[s] = "RUNNING"}
    <2>2. Running' = Running \ R
      BY <2>1 DEF Retires, Running
    <2>3. R \subseteq Running /\ Running \cap R = R
      BY DEF Running
    <2>4. IsFiniteSet(R) /\ Cardinality(R) \in Nat /\ Cardinality(R) <= Cardinality(Running)
      BY <1>0, <2>3, FS_Subset, FS_CardinalityType
    <2>5. Cardinality(Running') = Cardinality(Running) - Cardinality(R)
      BY <1>0, <2>2, <2>3, FS_Difference
    <2>6. PICK k \in Nat : ReleaseSlots(Cardinality(R) + k) /\ undue' = undue + k
      BY <2>1 DEF Retires, Releases
    <2> HIDE DEF R
    <2>7. usage' = IF usage > Cardinality(R) + k THEN usage - (Cardinality(R) + k) ELSE 0
      BY <2>6 DEF ReleaseSlots
    <2>8. Cardinality(Running') <= usage' + undue'
      BY <1>0, <2>4, <2>5, <2>6, <2>7
    <2>9. usage' <= Limit
      BY <1>0, <2>4, <2>6, <2>7, BoundAssumption
    <2> QED
      BY <2>8, <2>9
  <1>3. CASE \E c \in claiming : CommitClaim(c)
    <2>1. PICK c \in claiming : CommitClaim(c)
      BY <1>3
    <2>2. c.step \in Steps /\ c.step \notin Running /\ usage < Limit
      BY DEF KernelInv, TypeOK, ClaimStillValid, Running
    <2>3. usage' = usage + 1 /\ undue' = undue /\ Running' = Running \cup {c.step}
      BY <2>1, <2>2 DEF CommitClaim, Running, KernelInv, TypeOK, otherVars
    <2>4. Cardinality(Running') = Cardinality(Running) + 1
      BY <1>0, <2>2, <2>3, FS_AddElement
    <2> QED
      BY <1>0, <2>2, <2>3, <2>4, BoundAssumption
  <1> QED
    BY <1>1, <1>2, <1>3, StepFrame

\* The tenant runs more steps than its limit allows only by the slots that
\* were released for compensation steps, which never took one.
THEOREM TenantStaysWithinLimit == Spec => []TenantWithinLimit
  <1>1. Init => TenantWithinLimit
    <2> SUFFICES ASSUME Init PROVE TenantWithinLimit
      OBVIOUS
    <2>1. Running = {}
      BY DEF Init, Running
    <2> QED
      BY <2>1, FS_EmptySet, BoundAssumption DEF Init, TenantWithinLimit
  <1> QED
    BY <1>1, KernelInvariant, SlotAccounting, PTL DEF Spec

-----------------------------------------------------------------------------
(* The parts of the invariant.                                             *)

\* The variables keep their types; in particular the counters never pass
\* their bounds and a lease never outlives its TTL.
THEOREM TypeCorrect == Spec => []TypeOK
  <1>1. KernelInv => TypeOK
    BY DEF KernelInv
  <1> QED
    BY <1>1, KernelInvariant, PTL

\* Whoever takes a step from its worker parks the step's admitted effect.
THEOREM EffectsAreNotOrphaned == Spec => []NoOrphanAdmission
  <1>1. KernelInv => NoOrphanAdmission
    BY DEF KernelInv
  <1> QED
    BY <1>1, KernelInvariant, PTL

\* A step runs under the lease of its latest claim and no other.
THEOREM LeasesAreFenced == Spec => []RunningUnderLatestClaim
  <1>1. KernelInv => RunningUnderLatestClaim
    BY DEF KernelInv
  <1> QED
    BY <1>1, KernelInvariant, PTL

\* What the claim has read still holds when it commits.
THEOREM ClaimsStayValid == Spec => []ClaimStillValid
  <1>1. KernelInv => ClaimStillValid
    BY DEF KernelInv
  <1> QED
    BY <1>1, KernelInvariant, PTL

\* A step that waits for reconciliation can be reconciled, unless its effect
\* was settled while the reclaim that sent it there was in flight.
THEOREM WaitingStepsCanBeReconciled == Spec => []ReconciliationHasWork
  <1>1. KernelInv => ReconciliationHasWork
    <2> SUFFICES ASSUME KernelInv, NEW s \in Steps,
                        stepState[s] = "WAITING_FOR_RECONCILIATION",
                        effect[s] = "COMPLETION_UNKNOWN"
                 PROVE  Reconcilable(s)
      BY DEF KernelInv, WaitsForItsEffect, ReconciliationHasWork
    <2>1. ~Claimed(s) /\ ~Decided(s)
      BY DEF KernelInv, ClaimStillValid, DecisionStands, Claimed
    <2>2. runState[RunOf[s]] \notin RunTerminal
      BY DEF KernelInv, ClosedRunIsQuiet
    <2> QED
      BY <2>1, <2>2 DEF Reconcilable
  <1> QED
    BY <1>1, KernelInvariant, PTL

\* Closed runs have no open step.
THEOREM ClosedRunsAreQuiet == Spec => []ClosedRunIsQuiet
  <1>1. KernelInv => ClosedRunIsQuiet
    BY DEF KernelInv
  <1> QED
    BY <1>1, KernelInvariant, PTL

\* A run ends with the receipts of its consequential effects.
THEOREM TerminalRunsHaveEvidence == Spec => []TerminalRunHasEvidence
  <1>1. KernelInv => TerminalRunHasEvidence
    BY DEF KernelInv
  <1> QED
    BY <1>1, KernelInvariant, PTL

\* A run succeeds with all its steps.
THEOREM SucceededRunsAreDone == Spec => []SucceededRunIsDone
  <1>1. KernelInv => SucceededRunIsDone
    BY DEF KernelInv
  <1> QED
    BY <1>1, KernelInvariant, PTL

\* A paused tenant runs none of its steps but those that undo an effect.
THEOREM PausedTenantsAreIdle == Spec => []PausedTenantIsIdle
  <1>1. KernelInv => PausedTenantIsIdle
    BY DEF KernelInv
  <1> QED
    BY <1>1, KernelInvariant, PTL

\* A paused run has one step at most that runs or is about to, the one whose
\* claim the pause did not see.
THEOREM PausedRunsStop == Spec => []PausedRunStops
  <1>1. KernelInv => PausedRunStops
    BY DEF KernelInv
  <1> QED
    BY <1>1, KernelInvariant, PTL

\* Steps start in the order of their dependencies.
THEOREM StepsRunInOrder == Spec => []RunsInOrder
  <1>1. KernelInv => RunsInOrder
    BY DEF KernelInv
  <1> QED
    BY <1>1, KernelInvariant, PTL
=============================================================================
