---------------------------- MODULE BrokerProofs ----------------------------
(***************************************************************************)
(* At-most-once execution and the truth of the effect ledger, for all      *)
(* runs, steps, workers and bounds.                                        *)
(*                                                                         *)
(* Every step of the broker is a step of the kernel or leaves its rows     *)
(* alone, so the kernel's invariant carries over.  An effect never goes    *)
(* back to NONE, and only the kernel transaction that takes it from NONE   *)
(* lets a call go on to send: OneAdmission says that the call which may    *)
(* still send is alone and nothing was sent before it, OneRequest that all *)
(* traces of a request of a step are those of one lease and of one fate.   *)
(***************************************************************************)
EXTENDS EffectBroker, KernelProofs

\* The call that may still send.
OneAdmission ==
    /\ \A c \in calls : c.phase = "admitted" =>
          /\ sends[c.lease.step] = 0
          /\ effect[c.lease.step] # "NONE"
    /\ \A c, d \in calls :
          c.phase = "admitted" /\ d.phase = "admitted" /\ c.lease.step = d.lease.step => c = d
    /\ \A s \in Steps : effect[s] = "NONE" => sends[s] = 0

\* The leases whose request was sent and is not lost.
Traces == wire \cup applied \cup refused

\* The request that was sent.
OneRequest ==
    /\ \A l \in Traces : sends[l.step] = 1
    /\ \A l, k \in Traces : l.step = k.step => l = k
    /\ wire \cap applied = {}
    /\ wire \cap refused = {}
    /\ applied \cap refused = {}

\* What the ledger and the reconciler say has been seen.
SaysWhatWasSeen ==
    \A s \in Steps :
        /\ asked[s] = "APPLIED" => AppliedTo(s) # {}
        /\ effect[s] = "COMPLETED" => AppliedTo(s) # {}
        /\ effect[s] = "FAILED" => \E l \in refused : l.step = s

\* The inductive invariant of the broker.
BrokerInv ==
    KernelInv /\ BrokerTypeOK /\ OneAdmission /\ AtMostOnce /\ OneRequest /\ SaysWhatWasSeen

-----------------------------------------------------------------------------
\* A lease is of a step.
LEMMA LeaseOfStep == \A l \in Lease : l.step \in Steps
  BY DEF Lease

\* Before anything is claimed the invariant holds.
LEMMA BrokerInitInv == BrokerInit => BrokerInv
  <1> SUFFICES ASSUME BrokerInit PROVE BrokerInv
    OBVIOUS
  <1>1. KernelInv /\ TypeOK
    BY InitInv DEF BrokerInit, KernelInv
  <1>2. BrokerTypeOK
    BY <1>1 DEF BrokerInit, BrokerTypeOK
  <1>3. OneAdmission /\ AtMostOnce /\ OneRequest
    BY DEF BrokerInit, OneAdmission, AtMostOnce, OneRequest, Traces
  <1>4. SaysWhatWasSeen
    BY DEF BrokerInit, Init, SaysWhatWasSeen
  <1> QED
    BY <1>1, <1>2, <1>3, <1>4 DEF BrokerInv

\* What the kernel does beside the broker and the reconciler.
LEMMA KernelNextIsNext == KernelNext => Next /\ UNCHANGED brokerVars
  <1> SUFFICES ASSUME KernelNext PROVE Next /\ UNCHANGED brokerVars
    OBVIOUS
  <1>1. StepNext => WorkerNext
    BY DEF StepNext, WorkerNext
  <1>2. KernelDaemonNext => DaemonNext
    BY DEF KernelDaemonNext, DaemonNext
  <1> QED
    BY <1>1, <1>2 DEF KernelNext, Next

\* ... leaves the effects as they are, or parks admitted ones.
EffectsParked ==
    \A s \in Steps : \/ effect'[s] = effect[s]
                     \/ effect[s] = "ADMITTED" /\ effect'[s] = "COMPLETION_UNKNOWN"

\* Parking moves admitted effects only.
LEMMA ParkIsParked ==
    ASSUME NEW S, Park(S)
    PROVE  EffectsParked
  BY DEF Park, EffectsParked

\* The same for the transactions that move steps and those that end them.
LEMMA MovesArePark ==
    /\ \A M, st : MoveSteps(M, st) => EffectsParked
    /\ \A r, M, st, failed : EndSteps(r, M, st, failed) => EffectsParked
  BY ParkIsParked DEF MoveSteps, EndSteps

\* No transaction of the kernel but those of the broker and the reconciler
\* settles an effect or takes an admission back.
LEMMA KernelNextParks ==
    ASSUME KernelNext
    PROVE  EffectsParked
  <1>0. effect' = effect => EffectsParked
    BY DEF EffectsParked
  <1> USE DEF effectVars
  <1>1. ASSUME NEW l \in issued, HeartbeatStep(l) \/ CompleteStep(l)
        PROVE  EffectsParked
    BY <1>0, <1>1, MovesArePark DEF HeartbeatStep, CompleteStep
  <1>2. ASSUME NEW l \in issued, NEW a \in BOOLEAN, NEW b \in BOOLEAN, FailStep(l, a, b)
        PROVE  EffectsParked
    BY <1>2, MovesArePark DEF FailStep
  <1>3. ASSUME ClaimNext
        PROVE  effect' = effect
    BY <1>3 DEF ClaimNext, BeginClaim, CommitClaim, RollbackClaim, RegisterWorker, DrainWorker
  <1>4. ASSUME NEW r \in Runs, NEW batch \in SUBSET StepsOf(r), CommitReclaim(r, batch)
        PROVE  EffectsParked
    BY <1>4, MovesArePark DEF CommitReclaim
  <1>5. ASSUME NEW s \in Steps, \/ BeginReclaim(s) \/ RollbackReclaim(s)
                                \/ Elapse(s) \/ WakeRetryStep(s) \/ AppendEvidence(s)
        PROVE  effect' = effect
    BY <1>5 DEF BeginReclaim, RollbackReclaim, Elapse, WakeRetryStep, AppendEvidence
  <1>6. ASSUME NEW s \in Steps, FailStepByTimer(s)
        PROVE  EffectsParked
    BY <1>6, MovesArePark DEF FailStepByTimer
  <1>7. ASSUME NEW r \in Runs, SettleCompensation(r) \/ ResumeRun(r)
        PROVE  effect' = effect
    BY <1>7 DEF SettleCompensation, ResumeRun
  <1>8. ASSUME NEW r \in Runs, PauseRun(r) \/ CancelRun(r)
        PROVE  EffectsParked
    BY <1>8, ParkIsParked DEF PauseRun, CancelRun
  <1>9. CASE PauseTenant
    BY <1>9, ParkIsParked DEF PauseTenant
  <1>10. ASSUME ResumeTenant \/ \E s \in Steps : AnswerInteraction(s)
         PROVE  effect' = effect
    BY <1>10 DEF ResumeTenant, AnswerInteraction
  <1>11. ASSUME InverseNext
         PROVE  effect' = effect
    BY <1>11 DEF InverseNext, ClaimInverse, SettleInverse, RetireInverse
  <1> QED
    BY <1>0, <1>1, <1>2, <1>3, <1>4, <1>5, <1>6, <1>7, <1>8, <1>9, <1>10, <1>11
    DEF KernelNext, StepNext, KernelDaemonNext, OperatorNext

-----------------------------------------------------------------------------
\* No call joins those that may send.
NobodyJoins ==
    /\ calls' \subseteq [lease : Lease, phase : Phases]
    /\ \A c \in calls' : c.phase = "admitted" => c \in calls

\* A settled effect was seen to be so.
SettledAsSeen ==
    \A s \in Steps :
        /\ effect'[s] = "NONE" <=> effect[s] = "NONE"
        /\ effect'[s] = "COMPLETED" => effect[s] = "COMPLETED" \/ AppliedTo(s) # {}
        /\ effect'[s] = "FAILED" => effect[s] = "FAILED" \/ \E l \in refused : l.step = s

AnswersAsSeen ==
    /\ asked' \in [Steps -> {"none", "APPLIED", "NOT_APPLIED"}]
    /\ \A s \in Steps : asked'[s] = "APPLIED" => AppliedTo(s) # {}

\* A step that neither admits nor sends, and says only what was seen.
LEMMA FrameInv ==
    ASSUME BrokerInv, KernelInv', NobodyJoins, SettledAsSeen, AnswersAsSeen,
           UNCHANGED <<sends, wire, applied, refused>>, killed' \in BOOLEAN
    PROVE  BrokerInv'
  <1> USE DEF BrokerInv
  <1>1. BrokerTypeOK'
    BY DEF BrokerTypeOK, KernelInv, NobodyJoins, AnswersAsSeen
  <1>2. OneAdmission'
    <2>1. \A c \in calls' : c.lease.step \in Steps
      BY LeaseOfStep DEF NobodyJoins
    <2> QED
      BY <2>1 DEF OneAdmission, NobodyJoins, SettledAsSeen
  <1>3. AtMostOnce' /\ OneRequest'
    BY DEF AtMostOnce, OneRequest, Traces
  <1>4. SaysWhatWasSeen'
    <2>1. \A s \in Steps : AppliedTo(s)' = AppliedTo(s)
      BY DEF AppliedTo
    <2> QED
      BY <2>1 DEF SaysWhatWasSeen, SettledAsSeen, AnswersAsSeen
  <1> QED
    BY <1>1, <1>2, <1>3, <1>4

\* Ending a call, or taking it to any phase but admitted, lets nobody join.
LEMMA CallsMoveOn ==
    ASSUME BrokerTypeOK, NEW l \in Lease,
           Finish(l) \/ \E phase \in Phases \ {"admitted"} : GoTo(l, phase)
    PROVE  NobodyJoins
  BY DEF BrokerTypeOK, NobodyJoins, Finish, GoTo, Phases

\* Parking settles nothing.
LEMMA ParkedAsSeen ==
    ASSUME EffectsParked
    PROVE  SettledAsSeen
  BY DEF EffectsParked, SettledAsSeen

\* What stays as it is.
LEMMA BrokerUntouched ==
    ASSUME BrokerInv
    PROVE  /\ UNCHANGED calls => NobodyJoins
           /\ UNCHANGED effect => SettledAsSeen
           /\ UNCHANGED asked => AnswersAsSeen
           /\ UNCHANGED killed => killed' \in BOOLEAN
           /\ issued \subseteq Lease
           /\ UNCHANGED vars => KernelInv'
  <1>1. UNCHANGED calls => NobodyJoins
    BY DEF BrokerInv, BrokerTypeOK, NobodyJoins
  <1>2. UNCHANGED effect => SettledAsSeen
    BY DEF SettledAsSeen
  <1>3. UNCHANGED asked => AnswersAsSeen
    BY DEF BrokerInv, BrokerTypeOK, SaysWhatWasSeen, AnswersAsSeen
  <1>4. UNCHANGED killed => killed' \in BOOLEAN
    BY DEF BrokerInv, BrokerTypeOK
  <1>5. issued \subseteq Lease
    BY DEF BrokerInv, KernelInv, TypeOK
  <1>6. UNCHANGED vars => KernelInv'
    BY NextInv DEF BrokerInv
  <1> QED
    BY <1>1, <1>2, <1>3, <1>4, <1>5, <1>6

\* The kernel on its own.
LEMMA KernelNextInv ==
    ASSUME BrokerInv, KernelNext
    PROVE  BrokerInv'
  <1>1. KernelInv'
    BY KernelNextIsNext, NextInv DEF BrokerInv
  <1>2. SettledAsSeen
    BY KernelNextParks, ParkedAsSeen
  <1>3. UNCHANGED <<calls, sends, wire, applied, refused, asked, killed>>
    BY KernelNextIsNext DEF brokerVars
  <1> QED
    BY <1>1, <1>2, <1>3, FrameInv, BrokerUntouched

-----------------------------------------------------------------------------
(* The calls.                                                              *)

\* A call is allowed, is abandoned or times out: nothing else changes.
LEMMA CallStaysLocal ==
    ASSUME BrokerInv, NEW l \in issued,
           CheckPolicy(l) \/ ExecutorTimedOut(l) \/ AbandonCall(l)
    PROVE  BrokerInv'
  <1>1. /\ UNCHANGED <<vars, sends, wire, applied, refused, asked, killed>>
        /\ Finish(l) \/ \E phase \in Phases \ {"admitted"} : GoTo(l, phase)
    BY DEF CheckPolicy, ExecutorTimedOut, AbandonCall, Phases
  <1>2. NobodyJoins
    BY <1>1, BrokerUntouched, CallsMoveOn DEF BrokerInv
  <1>3. UNCHANGED effect
    BY <1>1 DEF vars, effectVars
  <1> QED
    BY <1>1, <1>2, <1>3, FrameInv, BrokerUntouched

\* A park that the kernel accepts moves the effect to COMPLETION_UNKNOWN.
LEMMA ParkCallInv ==
    ASSUME BrokerInv, NEW l \in issued, ParkUnfinishedAdmission(l)
    PROVE  BrokerInv'
  <1>1. NobodyJoins
    BY BrokerUntouched, CallsMoveOn DEF BrokerInv, ParkUnfinishedAdmission
  <1>2. UNCHANGED <<sends, wire, applied, refused, asked, killed>>
    BY DEF ParkUnfinishedAdmission
  <1>3. KernelInv' /\ SettledAsSeen
    <2>1. CASE UNCHANGED vars
      BY <2>1, BrokerUntouched DEF vars, effectVars
    <2>2. CASE MarkEffectCompletionUnknown(l)
      <3>1. KernelInv'
        BY <2>2, NextInv DEF BrokerInv, Next, WorkerNext
      <3>2. EffectsParked
        BY <2>2, MovesArePark DEF MarkEffectCompletionUnknown, HandToReconciler
      <3> QED
        BY <3>1, <3>2, ParkedAsSeen
    <2> QED
      BY <2>1, <2>2 DEF ParkUnfinishedAdmission
  <1> QED
    BY <1>1, <1>2, <1>3, FrameInv, BrokerUntouched

\* The answer is recorded: applied as COMPLETED, refused as FAILED.
LEMMA AnswerInv ==
    ASSUME BrokerInv, NEW l \in issued, ExecutorReturned(l) \/ ExecutorRefused(l)
    PROVE  BrokerInv'
  <1>0. l \in Lease /\ l.step \in Steps
    BY BrokerUntouched, LeaseOfStep
  <1>1. /\ UNCHANGED <<sends, wire, applied, refused, asked, killed>>
        /\ Finish(l) \/ \E phase \in Phases \ {"admitted"} : GoTo(l, phase)
    BY DEF ExecutorReturned, ExecutorRefused, Phases
  <1>2. NobodyJoins
    BY <1>0, <1>1, CallsMoveOn DEF BrokerInv
  <1>3. KernelInv' /\ SettledAsSeen
    <2>1. CASE UNCHANGED vars
      BY <2>1, BrokerUntouched DEF vars, effectVars
    <2>2. ASSUME NEW evidence \in BOOLEAN, CompleteEffect(l, evidence), l \in applied
          PROVE  KernelInv' /\ SettledAsSeen
      <3>1. KernelInv'
        BY <2>2, NextInv DEF BrokerInv, Next, WorkerNext
      <3>2. AppliedTo(l.step) # {}
        BY <2>2 DEF AppliedTo
      <3>3. effect[l.step] = "ADMITTED" /\ effect' = [effect EXCEPT ![l.step] = "COMPLETED"]
        BY <2>2 DEF CompleteEffect
      <3>4. SettledAsSeen
        BY <1>0, <3>2, <3>3 DEF SettledAsSeen, BrokerInv, KernelInv, TypeOK
      <3> QED
        BY <3>1, <3>4
    <2>3. ASSUME NEW evidence \in BOOLEAN, FailEffect(l, evidence), l \in refused
          PROVE  KernelInv' /\ SettledAsSeen
      <3>1. KernelInv'
        BY <2>3, NextInv DEF BrokerInv, Next, WorkerNext
      <3>3. effect[l.step] = "ADMITTED" /\ effect' = [effect EXCEPT ![l.step] = "FAILED"]
        BY <2>3 DEF FailEffect
      <3>4. SettledAsSeen
        BY <1>0, <2>3, <3>3 DEF SettledAsSeen, BrokerInv, KernelInv, TypeOK
      <3> QED
        BY <3>1, <3>4
    <2> QED
      BY <2>1, <2>2, <2>3 DEF ExecutorReturned, ExecutorRefused
  <1> QED
    BY <1>1, <1>2, <1>3, FrameInv, BrokerUntouched

\* Only the transaction that takes the effect from NONE lets a call go on.
LEMMA AdmitInv ==
    ASSUME BrokerInv, NEW l \in issued, BrokerAdmit(l)
    PROVE  BrokerInv'
  <1>0. l \in Lease /\ l.step \in Steps
    BY BrokerUntouched, LeaseOfStep
  <1>1. UNCHANGED <<sends, wire, applied, refused, asked, killed>>
    BY DEF BrokerAdmit
  <1>2. CASE /\ UNCHANGED vars
             /\ Finish(l) \/ \E phase \in Phases \ {"admitted"} : GoTo(l, phase)
    <2>1. NobodyJoins
      BY <1>0, <1>2, CallsMoveOn DEF BrokerInv
    <2>2. UNCHANGED effect
      BY <1>2 DEF vars, effectVars
    <2> QED
      BY <1>1, <1>2, <2>1, <2>2, FrameInv, BrokerUntouched
  <1>3. CASE AdmitEffect(l) /\ GoTo(l, "admitted")
    <2> USE DEF BrokerInv
    <2>1. KernelInv'
      BY <1>3, NextInv DEF Next, WorkerNext
    <2>2. effect[l.step] = "NONE" /\ effect' = [effect EXCEPT ![l.step] = "ADMITTED"]
      BY <1>3 DEF AdmitEffect
    <2>3. \A s \in Steps : effect'[s] = IF s = l.step THEN "ADMITTED" ELSE effect[s]
      BY <2>2 DEF KernelInv, TypeOK
    <2> DEFINE new == [lease |-> l, phase |-> "admitted"]
    <2>4. /\ new.lease = l /\ new.phase = "admitted"
          /\ new \in [lease : Lease, phase : Phases]
          /\ calls' \subseteq calls \cup {new}
      BY <1>0, <1>3 DEF GoTo, Phases
    <2> HIDE DEF new
    <2>5. sends[l.step] = 0
      BY <1>0, <2>2 DEF OneAdmission
    <2>6. \A c \in calls : c.phase = "admitted" => c.lease.step # l.step
      BY <2>2 DEF OneAdmission
    <2>7. BrokerTypeOK'
      BY <1>1, <2>1, <2>4 DEF BrokerTypeOK, KernelInv
    <2>8. OneAdmission'
      <3>0. \A c \in calls' : c.lease.step \in Steps
        BY <2>7, LeaseOfStep DEF BrokerTypeOK
      <3>1. ASSUME NEW c \in calls', c.phase = "admitted"
            PROVE  sends'[c.lease.step] = 0 /\ effect'[c.lease.step] # "NONE"
        BY <1>1, <2>3, <2>4, <2>5, <3>0, <3>1 DEF OneAdmission
      <3>2. ASSUME NEW c \in calls', NEW d \in calls', c.phase = "admitted", d.phase = "admitted",
                   c.lease.step = d.lease.step
            PROVE  c = d
        BY <2>4, <2>6, <3>2 DEF OneAdmission
      <3>3. \A s \in Steps : effect'[s] = "NONE" => sends'[s] = 0
        BY <1>1, <2>3 DEF OneAdmission
      <3> QED
        BY <3>1, <3>2, <3>3 DEF OneAdmission
    <2>9. AtMostOnce' /\ OneRequest'
      BY <1>1 DEF AtMostOnce, OneRequest, Traces
    <2>10. SaysWhatWasSeen'
      <3>1. \A s \in Steps : AppliedTo(s)' = AppliedTo(s)
        BY <1>1 DEF AppliedTo
      <3> QED
        BY <1>1, <2>3, <3>1 DEF SaysWhatWasSeen
    <2> QED
      BY <2>1, <2>7, <2>8, <2>9, <2>10
  <1> QED
    BY <1>2, <1>3 DEF BrokerAdmit, Phases

\* The request leaves: the first and only one of its step.
LEMMA SendInv ==
    ASSUME BrokerInv, NEW l \in issued, Send(l)
    PROVE  BrokerInv'
  <1> USE DEF BrokerInv
  <1>0. l \in Lease /\ l.step \in Steps
    BY BrokerUntouched, LeaseOfStep
  <1>1. /\ UNCHANGED <<vars, applied, refused, asked, killed>>
        /\ wire' = wire \cup {l}
        /\ sends' = [sends EXCEPT ![l.step] = @ + 1]
    BY DEF Send
  <1>2. KernelInv' /\ effect' = effect
    BY <1>1, BrokerUntouched DEF vars, effectVars
  <1> DEFINE old == [lease |-> l, phase |-> "admitted"]
  <1>3. old \in calls /\ old.lease = l /\ old.phase = "admitted"
    BY DEF Send, At
  <1>4. NobodyJoins /\ \A c \in calls' : c.phase = "admitted" => c.lease # l
    <2>1. \A c \in calls' : c.phase = "admitted" => c \in calls /\ c.lease # l
      BY DEF Send, GoTo
    <2>2. NobodyJoins
      BY <1>0, CallsMoveOn DEF Send, Phases
    <2> QED
      BY <2>1, <2>2
  <1> HIDE DEF old
  <1>5. sends[l.step] = 0 /\ effect[l.step] # "NONE"
    BY <1>3 DEF OneAdmission
  <1>6. sends \in [Steps -> Nat] /\ \A s \in Steps : sends'[s] = IF s = l.step THEN 1 ELSE sends[s]
    BY <1>0, <1>1, <1>5 DEF BrokerTypeOK
  <1>7. BrokerTypeOK'
    <2>1. sends' \in [Steps -> Nat]
      BY <1>0, <1>1, <1>6
    <2> QED
      BY <1>0, <1>1, <1>2, <1>4, <2>1 DEF BrokerTypeOK, KernelInv, NobodyJoins
  <1>8. OneAdmission'
    <2>1. ASSUME NEW c \in calls', c.phase = "admitted"
          PROVE  c \in calls /\ c.lease.step \in Steps /\ c.lease.step # l.step
      <3>1. c \in calls /\ c.lease # l /\ c.lease.step \in Steps
        BY <1>4, <2>1, LeaseOfStep DEF NobodyJoins
      <3> QED
        BY <1>3, <2>1, <3>1 DEF OneAdmission
    <2> QED
      BY <1>2, <1>5, <1>6, <2>1 DEF OneAdmission
  <1>9. AtMostOnce'
    BY <1>6 DEF AtMostOnce
  <1>10. OneRequest'
    <2>1. \A k \in Traces : k.step # l.step /\ k.step \in Steps
      BY <1>5, LeaseOfStep DEF OneRequest, BrokerTypeOK, Traces
    <2>2. Traces' = Traces \cup {l}
      BY <1>1 DEF Traces
    <2>3. l \notin Traces
      BY <2>1
    <2>4. \A k \in Traces' : sends'[k.step] = 1
      BY <1>0, <1>6, <2>1, <2>2 DEF OneRequest
    <2>5. \A k, j \in Traces' : k.step = j.step => k = j
      BY <2>1, <2>2 DEF OneRequest
    <2>6. wire' \cap applied' = {} /\ wire' \cap refused' = {} /\ applied' \cap refused' = {}
      BY <1>1, <2>3 DEF OneRequest, Traces
    <2> QED
      BY <2>4, <2>5, <2>6 DEF OneRequest
  <1>11. SaysWhatWasSeen'
    <2>1. \A s \in Steps : AppliedTo(s)' = AppliedTo(s)
      BY <1>1 DEF AppliedTo
    <2> QED
      BY <1>1, <1>2, <2>1 DEF SaysWhatWasSeen
  <1> QED
    BY <1>2, <1>7, <1>8, <1>9, <1>10, <1>11

-----------------------------------------------------------------------------
\* The fate of a request on the wire.
LEMMA RemoteInv ==
    ASSUME BrokerInv, NEW l \in issued, RemoteNext(l)
    PROVE  BrokerInv'
  <1> USE DEF BrokerInv
  <1>0. l \in Lease
    BY BrokerUntouched
  <1>1. /\ UNCHANGED <<vars, sends, calls, asked, killed>>
        /\ l \in wire /\ wire' = wire \ {l}
        /\ \/ applied' = applied \cup {l} /\ refused' = refused
           \/ refused' = refused \cup {l} /\ applied' = applied
           \/ applied' = applied /\ refused' = refused
    BY DEF RemoteNext, RemoteApply, RemoteRefuse, LoseRequest
  <1>2. KernelInv' /\ effect' = effect
    BY <1>1, BrokerUntouched DEF vars, effectVars
  <1>3. BrokerTypeOK'
    BY <1>0, <1>1, <1>2 DEF BrokerTypeOK, KernelInv
  <1>4. OneAdmission' /\ AtMostOnce'
    BY <1>1, <1>2 DEF OneAdmission, AtMostOnce
  <1>5. OneRequest'
    <2>1. Traces' \subseteq Traces
      BY <1>1 DEF Traces
    <2>2. l \notin applied /\ l \notin refused
      BY <1>1 DEF OneRequest
    <2>3. wire' \cap applied' = {} /\ wire' \cap refused' = {} /\ applied' \cap refused' = {}
      BY <1>1, <2>2 DEF OneRequest
    <2>4. \A k \in Traces' : sends'[k.step] = 1
      BY <1>1, <2>1 DEF OneRequest
    <2>5. \A k, j \in Traces' : k.step = j.step => k = j
      BY <2>1 DEF OneRequest
    <2> QED
      BY <2>3, <2>4, <2>5 DEF OneRequest
  <1>6. SaysWhatWasSeen'
    <2>1. \A s \in Steps : AppliedTo(s) \subseteq AppliedTo(s)'
      BY <1>1 DEF AppliedTo
    <2>2. refused \subseteq refused'
      BY <1>1
    <2> QED
      BY <1>1, <1>2, <2>1, <2>2 DEF SaysWhatWasSeen
  <1> QED
    BY <1>2, <1>3, <1>4, <1>5, <1>6

\* The reconciler settles an effect with the answer it holds.
LEMMA ReconcilerInv ==
    ASSUME BrokerInv, NEW s \in Steps, ReconcilerNext(s)
    PROVE  BrokerInv'
  <1>0. /\ asked \in [Steps -> {"none", "APPLIED", "NOT_APPLIED"}]
        /\ \A x \in Steps : asked[x] = "APPLIED" => AppliedTo(x) # {}
        /\ effect \in [Steps -> EffectStates]
    BY DEF BrokerInv, BrokerTypeOK, SaysWhatWasSeen, KernelInv, TypeOK
  <1>1. UNCHANGED <<sends, calls, wire, applied, refused, killed>>
    BY DEF ReconcilerNext, QueryOutcome, SettleByAnswer, DropAnswer, EscalateUnknown
  <1>2. AnswersAsSeen
    BY <1>0 DEF ReconcilerNext, QueryOutcome, SettleByAnswer, DropAnswer, EscalateUnknown, AnswersAsSeen
  <1>3. KernelInv' /\ SettledAsSeen
    <2>1. CASE UNCHANGED vars
      BY <2>1, BrokerUntouched DEF vars, effectVars
    <2>2. CASE CompleteReconciledEffect(s) /\ asked[s] = "APPLIED"
      <3>1. KernelInv'
        BY <2>2, NextInv DEF BrokerInv, Next, DaemonNext
      <3>2. effect[s] = "COMPLETION_UNKNOWN" /\ effect' = [effect EXCEPT ![s] = "COMPLETED"]
        BY <2>2 DEF CompleteReconciledEffect, Reconcile, Reconcilable
      <3>3. SettledAsSeen
        BY <1>0, <2>2, <3>2 DEF SettledAsSeen
      <3> QED
        BY <3>1, <3>3
    <2>3. CASE ConfirmNotApplied(s)
      <3>1. KernelInv'
        BY <2>3, NextInv DEF BrokerInv, Next, DaemonNext
      <3>2. effect[s] = "COMPLETION_UNKNOWN" /\ effect' = [effect EXCEPT ![s] = "CONFIRMED_NOT_APPLIED"]
        BY <2>3 DEF ConfirmNotApplied, Reconcile, Reconcilable
      <3>3. SettledAsSeen
        BY <1>0, <3>2 DEF SettledAsSeen
      <3> QED
        BY <3>1, <3>3
    <2>4. CASE EscalateReconcile(s)
      <3>1. KernelInv'
        BY <2>4, NextInv DEF BrokerInv, Next, DaemonNext
      <3>2. effect[s] = "COMPLETION_UNKNOWN" /\ effect' = [effect EXCEPT ![s] = "ESCALATED"]
        BY <2>4 DEF EscalateReconcile, Reconcile, Reconcilable
      <3>3. SettledAsSeen
        BY <1>0, <3>2 DEF SettledAsSeen
      <3> QED
        BY <3>1, <3>3
    <2> QED
      BY <2>1, <2>2, <2>3, <2>4
      DEF ReconcilerNext, QueryOutcome, SettleByAnswer, DropAnswer, EscalateUnknown
  <1> QED
    BY <1>1, <1>2, <1>3, FrameInv, BrokerUntouched

-----------------------------------------------------------------------------
\* Every step preserves the invariant.
LEMMA BrokerNextInv ==
    ASSUME BrokerInv, [BrokerNext]_allVars
    PROVE  BrokerInv'
  <1>1. ASSUME NEW l \in issued, CallNext(l)
        PROVE  BrokerInv'
    BY <1>1, CallStaysLocal, ParkCallInv, AnswerInv, AdmitInv, SendInv DEF CallNext
  <1>2. ASSUME NEW l \in issued, RemoteNext(l)
        PROVE  BrokerInv'
    BY <1>2, RemoteInv
  <1>3. ASSUME NEW s \in Steps, ReconcilerNext(s)
        PROVE  BrokerInv'
    BY <1>3, ReconcilerInv
  <1>4. CASE ThrowKillSwitch
    <2>1. UNCHANGED <<vars, sends, calls, wire, applied, refused, asked>> /\ killed' \in BOOLEAN
      BY <1>4 DEF ThrowKillSwitch
    <2>2. UNCHANGED effect
      BY <2>1 DEF vars, effectVars
    <2> QED
      BY <2>1, <2>2, FrameInv, BrokerUntouched
  <1>5. CASE KernelNext
    BY <1>5, KernelNextInv
  <1>6. CASE UNCHANGED allVars
    <2>1. UNCHANGED <<vars, calls, sends, wire, applied, refused, asked, killed>>
      BY <1>6 DEF allVars, brokerVars
    <2>2. UNCHANGED effect
      BY <2>1 DEF vars, effectVars
    <2> QED
      BY <2>1, <2>2, FrameInv, BrokerUntouched
  <1> QED
    BY <1>1, <1>2, <1>3, <1>4, <1>5, <1>6 DEF BrokerNext

(* The inductive invariant of the broker and the kernel under it holds in  *)
(* every reachable state.                                                  *)
THEOREM BrokerInvariant == BrokerSpec => []BrokerInv
  <1>1. BrokerInv /\ [BrokerNext]_allVars => BrokerInv'
    BY BrokerNextInv
  <1> QED
    BY <1>1, BrokerInitInv, PTL DEF BrokerSpec

\* Broker calls, requests and answers keep their types, and so do the
\* kernel's rows under them.
THEOREM BrokerTypeCorrect == BrokerSpec => []BrokerTypeOK
  <1>1. BrokerInv => BrokerTypeOK
    BY DEF BrokerInv
  <1> QED
    BY <1>1, BrokerInvariant, PTL

(* At most one request is ever sent for a step, whatever workers crash,    *)
(* leases are re-issued, effects are parked, reconciled and retried.       *)
THEOREM RequestsAreSentOnce == BrokerSpec => []AtMostOnce
  <1>1. BrokerInv => AtMostOnce
    BY DEF BrokerInv
  <1> QED
    BY <1>1, BrokerInvariant, PTL

(* An effect the ledger calls COMPLETED was applied by the remote system,  *)
(* and one it calls FAILED was refused and never will be.                  *)
THEOREM LedgerStaysTrue == BrokerSpec => []LedgerIsTrue
  <1>1. BrokerInv => LedgerIsTrue
    <2> SUFFICES ASSUME BrokerInv, NEW s \in Steps
                 PROVE  /\ effect[s] = "COMPLETED" => AppliedTo(s) # {}
                        /\ effect[s] = "FAILED" => AppliedTo(s) = {} /\ ~\E l \in wire : l.step = s
      BY DEF LedgerIsTrue
    <2>1. effect[s] = "COMPLETED" => AppliedTo(s) # {}
      BY DEF BrokerInv, SaysWhatWasSeen
    <2>2. ASSUME effect[s] = "FAILED"
          PROVE  AppliedTo(s) = {} /\ ~\E l \in wire : l.step = s
      <3>1. PICK l \in refused : l.step = s
        BY <2>2 DEF BrokerInv, SaysWhatWasSeen
      <3>2. \A k \in wire \cup applied : k.step # s
        BY <3>1 DEF BrokerInv, OneRequest, Traces
      <3> QED
        BY <3>2 DEF AppliedTo
    <2> QED
      BY <2>1, <2>2
  <1> QED
    BY <1>1, BrokerInvariant, PTL

-----------------------------------------------------------------------------
(* The composition implements the kernel.                                  *)

\* Each step of a call is a transaction of the worker, or none.
LEMMA CallIsKernelStep ==
    ASSUME NEW l \in issued, CallNext(l)
    PROVE  [Next]_vars
  <1>1. ASSUME CheckPolicy(l) \/ Send(l) \/ ExecutorTimedOut(l) \/ AbandonCall(l)
        PROVE  UNCHANGED vars
    BY <1>1 DEF CheckPolicy, Send, ExecutorTimedOut, AbandonCall
  <1>2. ASSUME BrokerAdmit(l)
        PROVE  AdmitEffect(l) \/ UNCHANGED vars
    BY <1>2 DEF BrokerAdmit
  <1>3. ASSUME ExecutorReturned(l) \/ ExecutorRefused(l)
        PROVE  \/ \E evidence \in BOOLEAN : CompleteEffect(l, evidence) \/ FailEffect(l, evidence)
               \/ UNCHANGED vars
    BY <1>3 DEF ExecutorReturned, ExecutorRefused
  <1>4. ASSUME ParkUnfinishedAdmission(l)
        PROVE  MarkEffectCompletionUnknown(l) \/ UNCHANGED vars
    BY <1>4 DEF ParkUnfinishedAdmission
  <1> QED
    BY <1>1, <1>2, <1>3, <1>4 DEF CallNext, Next, WorkerNext

\* An answer settles the effect through a mutation of the reconciler.
LEMMA ReconcilerIsKernelStep ==
    ASSUME NEW s \in Steps, ReconcilerNext(s)
    PROVE  [Next]_vars
  <1>1. ASSUME QueryOutcome(s) \/ DropAnswer(s)
        PROVE  UNCHANGED vars
    BY <1>1 DEF QueryOutcome, DropAnswer
  <1>2. ASSUME SettleByAnswer(s)
        PROVE  CompleteReconciledEffect(s) \/ ConfirmNotApplied(s)
    BY <1>2 DEF SettleByAnswer
  <1>3. ASSUME EscalateUnknown(s)
        PROVE  EscalateReconcile(s)
    BY <1>3 DEF EscalateUnknown
  <1> QED
    BY <1>1, <1>2, <1>3 DEF ReconcilerNext, Next, DaemonNext

\* Brokers, the remote system and the reconciler drive the kernel's rows only
\* through the kernel's transactions: the composition implements the kernel.
THEOREM BrokerImplementsKernel == BrokerSpec => Spec
  <1>1. BrokerInit => Init
    BY DEF BrokerInit
  <1>2. [BrokerNext]_allVars => [Next]_vars
    <2> SUFFICES ASSUME [BrokerNext]_allVars PROVE [Next]_vars
      OBVIOUS
    <2>1. ASSUME NEW l \in issued, RemoteNext(l)
          PROVE  UNCHANGED vars
      BY <2>1 DEF RemoteNext, RemoteApply, RemoteRefuse, LoseRequest
    <2>2. ThrowKillSwitch => UNCHANGED vars
      BY DEF ThrowKillSwitch
    <2>3. UNCHANGED allVars => UNCHANGED vars
      BY DEF allVars
    <2> QED
      BY <2>1, <2>2, <2>3, CallIsKernelStep, ReconcilerIsKernelStep, KernelNextIsNext DEF BrokerNext
  <1> QED
    BY <1>1, <1>2, PTL DEF BrokerSpec, Spec

(* With a broker in between, too, a step or run that has ended stays so,   *)
(* and every step keeps to its contract.                                   *)
THEOREM KernelPromisesHoldUnderBroker == BrokerSpec => TerminalIsFinal /\ StepsFollowContract
  BY BrokerImplementsKernel, TerminalStatesAreFinal, StepsKeepTheContract, PTL
=============================================================================
