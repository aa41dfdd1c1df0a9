---------------------------- MODULE EffectBroker ----------------------------
(***************************************************************************)
(* The effect broker of a worker between the kernel and the remote system. *)
(*                                                                         *)
(* For a lease it holds, a worker asks the policy (which looks up the kill *)
(* switch), admits the effect in the kernel, sends the request and records *)
(* the answer.  None of these steps looks at what happened since the one   *)
(* before: the kill switch may be thrown, the lease may be reclaimed, the  *)
(* process may die, and a request that was sent stays on the wire whatever *)
(* becomes of its sender.  The reconciler asks the remote system for the   *)
(* outcome and settles the effect with an answer that may be out of date.  *)
(*                                                                         *)
(* The module extends Kernel: the kernel's rows are its state, and every   *)
(* kernel transaction is an action of the composition.  Grants, digests,   *)
(* allowlists and quotas are decided before admission and are left out (no *)
(* deployment in the repository configures a quota limit); they are the    *)
(* reasons why CheckPolicy may never come about.                           *)
(***************************************************************************)
EXTENDS Kernel

VARIABLES
    calls,     \* the broker calls in progress: lease and how far they are
    sends,     \* how many requests were ever sent for a step
    wire,      \* the leases under which a request is on its way
    applied,   \* the leases whose request the remote system has applied
    refused,   \* the leases whose request it has refused (NOT_COMMITTED)
    asked,     \* the answer a reconciler holds for the effect of a step
    killed     \* a kill switch matches the action

brokerVars == <<calls, sends, wire, applied, refused, asked, killed>>
allVars == <<vars, brokerVars>>

Phases == {"allowed", "admitted", "sent", "parking"}

BrokerInit ==
    /\ Init
    /\ calls = {}
    /\ sends = [s \in Steps |-> 0]
    /\ wire = {}
    /\ applied = {}
    /\ refused = {}
    /\ asked = [s \in Steps |-> "none"]
    /\ killed = FALSE

Busy(l) == \E c \in calls : c.lease = l

At(l, phase) == [lease |-> l, phase |-> phase] \in calls

\* The call of l goes on to another phase, or ends.
GoTo(l, phase) == calls' = {c \in calls : c.lease # l} \cup {[lease |-> l, phase |-> phase]}
Finish(l) == calls' = {c \in calls : c.lease # l}

-----------------------------------------------------------------------------
(* admit.                                                                  *)

\* policy.evaluate allows the action: no kill switch matches it now.
CheckPolicy(l) ==
    /\ l \in issued
    /\ ~Busy(l)
    /\ ~killed
    /\ GoTo(l, "allowed")
    /\ UNCHANGED <<vars, sends, wire, applied, refused, asked, killed>>

\* Fault: the replay of an admission that was never finished is executed.
BrokerAdmitReplaying(l) ==
    /\ At(l, "allowed")
    /\ \/ AdmitEffect(l) /\ GoTo(l, "admitted")
       \/ /\ HoldsLive(l) /\ active[l.worker] /\ effect[l.step] # "NONE"
          /\ IF effect[l.step] \in {"ADMITTED", "COMPLETION_UNKNOWN"}
             THEN GoTo(l, "admitted") ELSE Finish(l)
          /\ UNCHANGED vars
       \/ /\ ~(HoldsLive(l) /\ active[l.worker])
          /\ Finish(l)
          /\ UNCHANGED vars
    /\ UNCHANGED <<sends, wire, applied, refused, asked, killed>>

(* kernel.admitEffect.  A new row is an admission to execute.  The replay  *)
(* of an older one returns its response, throws its outcome or, if it was  *)
(* never finished, is parked.  A lease that was lost is rejected.          *)
BrokerAdmit(l) ==
    /\ At(l, "allowed")
    /\ \/ AdmitEffect(l) /\ GoTo(l, "admitted")
       \/ /\ HoldsLive(l) /\ active[l.worker] /\ effect[l.step] # "NONE"
          /\ IF effect[l.step] = "ADMITTED" THEN GoTo(l, "parking") ELSE Finish(l)
          /\ UNCHANGED vars
       \/ /\ ~(HoldsLive(l) /\ active[l.worker])
          /\ Finish(l)
          /\ UNCHANGED vars
    /\ UNCHANGED <<sends, wire, applied, refused, asked, killed>>

-----------------------------------------------------------------------------
(* executeAdmitted.                                                        *)

\* executor.execute: the request leaves; nothing is checked again.
Send(l) ==
    /\ At(l, "admitted")
    /\ GoTo(l, "sent")
    /\ wire' = wire \cup {l}
    /\ sends' = [sends EXCEPT ![l.step] = @ + 1]
    /\ UNCHANGED <<vars, applied, refused, asked, killed>>

\* The response arrives and completeTerminalEffect records it; if the kernel
\* rejects it or the evidence cannot be stored, the effect is parked.
ExecutorReturned(l) ==
    /\ At(l, "sent")
    /\ l \in applied
    /\ \/ (\E evidence \in BOOLEAN : CompleteEffect(l, evidence)) /\ Finish(l)
       \/ GoTo(l, "parking") /\ UNCHANGED vars
    /\ UNCHANGED <<sends, wire, applied, refused, asked, killed>>

\* Fault: a timeout is taken for a failure.
ExecutorRefusedOrSilent(l) ==
    /\ At(l, "sent")
    /\ l \notin applied
    /\ \/ (\E evidence \in BOOLEAN : FailEffect(l, evidence)) /\ Finish(l)
       \/ GoTo(l, "parking") /\ UNCHANGED vars
    /\ UNCHANGED <<sends, wire, applied, refused, asked, killed>>

\* AdapterExecutionError NOT_COMMITTED: failEffect, or the park if it fails.
ExecutorRefused(l) ==
    /\ At(l, "sent")
    /\ l \in refused
    /\ \/ (\E evidence \in BOOLEAN : FailEffect(l, evidence)) /\ Finish(l)
       \/ GoTo(l, "parking") /\ UNCHANGED vars
    /\ UNCHANGED <<sends, wire, applied, refused, asked, killed>>

\* The hard timeout, an UNKNOWN commit state or any other error.
ExecutorTimedOut(l) ==
    /\ At(l, "sent")
    /\ GoTo(l, "parking")
    /\ UNCHANGED <<vars, sends, wire, applied, refused, asked, killed>>

\* parkUnfinishedAdmission: a park that fails is audited and otherwise ignored.
ParkUnfinishedAdmission(l) ==
    /\ At(l, "parking")
    /\ Finish(l)
    /\ MarkEffectCompletionUnknown(l) \/ UNCHANGED vars
    /\ UNCHANGED <<sends, wire, applied, refused, asked, killed>>

\* The worker process dies, or its handler is aborted.
AbandonCall(l) ==
    /\ Busy(l)
    /\ Finish(l)
    /\ UNCHANGED <<vars, sends, wire, applied, refused, asked, killed>>

-----------------------------------------------------------------------------
(* The remote system, and the network to it.                               *)
RemoteApply(l) ==
    /\ l \in wire
    /\ wire' = wire \ {l}
    /\ applied' = applied \cup {l}
    /\ UNCHANGED <<vars, sends, calls, refused, asked, killed>>

RemoteRefuse(l) ==
    /\ l \in wire
    /\ wire' = wire \ {l}
    /\ refused' = refused \cup {l}
    /\ UNCHANGED <<vars, sends, calls, applied, asked, killed>>

LoseRequest(l) ==
    /\ l \in wire
    /\ wire' = wire \ {l}
    /\ UNCHANGED <<vars, sends, calls, applied, refused, asked, killed>>

AppliedTo(s) == {l \in applied : l.step = s}

-----------------------------------------------------------------------------
(* The reconciler: reconcileUnknown, and the mutation its answer calls for.*)

QueryOutcome(s) ==
    /\ effect[s] = "COMPLETION_UNKNOWN"
    /\ asked[s] = "none"
    /\ asked' = [asked EXCEPT ![s] = IF AppliedTo(s) # {} THEN "APPLIED" ELSE "NOT_APPLIED"]
    /\ UNCHANGED <<vars, sends, calls, wire, applied, refused, killed>>

SettleByAnswer(s) ==
    /\ \/ asked[s] = "APPLIED" /\ CompleteReconciledEffect(s)
       \/ asked[s] = "NOT_APPLIED" /\ ConfirmNotApplied(s)
    /\ asked' = [asked EXCEPT ![s] = "none"]
    /\ UNCHANGED <<sends, calls, wire, applied, refused, killed>>

\* The claim was lost or the mutation was rejected.
DropAnswer(s) ==
    /\ asked[s] # "none"
    /\ asked' = [asked EXCEPT ![s] = "none"]
    /\ UNCHANGED <<vars, sends, calls, wire, applied, refused, killed>>

EscalateUnknown(s) ==
    /\ EscalateReconcile(s)
    /\ asked' = [asked EXCEPT ![s] = "none"]
    /\ UNCHANGED <<sends, calls, wire, applied, refused, killed>>

-----------------------------------------------------------------------------
\* putKillSwitch and removeKillSwitch.
ThrowKillSwitch ==
    /\ killed' = ~killed
    /\ UNCHANGED <<vars, sends, calls, wire, applied, refused, asked>>

CallNext(l) ==
    \/ CheckPolicy(l) \/ BrokerAdmit(l) \/ Send(l)
    \/ ExecutorReturned(l) \/ ExecutorRefused(l) \/ ExecutorTimedOut(l)
    \/ ParkUnfinishedAdmission(l) \/ AbandonCall(l)

RemoteNext(l) == RemoteApply(l) \/ RemoteRefuse(l) \/ LoseRequest(l)

ReconcilerNext(s) ==
    QueryOutcome(s) \/ SettleByAnswer(s) \/ DropAnswer(s) \/ EscalateUnknown(s)

\* The worker ends its step when its handler has returned.
StepNext ==
    \E l \in issued :
        \/ HeartbeatStep(l)
        \/ ~Busy(l) /\ CompleteStep(l)
        \/ \E retryable, refund \in BOOLEAN : ~Busy(l) /\ FailStep(l, retryable, refund)

\* The kernel's daemons, without the reconciliation.
KernelDaemonNext ==
    \/ \E r \in Runs : \E batch \in SUBSET StepsOf(r) : CommitReclaim(r, batch)
    \/ \E s \in Steps :
          \/ BeginReclaim(s) \/ RollbackReclaim(s)
          \/ Elapse(s) \/ WakeRetryStep(s) \/ FailStepByTimer(s) \/ AppendEvidence(s)
    \/ \E r \in Runs : SettleCompensation(r)

KernelNext ==
    /\ StepNext \/ ClaimNext \/ KernelDaemonNext \/ OperatorNext \/ InverseNext
    /\ UNCHANGED brokerVars

BrokerNext ==
    \/ \E l \in issued : CallNext(l) \/ RemoteNext(l)
    \/ \E s \in Steps : ReconcilerNext(s)
    \/ ThrowKillSwitch
    \/ KernelNext

BrokerSpec == BrokerInit /\ [][BrokerNext]_allVars

-----------------------------------------------------------------------------
(* Properties.                                                             *)

\* Broker calls, requests and answers have their types.
BrokerTypeOK ==
    /\ TypeOK
    /\ calls \subseteq [lease : Lease, phase : Phases]
    /\ sends \in [Steps -> Nat]
    /\ wire \subseteq Lease
    /\ applied \subseteq Lease
    /\ refused \subseteq Lease
    /\ asked \in [Steps -> {"none", "APPLIED", "NOT_APPLIED"}]
    /\ killed \in BOOLEAN

(* The remote system applies the action of a step at most once, although   *)
(* workers crash, leases are re-issued, requests outlive their senders and *)
(* steps are retried while the outcome is unknown: at most one request is  *)
(* ever sent for a step.                                                   *)
AtMostOnce == \A s \in Steps : sends[s] <= 1

(* An effect that the ledger calls COMPLETED has been applied, and one it  *)
(* calls FAILED was refused and is never applied.                          *)
LedgerIsTrue ==
    \A s \in Steps :
        /\ effect[s] = "COMPLETED" => AppliedTo(s) # {}
        /\ effect[s] = "FAILED" => AppliedTo(s) = {} /\ ~\E l \in wire : l.step = s
=============================================================================
