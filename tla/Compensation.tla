---------------------------- MODULE Compensation ----------------------------
(***************************************************************************)
(* The undoing of one completed effect.  A compensation request has its    *)
(* own run and step; the compensation daemons claim it together with its   *)
(* outbox message, admit the inverse effect once, send it, and settle the  *)
(* request, the step, the compensation run, the original run and the       *)
(* message in one transaction.  What they cannot decide is parked for the  *)
(* reconciler.                                                             *)
(*                                                                         *)
(* Every action is one database function, or one await of the daemon.      *)
(* A tick that throws drains the registration of its worker: it claims     *)
(* nothing more until somebody restarts its process.  The lease outlives   *)
(* it.  Workers die, are drained by the other daemon of their process, and *)
(* are slower than their lease.                                            *)
(*                                                                         *)
(* The production wiring is modelled: a signer and the evidence authority  *)
(* are configured.  A second request of the tenant, for the same original  *)
(* run (sibling), and the kernel's own moves of that run are one-line      *)
(* actions.  Payloads, hashes, events and the batching of claims are left  *)
(* out.                                                                    *)
(***************************************************************************)
EXTENDS Integers, FiniteSets, States

CONSTANTS
    Workers,     \* registered compensation workers
    MaxFaults    \* bound of the model: deaths, drains, pauses and late workers

ASSUME CompensationBoundAssumption == MaxFaults \in Nat

VARIABLES
    req,         \* commander_compensation_requests.state
    message,     \* the outbox message of the request: none, open, published
    step,        \* state of the compensation step
    compRun,     \* state of the compensation run
    orig,        \* state of the run whose effect is undone
    open,        \* that run still has open steps
    effect,      \* state of the inverse effect; ESCALATED is the disposition
                 \* of a COMPLETION_UNKNOWN effect that waits for a human
    fresh,       \* the effect was admitted under the latest claim
    leased,      \* lease_token of the step is not NULL
    live,        \* the latest claim, and the lease it took, have not expired
    valid,       \* authorization, approval, adapter and token are in order
    active,      \* the workers whose registration is ACTIVE
    work,        \* the request a worker has in hand
    wire,        \* the inverse call: none, sent, answered, lost
    applied,     \* the remote system has undone the effect
    sends,       \* how often the inverse was sent
    sibling,     \* another request for the original run: none, open (AUTHORIZED),
                 \* claimed, parked (unknown or ESCALATED), ended
    faults       \* deaths, drains, pauses and late workers so far

ledger == <<req, message, step, compRun, orig, open, effect, fresh, leased>>
remote == <<wire, applied, sends>>
vars == <<ledger, remote, live, valid, active, work, sibling, faults>>

Unknown == {"COMPLETION_UNKNOWN", "ESCALATED"}
Phases == {"idle", "claimed", "refused", "admitted", "sent", "proved",
           "unknown", "done", "final"}
Idle == [at |-> "idle", current |-> FALSE]

Init ==
    /\ req = "none" /\ message = "none"
    /\ step = "none" /\ compRun = "none"
    /\ orig \in {"RUNNING", "SUCCEEDED", "FAILED"}
    /\ open = (orig = "RUNNING")
    /\ effect = "none"
    /\ fresh = FALSE /\ leased = FALSE /\ live = FALSE
    /\ valid \in BOOLEAN
    /\ active = Workers
    /\ work = [w \in Workers |-> Idle]
    /\ wire = "none" /\ applied = FALSE /\ sends = 0
    /\ sibling = "none"
    /\ faults = 0

-----------------------------------------------------------------------------
(* The request.                                                            *)

\* request_compensation; asking again returns the request there is.
RequestCompensation ==
    /\ req = "none"
    /\ req' = IF valid THEN "AUTHORIZED" ELSE "ESCALATED"
    /\ message' = IF valid THEN "open" ELSE message
    /\ step' = IF valid THEN "PENDING" ELSE "FAILED"
    /\ compRun' = step'
    /\ UNCHANGED <<orig, open, effect, fresh, leased, remote, live, valid, active,
                   work, sibling, faults>>

\* The authorization expires, or the adapter is no longer registered.
AuthorizationLapses ==
    /\ valid
    /\ valid' = FALSE
    /\ UNCHANGED <<ledger, remote, live, active, work, sibling, faults>>

-----------------------------------------------------------------------------
(* Claims.                                                                 *)


(* What claim_compensation_request may select.  It is called without ids:  *)
(* it takes the oldest due request no other transaction has locked, then   *)
(* any unpublished compensation message of the tenant, and returns NULL,   *)
(* changing nothing, unless the message is that request's own.             *)
Claimable ==
    /\ message = "open"
    /\ req = "AUTHORIZED" \/ (req = "CLAIMED" /\ ~live)

\* The sibling's message is unpublished too: the claim may take the one for
\* the other, and nothing makes it ever take the right one.
Mispairs == sibling \in {"open", "claimed"}

(* The claim takes the step, whatever its state, under a new fencing       *)
(* epoch, and moves both runs to COMPENSATING: the original one from any   *)
(* state but COMPENSATED.                                                  *)
Claim(w) ==
    /\ w \in active /\ work[w].at = "idle"
    /\ Claimable
    /\ compRun \in {"PENDING", "COMPENSATING"}
    /\ orig # "COMPENSATED"
    /\ req' = "CLAIMED"
    /\ step' = "RUNNING"
    /\ leased' = TRUE /\ live' = TRUE /\ fresh' = FALSE
    /\ compRun' = "COMPENSATING" /\ orig' = "COMPENSATING"
    /\ work' = [v \in Workers |-> IF v = w THEN [at |-> "claimed", current |-> TRUE]
                                  ELSE [work[v] EXCEPT !.current = FALSE]]
    /\ UNCHANGED <<message, open, effect, remote, valid, active, sibling, faults>>

\* The tick of w ends in an error: onFatalInvariant drains the registration.
Throw(w) ==
    /\ work' = [work EXCEPT ![w] = Idle]
    /\ active' = active \ {w}

\* The claim raises COMPENSATION_ORIGINAL_RUN_TRANSITION_REJECTED.
ClaimRaises(w) ==
    /\ w \in active /\ work[w].at = "idle"
    /\ Claimable
    /\ orig = "COMPENSATED"
    /\ Throw(w)
    /\ UNCHANGED <<ledger, remote, live, valid, sibling, faults>>

-----------------------------------------------------------------------------
(* consumeCompensationBatch, for one request.                              *)

Go(w, phase) == work' = [work EXCEPT ![w].at = phase]

\* The lease the worker was given is the step's lease, and live.
HoldsLease(w) == work[w].current /\ step = "RUNNING" /\ leased /\ live

\* Fault: an effect found ADMITTED is taken for one's own.
ResumeAdmitted(w) ==
    CASE effect = "none"    -> effect' = "ADMITTED" /\ fresh' = TRUE /\ Go(w, "admitted") /\ UNCHANGED active
      [] effect = "ADMITTED" -> Go(w, "admitted") /\ UNCHANGED <<effect, fresh, active>>
      [] effect \in Unknown -> Go(w, "unknown") /\ UNCHANGED <<effect, fresh, active>>
      [] effect = "COMPLETED" -> Go(w, "done") /\ UNCHANGED <<effect, fresh, active>>
      [] OTHER              -> Throw(w) /\ UNCHANGED <<effect, fresh>>

(* admit_compensation_effect writes the effect once; a later claim finds   *)
(* it, and executeAdmitted answers from its state.                         *)
AdmitOrReplay(w) ==
    CASE effect = "none"    -> effect' = "ADMITTED" /\ fresh' = TRUE /\ Go(w, "admitted") /\ UNCHANGED active
      [] effect \in Unknown \cup {"ADMITTED"} -> Go(w, "unknown") /\ UNCHANGED <<effect, fresh, active>>
      [] effect = "COMPLETED" -> Go(w, "done") /\ UNCHANGED <<effect, fresh, active>>
      [] OTHER              -> Throw(w) /\ UNCHANGED <<effect, fresh>>

\* Validation, token and admission.
Consume(w) ==
    /\ work[w].at = "claimed"
    /\ IF valid /\ HoldsLease(w)
       THEN AdmitOrReplay(w)
       ELSE Go(w, "refused") /\ UNCHANGED <<effect, fresh, active>>
    /\ UNCHANGED <<req, message, step, compRun, orig, open, leased, remote, live, valid,
                   sibling, faults>>

(* Who may settle a request.  The lease test is NOT (token = t AND ...),   *)
(* which is NULL, and therefore no refusal, for a step without a lease.    *)
Owned(w) ==
    /\ w \in active
    /\ work[w].current
    /\ message = "open"
    /\ ~leased \/ live \/ fresh

\* The message is published and the lease given up by every settlement.
Settle(request, stepTo) ==
    /\ req' = request /\ step' = stepTo
    /\ message' = "published" /\ leased' = FALSE

\* Only a request without an effect can be escalated by the consumer.
Escalate(w) ==
    /\ work[w].at = "refused"
    /\ IF effect = "none" /\ Owned(w)
       THEN /\ Settle("ESCALATED", "WAITING_FOR_HUMAN")
            /\ work' = [work EXCEPT ![w] = Idle]
            /\ UNCHANGED active
       ELSE Throw(w) /\ UNCHANGED <<req, step, message, leased>>
    /\ UNCHANGED <<compRun, orig, open, effect, fresh, remote, live, valid, sibling, faults>>

SendInverse(w) ==
    /\ work[w].at = "admitted"
    /\ Go(w, "sent")
    /\ wire' = "sent" /\ sends' = sends + 1
    /\ UNCHANGED <<ledger, applied, live, valid, active, sibling, faults>>

\* Fault: no answer is taken for a refusal.
TimeoutIsRefusal(w) ==
    /\ work[w].at = "sent"
    /\ effect' = "FAILED"
    /\ Throw(w)
    /\ UNCHANGED <<req, message, step, compRun, orig, open, fresh, leased, remote, live,
                   valid, sibling, faults>>

\* The hard timeout, or an error that does not say what happened.
TimedOut(w) ==
    /\ work[w].at = "sent"
    /\ Go(w, "unknown")
    /\ UNCHANGED <<ledger, remote, live, valid, active, sibling, faults>>

\* read_adapter_ops_evidence_context answers only the holder of a live lease
\* whose effect was admitted under that lease.
EvidenceContext(w) == w \in active /\ work[w].current /\ message = "open" /\ leased /\ live /\ fresh

\* The evidence record of the answer; without it the tick fails.
ProveAnswer(w) ==
    /\ work[w].at = "sent" /\ wire = "answered"
    /\ IF EvidenceContext(w) /\ effect = "ADMITTED"
       THEN Go(w, "proved") /\ UNCHANGED active
       ELSE Throw(w)
    /\ UNCHANGED <<ledger, remote, live, valid, sibling, faults>>

\* complete_ and fail_compensation_effect_with_evidence.
RecordAnswer(w) ==
    /\ work[w].at = "proved"
    /\ IF w \in active /\ HoldsLease(w) /\ effect = "ADMITTED" /\ fresh
       THEN \/ applied /\ effect' = "COMPLETED" /\ Go(w, "done") /\ UNCHANGED active
            \/ ~applied /\ effect' = "FAILED" /\ Throw(w)
       ELSE Go(w, "unknown") /\ UNCHANGED <<effect, active>>
    /\ UNCHANGED <<req, message, step, compRun, orig, open, fresh, leased, remote, live,
                   valid, sibling, faults>>

\* park_compensation_unknown.
ParkUnknown(w) ==
    /\ work[w].at = "unknown"
    /\ IF Owned(w) /\ effect \in Unknown \cup {"ADMITTED"}
       THEN /\ effect' = "COMPLETION_UNKNOWN"
            /\ Settle("COMPLETION_UNKNOWN", "WAITING_FOR_RECONCILIATION")
            /\ work' = [work EXCEPT ![w] = Idle]
            /\ UNCHANGED active
       ELSE Throw(w) /\ UNCHANGED <<effect, req, step, message, leased>>
    /\ UNCHANGED <<compRun, orig, open, fresh, remote, live, valid, sibling, faults>>

\* terminalEvidence: the receipt stored with the effect, read under the claim.
ProveCompletion(w) ==
    /\ work[w].at = "done"
    /\ IF EvidenceContext(w) THEN Go(w, "final") /\ UNCHANGED active ELSE Throw(w)
    /\ UNCHANGED <<ledger, remote, live, valid, sibling, faults>>

\* finalize_compensation, disposition COMPLETED.
Finalize(w) ==
    /\ work[w].at = "final"
    /\ IF Owned(w) /\ effect = "COMPLETED" /\ orig \in {"COMPENSATING", "COMPENSATED"}
       THEN /\ Settle("COMPLETED", "SUCCEEDED")
            /\ compRun' = "SUCCEEDED" /\ orig' = "COMPENSATED"
            /\ work' = [work EXCEPT ![w] = Idle]
            /\ UNCHANGED active
       ELSE Throw(w) /\ UNCHANGED <<req, step, message, leased, compRun, orig>>
    /\ UNCHANGED <<open, effect, fresh, remote, live, valid, sibling, faults>>

\* The next await of w's tick.
Work(w) ==
    \/ Consume(w) \/ Escalate(w)
    \/ SendInverse(w) \/ TimedOut(w) \/ ProveAnswer(w) \/ RecordAnswer(w)
    \/ ParkUnknown(w) \/ ProveCompletion(w) \/ Finalize(w)

-----------------------------------------------------------------------------
(* Workers, leases and the tenant.                                         *)

\* A restarted process registers under the next generation.
Register(w) ==
    /\ w \notin active /\ work[w].at = "idle"
    /\ active' = active \cup {w}
    /\ UNCHANGED <<ledger, remote, live, valid, work, sibling, faults>>

Die(w) ==
    /\ w \in active /\ work[w].at # "idle"
    /\ faults < MaxFaults
    /\ Throw(w)
    /\ faults' = faults + 1
    /\ UNCHANGED <<ledger, remote, live, valid, sibling>>

\* The reconciliation daemon of the process, or w's own tick over another
\* request, fails and drains both registrations.
Drained(w) ==
    /\ w \in active
    /\ faults < MaxFaults
    /\ active' = active \ {w}
    /\ faults' = faults + 1
    /\ UNCHANGED <<ledger, remote, live, valid, work, sibling>>

HolderWorks == \E w \in Workers : work[w].current /\ work[w].at # "idle"

\* 60 s pass without the holder, or a holder is late.
Expire ==
    /\ live
    /\ HolderWorks => faults < MaxFaults
    /\ faults' = IF HolderWorks THEN faults + 1 ELSE faults
    /\ live' = FALSE
    /\ UNCHANGED <<ledger, remote, valid, active, work, sibling>>

\* reclaimExpiredLeases: the request stays CLAIMED.
Reclaim ==
    /\ step = "RUNNING" /\ ~live
    /\ step' = IF effect = "ADMITTED" THEN "WAITING_FOR_RECONCILIATION" ELSE "RETRY_WAIT"
    /\ effect' = IF effect = "ADMITTED" THEN "COMPLETION_UNKNOWN" ELSE effect
    /\ leased' = FALSE
    /\ UNCHANGED <<req, message, compRun, orig, open, fresh, remote, live, valid, active,
                   work, sibling, faults>>

\* pauseTenant; claims do not look at the pause.
PauseTenant ==
    /\ step = "RUNNING"
    /\ faults < MaxFaults
    /\ step' = "RETRY_WAIT"
    /\ effect' = IF effect = "ADMITTED" THEN "COMPLETION_UNKNOWN" ELSE effect
    /\ leased' = FALSE
    /\ faults' = faults + 1
    /\ UNCHANGED <<req, message, compRun, orig, open, fresh, remote, live, valid, active,
                   work, sibling>>

-----------------------------------------------------------------------------
(* The reconciler (module Reconcile), for the inverse effect.  A mutation  *)
(* whose guard fails raises and changes nothing.                           *)

Queried == effect = "COMPLETION_UNKNOWN" /\ step \notin StepTerminal /\ compRun = "COMPENSATING"

\* Fault: the request is completed in whatever state it is.
CompletesAnyRequest ==
    /\ Queried /\ applied
    /\ orig \in {"COMPENSATING", "COMPENSATED"}
    /\ req' = "COMPLETED" /\ effect' = "COMPLETED"
    /\ step' = "SUCCEEDED" /\ compRun' = "SUCCEEDED" /\ orig' = "COMPENSATED"
    /\ UNCHANGED <<message, open, fresh, leased, remote, live, valid, active, work,
                   sibling, faults>>

ReconcileComplete ==
    /\ Queried /\ applied
    /\ req = "COMPLETION_UNKNOWN"
    /\ orig \in {"COMPENSATING", "COMPENSATED"}
    /\ req' = "COMPLETED" /\ effect' = "COMPLETED"
    /\ step' = "SUCCEEDED" /\ compRun' = "SUCCEEDED" /\ orig' = "COMPENSATED"
    /\ UNCHANGED <<message, open, fresh, leased, remote, live, valid, active, work,
                   sibling, faults>>

ReconcileNotApplied ==
    /\ Queried /\ ~applied
    /\ req = "COMPLETION_UNKNOWN"
    /\ orig = "COMPENSATING"
    /\ req' = "CONFIRMED_NOT_APPLIED" /\ effect' = "CONFIRMED_NOT_APPLIED"
    /\ step' = "FAILED" /\ compRun' = "FAILED" /\ orig' = "FAILED"
    /\ UNCHANGED <<message, open, fresh, leased, remote, live, valid, active, work,
                   sibling, faults>>

\* The adapter cannot be queried.
ReconcileEscalate ==
    /\ Queried
    /\ req = "COMPLETION_UNKNOWN"
    /\ req' = "ESCALATED" /\ effect' = "ESCALATED"
    /\ step' = "WAITING_FOR_HUMAN"
    /\ UNCHANGED <<message, compRun, orig, open, fresh, leased, remote, live, valid,
                   active, work, sibling, faults>>

\* The last RESCHEDULE gives up; the request is not told.
ReconcileExhausted ==
    /\ Queried
    /\ effect' = "ESCALATED"
    /\ step' = "WAITING_FOR_HUMAN"
    /\ UNCHANGED <<req, message, compRun, orig, open, fresh, leased, remote, live, valid,
                   active, work, sibling, faults>>

-----------------------------------------------------------------------------
(* The surroundings.                                                       *)

\* The remote system carries the call out or not, and its answer may be lost.
RemoteActs ==
    /\ wire = "sent"
    /\ wire' \in {"answered", "lost"}
    /\ applied' \in {applied, TRUE}
    /\ UNCHANGED <<ledger, sends, live, valid, active, work, sibling, faults>>

\* The kernel ends the original run.  A run that is being compensated can
\* only fail.
KernelEndsRun ==
    /\ open
    /\ \/ orig = "RUNNING" /\ orig' \in {"SUCCEEDED", "FAILED"}
       \/ orig = "COMPENSATING" /\ orig' = "FAILED"
    /\ open' = FALSE
    /\ UNCHANGED <<req, message, step, compRun, effect, fresh, leased, remote, live,
                   valid, active, work, sibling, faults>>

\* Another effect of the original run is to be undone.
SiblingRequested ==
    /\ sibling = "none"
    /\ sibling' = "open"
    /\ UNCHANGED <<ledger, remote, live, valid, active, work, faults>>

SiblingClaims ==
    /\ Mispairs /\ orig # "COMPENSATED"
    /\ sibling' = "claimed"
    /\ orig' = "COMPENSATING"
    /\ UNCHANGED <<req, message, step, compRun, open, effect, fresh, leased, remote, live,
                   valid, active, work, faults>>

\* Its message is published; the reconciler or a human has it now.
SiblingParks ==
    /\ sibling = "claimed"
    /\ sibling' = "parked"
    /\ UNCHANGED <<ledger, remote, live, valid, active, work, faults>>

SiblingSettles ==
    /\ sibling \in {"claimed", "parked"}
    /\ \/ orig \in {"COMPENSATING", "COMPENSATED"} /\ orig' = "COMPENSATED"
       \/ orig = "COMPENSATING" /\ orig' = "FAILED"
    /\ sibling' = "ended"
    /\ UNCHANGED <<req, message, step, compRun, open, effect, fresh, leased, remote, live,
                   valid, active, work, faults>>

-----------------------------------------------------------------------------
Next ==
    \/ RequestCompensation \/ AuthorizationLapses
    \/ \E w \in Workers :
          Claim(w) \/ ClaimRaises(w) \/ Work(w) \/ Register(w) \/ Die(w) \/ Drained(w)
    \/ Expire \/ Reclaim \/ PauseTenant
    \/ ReconcileComplete \/ ReconcileNotApplied \/ ReconcileEscalate \/ ReconcileExhausted
    \/ RemoteActs \/ KernelEndsRun
    \/ SiblingRequested \/ SiblingClaims \/ SiblingParks \/ SiblingSettles

(* The daemons tick for ever and their awaits return or time out; a claim  *)
(* is sure to come only while no other message can be mispaired; leases    *)
(* expire and are reclaimed; the reconciler gets to a conclusive query.    *)
(* Nothing is assumed of the remote system, the operators, the kernel or   *)
(* the sibling, nor that a drained process is ever restarted: its liveness *)
(* probe does not look at its loops.                                       *)
Fairness ==
    /\ WF_vars(~Mispairs /\ \E w \in Workers : Claim(w))
    /\ \A w \in Workers : WF_vars(Work(w))
    /\ WF_vars(Expire) /\ WF_vars(Reclaim)
    /\ WF_vars(ReconcileComplete \/ ReconcileNotApplied)

Spec == Init /\ [][Next]_vars /\ Fairness

-----------------------------------------------------------------------------
(* Properties.                                                             *)

(* However often a request is claimed again - after a death, an expired    *)
(* lease, a pause or a late holder - the inverse call leaves at most once: *)
(* the effect is written once and an effect found is never executed.       *)
CompensatedOnce == sends <= 1

(* The ledger never says more than happened.  No effect: nothing was sent. *)
(* COMPLETED, by a worker or by the reconciler: the remote system did undo *)
(* it.  FAILED: it did not, and no call is under way that still could.     *)
InverseLedgerIsTrue ==
    /\ effect = "none" => sends = 0
    /\ effect = "COMPLETED" => applied
    /\ effect = "FAILED" => ~applied /\ wire = "answered"

(* The five records of a compensation are written by different functions   *)
(* and still agree: the message is open exactly while the request can be   *)
(* claimed, a parked request has an unknown effect and a waiting step, and *)
(* the step and both runs end as the request does.                         *)
RecordsAgree ==
    /\ message = "open" <=> req \in {"AUTHORIZED", "CLAIMED"}
    /\ step = "SUCCEEDED" <=> req = "COMPLETED"
    /\ req = "COMPLETION_UNKNOWN" =>
          /\ effect \in Unknown
          /\ step \in {"WAITING_FOR_RECONCILIATION", "WAITING_FOR_HUMAN"}
          /\ compRun = "COMPENSATING"
    /\ req = "COMPLETED" => effect = "COMPLETED" /\ compRun = "SUCCEEDED" /\ orig = "COMPENSATED"
    /\ req = "CONFIRMED_NOT_APPLIED" =>
          effect = "CONFIRMED_NOT_APPLIED" /\ step = "FAILED" /\ compRun = "FAILED"
    /\ req = "ESCALATED" => effect \in {"none", "ESCALATED"}

Settled ==
    \/ req \in {"none", "COMPLETED", "CONFIRMED_NOT_APPLIED", "ESCALATED"}
    \/ req = "COMPLETION_UNKNOWN" /\ effect = "ESCALATED"

(* The ways a request is left behind by the code as it is.                 *)
\* The inverse was refused; every later claim throws EFFECT_FAILED.
Refused == effect = "FAILED"
\* The effect completed and its worker was lost before finalize_compensation:
\* the evidence context is denied to every later claim.
LostBeforeFinalize ==
    /\ effect = "COMPLETED" /\ req = "CLAIMED"
    /\ \A w \in Workers : work[w].at \in {"done", "final"} => ~(work[w].current /\ fresh)
\* The authorization lapsed after admission: no replay, and no escalation.
LapsedAfterAdmission == ~valid /\ effect # "none" /\ req = "CLAIMED"
\* The original run is COMPENSATED by another request: every claim raises.
SiblingWasFirst == orig = "COMPENSATED" /\ req \in {"AUTHORIZED", "CLAIMED"}
\* The original run left COMPENSATING while the request was parked.
ParkedTooLong ==
    /\ req = "COMPLETION_UNKNOWN"
    /\ orig # "COMPENSATING"
    /\ orig = "COMPENSATED" => ~applied
\* The registration of every daemon is drained.
NobodyLeft == active = {} /\ req \in {"AUTHORIZED", "CLAIMED"}
\* Another request of the tenant stays open beside this one.
Mispaired == Mispairs /\ req \in {"AUTHORIZED", "CLAIMED"}

LeftBehind ==
    \/ Refused \/ LostBeforeFinalize \/ LapsedAfterAdmission
    \/ SiblingWasFirst \/ ParkedTooLong \/ NobodyLeft \/ Mispaired

=============================================================================
