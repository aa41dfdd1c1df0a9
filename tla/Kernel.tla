------------------------------- MODULE Kernel -------------------------------
(***************************************************************************)
(* The durable execution kernel of Praetor: the rows of one tenant in      *)
(* PostgreSQL and the transactions that packages/kernel runs on them.      *)
(*                                                                         *)
(* Runs hold steps; workers claim a step under a lease with a fencing      *)
(* epoch, admit at most one remote effect for it, record the effect's      *)
(* outcome and finish the step.  The scheduler reclaims expired leases,    *)
(* operators pause, resume and cancel, timers fail steps, and the          *)
(* reconciler settles the effects whose outcome nobody recorded.           *)
(*                                                                         *)
(* Every action is one committed transaction, but for two that others can  *)
(* overtake and that are two steps each.  The claim locks the step, the    *)
(* usage row and the control row of the tenant but NOT the run row, so a   *)
(* pause of the run can commit in between.  The reclaim locks the expired  *)
(* steps and decides from the effects it sees; a completion of the effect, *)
(* which reads the step without locking it, can commit before the reclaim  *)
(* parks.  A transaction whose assertion throws is rolled back, which here *)
(* is an action that is not enabled; so is one that waits for a lock.      *)
(*                                                                         *)
(* The steps that undo an effect (Inverses) have one-step runs of their    *)
(* own and transactions of their own (module Compensation).  Here they     *)
(* are only what they do to the usage row, which they share.               *)
(*                                                                         *)
(* Left out: the version column (within one claim it is constant, so the   *)
(* token comparison implies the version comparison), the event and outbox  *)
(* rows, and the retry budget of the reconciler.                           *)
(*                                                                         *)
(* A definition marked Fault is a wrong version of the definition after    *)
(* it.  The specification does not use it: it is there to show that the    *)
(* property named in PROJECT.json notices that fault.                      *)
(***************************************************************************)
EXTENDS Integers, FiniteSets, States

CONSTANTS
    Runs,         \* the runs of the tenant
    Steps,        \* their steps
    Workers,      \* worker identities that may register
    RunOf,        \* the run of a step
    Deps,         \* the prerequisites of a step (steps of the same run)
    ClassA,       \* the steps whose effect is consequential (needs a receipt)
    Approval,     \* the steps created in WAITING_FOR_HUMAN
    MaxAttempts,  \* max_attempts of every step
    Limit,        \* max_concurrent_steps of the tenant
    LeaseTTL,     \* how many Elapse steps a lease lives
    MaxEpoch,     \* bound of the model: claims per step
    MaxGen,       \* bound of the model: registrations per worker
    Inverses,     \* compensation steps of the tenant, not in Steps
    MaxUndue      \* bound of the model: slots released that nobody had taken

ASSUME GraphAssumption ==
    /\ RunOf \in [Steps -> Runs]
    /\ Deps \in [Steps -> SUBSET Steps]
    /\ \A s \in Steps : \A d \in Deps[s] : RunOf[d] = RunOf[s]

ASSUME FiniteAssumption == IsFiniteSet(Steps) /\ IsFiniteSet(Inverses)

ASSUME ClassAssumption == ClassA \subseteq Steps /\ Approval \subseteq Steps

ASSUME BoundAssumption ==
    /\ MaxAttempts \in Nat \ {0}
    /\ Limit \in Nat
    /\ LeaseTTL \in Nat \ {0}
    /\ MaxEpoch \in Nat
    /\ MaxGen \in Nat \ {0}
    /\ MaxUndue \in Nat

VARIABLES
    runState,   \* commander_runs.state
    stepState,  \* commander_steps.state
    attempt,    \* commander_steps.attempt
    epoch,      \* commander_steps.fencing_epoch
    due,        \* commander_steps.scheduled_at <= now
    lease,      \* the lease columns of a step: {} or the one lease in force
    ttl,        \* lease_expires_at - now, 0 once expired
    usage,      \* commander_tenant_execution_usage.running_steps
    paused,     \* commander_tenant_execution_control.paused
    gen,        \* commander_workers.generation
    active,     \* commander_workers.status = 'ACTIVE'
    effect,     \* the forward effect of a step (one, by a unique index)
    effEpoch,   \* commander_effects.lease_fencing_epoch
    receipt,    \* an evidence receipt bound to the effect's final state exists
    claiming,   \* the claim transaction in flight: {} or one claim
    decided,    \* where a reclaim in flight sends a step, which it has locked
    issued,     \* the leases ever handed to workers, stale ones included
    inverse,    \* the state of a compensation step
    undue       \* history: slots released for compensation steps, which take none

stepVars == <<stepState, attempt, epoch, due, lease, ttl, decided>>
effectVars == <<effect, effEpoch, receipt>>
otherVars == <<gen, active, inverse, undue>>
vars == <<runState, stepVars, usage, paused, effectVars, otherVars, claiming, issued>>

-----------------------------------------------------------------------------
(* Effects, leases and claims.                                             *)

\* The state of an effect row; NONE is no row, and ESCALATED is
\* COMPLETION_UNKNOWN with reconcile_disposition ESCALATED (the disposition
\* of COMPLETION_UNKNOWN proper is PENDING).
EffectStates == {"NONE", "ADMITTED", "COMPLETED", "FAILED", "COMPLETION_UNKNOWN",
                 "ESCALATED", "CONFIRMED_NOT_APPLIED"}

\* A lease as the worker holds it.  The token is fresh for every claim, as
\* the epoch is, so the epoch stands for both.
Lease == [step : Steps, worker : Workers, gen : 1..MaxGen, epoch : 1..MaxEpoch]

Claim == [step : Steps, worker : Workers, gen : 1..MaxGen]

Decisions == {"none", "WAITING_FOR_RECONCILIATION", "RETRY_WAIT", "FAILED"}

\* A compensation step that was parked or lost its lease is WAITING: its
\* request can be claimed again.
InverseStates == {"PENDING", "RUNNING", "WAITING", "SETTLED"}

StepsOf(r) == {s \in Steps : RunOf[s] = r}

Open(st, r) == {s \in StepsOf(r) : st[s] \notin StepTerminal}

Done(st, r) ==
    /\ StepsOf(r) # {}
    /\ \A s \in StepsOf(r) : st[s] \in {"SUCCEEDED", "SKIPPED"}

\* No claim is in flight: a transaction that updates the usage row, the
\* control row or the claimed step waits for the claim's locks.
NoClaim == claiming = {}

Claimed(s) == \E c \in claiming : c.step = s

\* A reclaim in flight has locked s: a transaction that writes or locks the
\* step waits.  (A heartbeat, a completion or an admission that waited finds
\* the lease gone.  If the reclaim rolls back, it is the transaction again.)
Decided(s) == decided[s] # "none"

-----------------------------------------------------------------------------
TypeOK ==
    /\ runState \in [Runs -> RunStates]
    /\ stepState \in [Steps -> StepStates]
    /\ attempt \in [Steps -> 0..MaxEpoch]
    /\ epoch \in [Steps -> 0..MaxEpoch]
    /\ due \in [Steps -> BOOLEAN]
    /\ lease \in [Steps -> SUBSET Lease]
    /\ ttl \in [Steps -> 0..LeaseTTL]
    /\ usage \in Nat
    /\ paused \in BOOLEAN
    /\ gen \in [Workers -> 1..MaxGen]
    /\ active \in [Workers -> BOOLEAN]
    /\ effect \in [Steps -> EffectStates]
    /\ effEpoch \in [Steps -> 0..MaxEpoch]
    /\ receipt \in [Steps -> BOOLEAN]
    /\ claiming \in SUBSET Claim
    /\ decided \in [Steps -> Decisions]
    /\ issued \in SUBSET Lease
    /\ inverse \in [Inverses -> InverseStates]
    /\ undue \in Nat

\* createRun has inserted the runs and their steps, and the workers are registered.
Init ==
    /\ runState = [r \in Runs |-> "PENDING"]
    /\ stepState = [s \in Steps |-> IF s \in Approval THEN "WAITING_FOR_HUMAN" ELSE "PENDING"]
    /\ attempt = [s \in Steps |-> 0]
    /\ epoch = [s \in Steps |-> 0]
    /\ due = [s \in Steps |-> TRUE]
    /\ lease = [s \in Steps |-> {}]
    /\ ttl = [s \in Steps |-> 0]
    /\ usage = 0
    /\ paused = FALSE
    /\ gen = [w \in Workers |-> 1]
    /\ active = [w \in Workers |-> TRUE]
    /\ effect = [s \in Steps |-> "NONE"]
    /\ effEpoch = [s \in Steps |-> 0]
    /\ receipt = [s \in Steps |-> FALSE]
    /\ claiming = {}
    /\ decided = [s \in Steps |-> "none"]
    /\ issued = {}
    /\ inverse = [c \in Inverses |-> "PENDING"]
    /\ undue = 0

-----------------------------------------------------------------------------
(* What the transactions share.                                            *)

\* releaseTenantSlot, n times: running_steps = GREATEST(0, running_steps - 1).
ReleaseSlots(n) == usage' = IF usage > n THEN usage - n ELSE 0

\* Fault: a slot is released for every step of S, RUNNING or not.
ReleaseAll(S) == ReleaseSlots(Cardinality(S))

\* The slots of those steps of S that were RUNNING.
Release(S) == ReleaseSlots(Cardinality({s \in S : stepState[s] = "RUNNING"}))

\* Fault: the effects of the steps that move are forgotten.
ParkNothing(S) == effect' = effect

\* parkOrphanAdmittedEffects for every step of S.
Park(S) ==
    effect' = [s \in Steps |->
                 IF s \in S /\ effect[s] = "ADMITTED" THEN "COMPLETION_UNKNOWN" ELSE effect[s]]

\* lease_worker_id, lease_token and lease_expires_at := NULL for every step of S.
ClearLease(S) ==
    /\ lease' = [s \in Steps |-> IF s \in S THEN {} ELSE lease[s]]
    /\ ttl' = [s \in Steps |-> IF s \in S THEN 0 ELSE ttl[s]]

\* Every consequential effect of the run has its receipt: the negation of
\* hasUnreceiptedConsequentialEffect, and what the trigger on commander_runs
\* demands before the run may become terminal.
EvidenceReady(r) ==
    \A s \in StepsOf(r) \cap ClassA : effect[s] = "NONE" \/ receipt[s]

HasCompletedEffect(r) == \E s \in StepsOf(r) : effect[s] = "COMPLETED"

\* requestCompensationIfNeeded acts: a step of r has failed after some effect
\* of r completed.
Compensates(r, failed) == failed # {} /\ HasCompletedEffect(r)

\* Fault: the run fails without waiting for its evidence.
FailsRunAtOnce(r, st) ==
    /\ \E s \in StepsOf(r) : st[s] = "FAILED"
    /\ runState[r] # "FAILED"

\* finishRunIfTerminal fails the run: it has a FAILED step and its evidence.
FailsRun(r, st) ==
    /\ \E s \in StepsOf(r) : st[s] = "FAILED"
    /\ EvidenceReady(r)
    /\ runState[r] # "FAILED"

\* The state of r once a transaction has brought its steps to st and has
\* failed those in failed.
RunAfter(r, st, failed) ==
    CASE Compensates(r, failed) -> "COMPENSATING"
      [] ~Compensates(r, failed) /\ FailsRun(r, st) -> "FAILED"
      [] ~Compensates(r, failed) /\ Done(st, r) /\ EvidenceReady(r) -> "SUCCEEDED"
      [] OTHER -> runState[r]

\* Fault: a run that closes leaves its open steps alone.
CancelsNothing(r, st, failed) == {}

\* The steps that cancelOpenStepsForTerminalRun cancels on the way.
CancelledWith(r, st, failed) ==
    IF Compensates(r, failed) \/ FailsRun(r, st) THEN Open(st, r) ELSE {}

\* Steps leave RUNNING and their run stays as it is: every step that moved
\* gives back its slot and its lease and has its unfinished effect parked.
MoveSteps(moved, st) ==
    /\ stepState' = st
    /\ Release(moved)
    /\ Park(moved)
    /\ ClearLease(moved)
    /\ UNCHANGED runState

\* The tail of the transactions that end a step of r: the run follows, its
\* open steps are cancelled if it closes, and every step that moved gives
\* back its slot and its lease and has its unfinished effect parked.  The
\* transaction locks all steps of r: it waits for a reclaim that holds one.
EndSteps(r, moved, st, failed) ==
    LET target == RunAfter(r, st, failed)
        cancelled == CancelledWith(r, st, failed)
    IN  /\ \A s \in StepsOf(r) \ moved : ~Decided(s)
        /\ target # runState[r] => RunTransition(runState[r], target)
        /\ runState' = [runState EXCEPT ![r] = target]
        /\ stepState' = [s \in Steps |-> IF s \in cancelled THEN "CANCELLED" ELSE st[s]]
        /\ Release(moved \cup cancelled)
        /\ Park(moved \cup cancelled)
        /\ ClearLease(moved \cup cancelled)

\* The WHERE clause that fences every write of a worker: step RUNNING, all
\* lease columns equal to the presented lease, worker row of that generation.
Holds(l) ==
    /\ stepState[l.step] = "RUNNING"
    /\ l \in lease[l.step]
    /\ gen[l.worker] = l.gen

\* ... and lease_expires_at > now().
HoldsLive(l) == Holds(l) /\ ttl[l.step] > 0

-----------------------------------------------------------------------------
(* Claiming a step.                                                        *)

\* Fault: the candidate query ignores the prerequisites.
ClaimableUnordered(s, w) ==
    /\ stepState[s] \in {"PENDING", "RETRY_WAIT"} /\ due[s]
    /\ runState[RunOf[s]] \in {"PENDING", "RUNNING"}
    /\ active[w]
    /\ ~paused
    /\ usage < Limit

\* Fault: the candidate query does not look at the run.
ClaimableInPausedRun(s, w) ==
    /\ stepState[s] \in {"PENDING", "RETRY_WAIT"} /\ due[s]
    /\ active[w]
    /\ ~paused
    /\ usage < Limit
    /\ \A d \in Deps[s] : stepState[d] \in {"SUCCEEDED", "SKIPPED"}

\* The candidate query of claimNextStep.  SKIP LOCKED on the usage row means
\* that a second claim of the tenant finds no candidate.
Claimable(s, w) ==
    /\ stepState[s] \in {"PENDING", "RETRY_WAIT"} /\ due[s]
    /\ runState[RunOf[s]] \in {"PENDING", "RUNNING"}
    /\ active[w]
    /\ ~paused
    /\ usage < Limit
    /\ \A d \in Deps[s] : stepState[d] \in {"SUCCEEDED", "SKIPPED"}

\* SELECT ... FOR UPDATE OF s, u, c SKIP LOCKED LIMIT 1.
BeginClaim(s, w) ==
    /\ NoClaim
    /\ Claimable(s, w)
    /\ epoch[s] < MaxEpoch
    /\ claiming' = {[step |-> s, worker |-> w, gen |-> gen[w]]}
    /\ UNCHANGED <<runState, stepVars, usage, paused, otherVars, effectVars, issued>>

\* Fault: the claim hands out epoch + 1 but does not store it.
CommitClaimKeepingEpoch(c) ==
    LET s == c.step
        r == RunOf[s]
        l == [step |-> s, worker |-> c.worker, gen |-> c.gen, epoch |-> epoch[s] + 1]
    IN  /\ c \in claiming
        /\ stepState' = [stepState EXCEPT ![s] = "RUNNING"]
        /\ attempt' = [attempt EXCEPT ![s] = @ + 1]
        /\ lease' = [lease EXCEPT ![s] = {l}]
        /\ ttl' = [ttl EXCEPT ![s] = LeaseTTL]
        /\ usage' = usage + 1
        /\ runState' = [runState EXCEPT ![r] = IF @ = "PENDING" THEN "RUNNING" ELSE @]
        /\ issued' = issued \cup {l}
        /\ claiming' = {}
        /\ UNCHANGED <<epoch, due, paused, otherVars, effectVars, decided>>

\* The updates of claimNextStep and its COMMIT.  The run moves to RUNNING
\* only if it still is PENDING.
CommitClaim(c) ==
    LET s == c.step
        r == RunOf[s]
        l == [step |-> s, worker |-> c.worker, gen |-> c.gen, epoch |-> epoch[s] + 1]
    IN  /\ c \in claiming
        /\ stepState' = [stepState EXCEPT ![s] = "RUNNING"]
        /\ attempt' = [attempt EXCEPT ![s] = @ + 1]
        /\ epoch' = [epoch EXCEPT ![s] = @ + 1]
        /\ lease' = [lease EXCEPT ![s] = {l}]
        /\ ttl' = [ttl EXCEPT ![s] = LeaseTTL]
        /\ usage' = usage + 1
        /\ runState' = [runState EXCEPT ![r] = IF @ = "PENDING" THEN "RUNNING" ELSE @]
        /\ issued' = issued \cup {l}
        /\ claiming' = {}
        /\ UNCHANGED <<due, paused, otherVars, effectVars, decided>>

\* The claim transaction fails or its connection is lost: ROLLBACK.
RollbackClaim ==
    /\ claiming # {}
    /\ claiming' = {}
    /\ UNCHANGED <<runState, stepVars, usage, paused, otherVars, effectVars, issued>>

-----------------------------------------------------------------------------
(* What the holder of a lease does to its step.                            *)

\* Fault: the heartbeat does not compare the worker's generation.
HeartbeatStepAnyGeneration(l) ==
    /\ stepState[l.step] = "RUNNING" /\ l \in lease[l.step] /\ ttl[l.step] > 0
    /\ ttl' = [ttl EXCEPT ![l.step] = LeaseTTL]
    /\ UNCHANGED <<runState, stepState, attempt, epoch, due, lease, usage, paused,
                   otherVars, effectVars, decided, claiming, issued>>

\* heartbeatStep extends a live lease to now + TTL.
HeartbeatStep(l) ==
    /\ HoldsLive(l)
    /\ ttl' = [ttl EXCEPT ![l.step] = LeaseTTL]
    /\ UNCHANGED <<runState, stepState, attempt, epoch, due, lease, usage, paused,
                   otherVars, effectVars, decided, claiming, issued>>

CompleteStep(l) ==
    LET s == l.step
        st == [stepState EXCEPT ![s] = "SUCCEEDED"]
    IN  /\ NoClaim
        /\ HoldsLive(l)
        /\ EndSteps(RunOf[s], {s}, st, {})
        /\ UNCHANGED <<attempt, epoch, due, paused, otherVars, effEpoch, receipt, decided, claiming, issued>>

\* failStep: a retryable error with a retryAt (in the future) and attempts
\* left schedules a retry, any other error fails the step.  A worker that
\* gives a step back unexecuted asks for its attempt to be refunded.
FailStep(l, retryable, refund) ==
    LET s == l.step
        counted == IF refund /\ attempt[s] > 0 THEN attempt[s] - 1 ELSE attempt[s]
        retry == retryable /\ counted < MaxAttempts
    IN  /\ NoClaim
        /\ HoldsLive(l)
        /\ attempt' = [attempt EXCEPT ![s] = counted]
        /\ due' = [due EXCEPT ![s] = IF retry THEN FALSE ELSE @]
        /\ IF retry
           THEN MoveSteps({s}, [stepState EXCEPT ![s] = "RETRY_WAIT"])
           ELSE EndSteps(RunOf[s], {s}, [stepState EXCEPT ![s] = "FAILED"], {s})
        /\ UNCHANGED <<epoch, paused, otherVars, effEpoch, receipt, decided, claiming, issued>>

-----------------------------------------------------------------------------
(* What the kernel's daemons do to steps.                                  *)

\* Time passes for the lease of s.
Elapse(s) ==
    /\ ttl[s] > 0
    /\ ttl' = [ttl EXCEPT ![s] = @ - 1]
    /\ UNCHANGED <<runState, stepState, attempt, epoch, due, lease, usage, paused,
                   otherVars, effectVars, decided, claiming, issued>>

\* Fault: any effect, settled or not, sends the step to reconciliation.
ReclaimedAnyEffect(s) ==
    CASE effect[s] # "NONE" -> "WAITING_FOR_RECONCILIATION"
      [] effect[s] = "NONE" /\ attempt[s] < MaxAttempts -> "RETRY_WAIT"
      [] OTHER -> "FAILED"

\* Where reclaimExpiredLeases sends a step.
Reclaimed(s) ==
    CASE effect[s] = "ADMITTED" -> "WAITING_FOR_RECONCILIATION"
      [] effect[s] # "ADMITTED" /\ attempt[s] < MaxAttempts -> "RETRY_WAIT"
      [] OTHER -> "FAILED"

\* The first statement of reclaimExpiredLeases locks an expired step (FOR
\* UPDATE SKIP LOCKED) and decides where it goes.  Nobody else sees that yet.
BeginReclaim(s) ==
    /\ stepState[s] = "RUNNING" /\ ttl[s] = 0
    /\ ~Decided(s)
    /\ decided' = [decided EXCEPT ![s] = Reclaimed(s)]
    /\ UNCHANGED <<runState, stepState, attempt, epoch, due, lease, ttl, usage, paused,
                   otherVars, effectVars, claiming, issued>>

\* The rest of it, and its COMMIT, for a batch of steps: the decisions are
\* carried out as they were taken, and what is still ADMITTED is parked.
\* Batches that span runs are batches of each run in turn.
CommitReclaim(r, batch) ==
    LET st == [s \in Steps |-> IF s \in batch THEN decided[s] ELSE stepState[s]]
        failed == {s \in batch : decided[s] = "FAILED"}
    IN  /\ NoClaim
        /\ batch # {}
        /\ \A s \in batch : RunOf[s] = r /\ Decided(s)
        /\ decided' = [s \in Steps |-> IF s \in batch THEN "none" ELSE decided[s]]
        /\ due' = [s \in Steps |-> (s \in batch /\ decided[s] = "RETRY_WAIT") \/ due[s]]
        /\ IF failed = {} THEN MoveSteps(batch, st) ELSE EndSteps(r, batch, st, failed)
        /\ UNCHANGED <<attempt, epoch, paused, otherVars, effEpoch, receipt, claiming, issued>>

\* The scheduler dies, or its transaction is the victim of a deadlock.
RollbackReclaim(s) ==
    /\ Decided(s)
    /\ decided' = [decided EXCEPT ![s] = "none"]
    /\ UNCHANGED <<runState, stepState, attempt, epoch, due, lease, ttl, usage, paused,
                   otherVars, effectVars, claiming, issued>>

\* scheduled_at is reached, or a retry timer calls wakeRetryStep.
WakeRetryStep(s) ==
    /\ stepState[s] = "RETRY_WAIT"
    /\ ~due[s]
    /\ ~Claimed(s)
    /\ due' = [due EXCEPT ![s] = TRUE]
    /\ UNCHANGED <<runState, stepState, attempt, epoch, lease, ttl, usage, paused,
                   otherVars, effectVars, decided, claiming, issued>>

\* failStepByTimer: a deadline timer fails a step wherever it is.
FailStepByTimer(s) ==
    /\ NoClaim
    /\ stepState[s] \notin StepTerminal
    /\ StepTransition(stepState[s], "FAILED")
    /\ ~Decided(s)
    /\ EndSteps(RunOf[s], {s}, [stepState EXCEPT ![s] = "FAILED"], {s})
    /\ UNCHANGED <<attempt, epoch, due, paused, otherVars, effEpoch, receipt, decided, claiming, issued>>

-----------------------------------------------------------------------------
(* What operators do.                                                      *)

\* pauseRun locks the run row only, and its UPDATE of the RUNNING steps does
\* not see a claim that has not committed: it may run while one is in flight.
\* (If it has slots to release it commits after the claim, on the usage row's
\* lock, but from the steps it saw before: the two orders end alike.)
PauseRun(r) ==
    LET running == {s \in StepsOf(r) : stepState[s] = "RUNNING"}
    IN  /\ runState[r] \in {"PENDING", "RUNNING"}
        /\ \A s \in running : ~Decided(s)
        /\ runState' = [runState EXCEPT ![r] = "PAUSED"]
        /\ stepState' = [s \in Steps |-> IF s \in running THEN "RETRY_WAIT" ELSE stepState[s]]
        /\ Release(running)
        /\ Park(running)
        /\ ClearLease(running)
        /\ UNCHANGED <<attempt, epoch, due, paused, otherVars, effEpoch, receipt, decided, claiming, issued>>

ResumeRun(r) ==
    /\ runState[r] = "PAUSED"
    /\ runState' = [runState EXCEPT ![r] = "RUNNING"]
    /\ UNCHANGED <<stepVars, usage, paused, otherVars, effectVars, claiming, issued>>

\* cancelRun.  The evidence trigger suppresses its UPDATE of the run when a
\* consequential effect has no receipt, and then nothing changes.
CancelRun(r) ==
    LET open == Open(stepState, r)
    IN  /\ NoClaim
        /\ \A s \in open : ~Decided(s)
        /\ runState[r] \in {"PENDING", "RUNNING", "PAUSED"}
        /\ EvidenceReady(r)
        /\ runState' = [runState EXCEPT ![r] = "CANCELLED"]
        /\ stepState' = [s \in Steps |-> IF s \in open THEN "CANCELLED" ELSE stepState[s]]
        /\ Release(open)
        /\ Park(open)
        /\ ClearLease(open)
        /\ UNCHANGED <<attempt, epoch, due, paused, otherVars, effEpoch, receipt, decided, claiming, issued>>

\* Fault: the pause does not wait for a claim in flight.
PauseTenantUnlocked ==
    LET running == {s \in Steps : stepState[s] = "RUNNING"}
        undoing == {c \in Inverses : inverse[c] = "RUNNING"}
    IN  /\ \A s \in running : ~Decided(s)
        /\ paused' = TRUE
        /\ stepState' = [s \in Steps |-> IF s \in running THEN "RETRY_WAIT" ELSE stepState[s]]
        /\ inverse' = [c \in Inverses |-> IF c \in undoing THEN "WAITING" ELSE inverse[c]]
        /\ due' = [s \in Steps |-> s \in running \/ due[s]]
        /\ ReleaseSlots(Cardinality(running) + Cardinality(undoing))
        /\ undue' = undue + Cardinality(undoing)
        /\ Park(running)
        /\ ClearLease(running)
        /\ UNCHANGED <<runState, attempt, epoch, gen, active, effEpoch, receipt, decided,
                       claiming, issued>>

\* pauseTenant updates the control row, which a claim in flight has locked,
\* and releases a slot for every RUNNING step, compensation steps included.
PauseTenant ==
    LET running == {s \in Steps : stepState[s] = "RUNNING"}
        undoing == {c \in Inverses : inverse[c] = "RUNNING"}
    IN  /\ NoClaim
        /\ \A s \in running : ~Decided(s)
        /\ paused' = TRUE
        /\ stepState' = [s \in Steps |-> IF s \in running THEN "RETRY_WAIT" ELSE stepState[s]]
        /\ inverse' = [c \in Inverses |-> IF c \in undoing THEN "WAITING" ELSE inverse[c]]
        /\ due' = [s \in Steps |-> s \in running \/ due[s]]
        /\ ReleaseSlots(Cardinality(running) + Cardinality(undoing))
        /\ undue' = undue + Cardinality(undoing)
        /\ Park(running)
        /\ ClearLease(running)
        /\ UNCHANGED <<runState, attempt, epoch, gen, active, effEpoch, receipt, decided,
                       claiming, issued>>

ResumeTenant ==
    /\ NoClaim
    /\ paused' = FALSE
    /\ UNCHANGED <<runState, stepVars, usage, otherVars, effectVars, claiming, issued>>

\* Fault: the answer releases the step without looking at its state.
AnswerInteractionAnyStep(s) ==
    /\ stepState[s] \notin StepTerminal
    /\ stepState' = [stepState EXCEPT ![s] = "RETRY_WAIT"]
    /\ due' = [due EXCEPT ![s] = TRUE]
    /\ ClearLease({s})
    /\ UNCHANGED <<runState, attempt, epoch, usage, paused, otherVars, effectVars, decided, claiming, issued>>

\* answerInteraction with releaseStep: a step that waits for a human is
\* scheduled again.  createInteraction can open a prompt for any step, so an
\* answerable one is taken to exist.
AnswerInteraction(s) ==
    /\ stepState[s] = "WAITING_FOR_HUMAN"
    /\ stepState' = [stepState EXCEPT ![s] = "RETRY_WAIT"]
    /\ due' = [due EXCEPT ![s] = TRUE]
    /\ ClearLease({s})
    /\ UNCHANGED <<runState, attempt, epoch, usage, paused, otherVars, effectVars, decided, claiming, issued>>

-----------------------------------------------------------------------------
(* Effects, as the lease holder records them.                              *)

\* admit_class_a_effect and admit_non_class_a_effect insert the row; the
\* worker must also be ACTIVE.  That the operations workers are alive is a
\* condition on the environment that may hold at any time.
AdmitEffect(l) ==
    /\ HoldsLive(l)
    /\ active[l.worker]
    /\ effect[l.step] = "NONE"
    /\ effect' = [effect EXCEPT ![l.step] = "ADMITTED"]
    /\ effEpoch' = [effEpoch EXCEPT ![l.step] = l.epoch]
    /\ UNCHANGED <<runState, stepVars, usage, paused, otherVars, receipt, claiming, issued>>

\* The WHERE clause of completeEffect and failEffect reads the step without
\* locking it, and compares the lease with now(), the begin of the transaction:
\* while a reclaim is in flight, its step still looks RUNNING, and a transaction
\* that began before the lease expired still finds the lease alive.
HoldsAtBegin(l) == Holds(l) /\ (ttl[l.step] > 0 \/ Decided(l.step))

\* completeEffect, or completeEffectWithEvidence when evidence is TRUE.
CompleteEffect(l, evidence) ==
    /\ HoldsAtBegin(l)
    /\ effect[l.step] = "ADMITTED"
    /\ effect' = [effect EXCEPT ![l.step] = "COMPLETED"]
    /\ receipt' = [receipt EXCEPT ![l.step] = evidence]
    /\ UNCHANGED <<runState, stepVars, usage, paused, otherVars, effEpoch, claiming, issued>>

\* failEffect, or failEffectWithEvidence when evidence is TRUE.
FailEffect(l, evidence) ==
    /\ HoldsAtBegin(l)
    /\ effect[l.step] = "ADMITTED"
    /\ effect' = [effect EXCEPT ![l.step] = "FAILED"]
    /\ receipt' = [receipt EXCEPT ![l.step] = evidence]
    /\ UNCHANGED <<runState, stepVars, usage, paused, otherVars, effEpoch, claiming, issued>>

\* The effect's outcome is unknown: its step waits for reconciliation.
HandToReconciler(s) ==
    /\ NoClaim
    /\ ~Decided(s)
    /\ runState[RunOf[s]] = "RUNNING"
    /\ effect[s] = "ADMITTED"
    /\ MoveSteps({s}, [stepState EXCEPT ![s] = "WAITING_FOR_RECONCILIATION"])
    /\ UNCHANGED <<attempt, epoch, due, paused, otherVars, effEpoch, receipt, decided, claiming, issued>>

MarkEffectCompletionUnknown(l) == HoldsLive(l) /\ HandToReconciler(l.step)

\* park_effect_completion_unknown_v1: the lease may have expired, the worker
\* must be ACTIVE and the effect admitted under this very lease.
ParkEffectCompletionUnknown(l) ==
    /\ Holds(l)
    /\ active[l.worker]
    /\ effEpoch[l.step] = l.epoch
    /\ HandToReconciler(l.step)

\* appendEvidence: the receipt of a settled effect is stored on its own.
AppendEvidence(s) ==
    /\ effect[s] \in {"COMPLETED", "FAILED"}
    /\ ~receipt[s]
    /\ receipt' = [receipt EXCEPT ![s] = TRUE]
    /\ UNCHANGED <<runState, stepVars, usage, paused, otherVars, effect, effEpoch, claiming, issued>>

-----------------------------------------------------------------------------
(* Reconciliation, by the holder of the effect's reconcile claim.          *)

\* Fault: the mutation does not lock the step.
ReconcilableUnlocked(s) ==
    /\ effect[s] = "COMPLETION_UNKNOWN"
    /\ stepState[s] \notin StepTerminal
    /\ runState[RunOf[s]] \notin RunTerminal

\* Fault: STEP_TERMINAL_RACE is not checked.
ReconcilableTerminal(s) ==
    /\ ~Claimed(s) /\ ~Decided(s)
    /\ effect[s] = "COMPLETION_UNKNOWN"
    /\ runState[RunOf[s]] \notin RunTerminal

\* The checks of apply_reconcile_effect_mutation_v1 that concern the step
\* and the run; they hold no lease, and the step may be in any open state.
Reconcilable(s) ==
    /\ ~Claimed(s) /\ ~Decided(s)
    /\ effect[s] = "COMPLETION_UNKNOWN"
    /\ stepState[s] \notin StepTerminal
    /\ runState[RunOf[s]] \notin RunTerminal

\* The mutation's common part: the effect and the step are settled with
\* their receipt; the lease columns and the usage row are not touched.  When
\* the steps let the run end, its UPDATE passes the evidence trigger or is void.
Reconcile(s, effectTo, stepTo, runMayEnd, runTo) ==
    LET r == RunOf[s]
        ready == \A x \in (StepsOf(r) \cap ClassA) \ {s} : effect[x] = "NONE" \/ receipt[x]
        ends == runState[r] = "RUNNING" /\ runMayEnd /\ ready
    IN  /\ Reconcilable(s)
        /\ effect' = [effect EXCEPT ![s] = effectTo]
        /\ receipt' = [receipt EXCEPT ![s] = TRUE]
        /\ stepState' = [stepState EXCEPT ![s] = stepTo]
        /\ runState' = [runState EXCEPT ![r] = IF ends THEN runTo ELSE @]
        /\ UNCHANGED <<attempt, epoch, due, lease, ttl, usage, paused, otherVars,
                       effEpoch, decided, claiming, issued>>

\* Fault: the run succeeds when no step is open, failed ones or not.
CompleteReconciledEffectLoosely(s) ==
    Reconcile(s, "COMPLETED", "SUCCEEDED",
              Open([stepState EXCEPT ![s] = "SUCCEEDED"], RunOf[s]) = {}, "SUCCEEDED")

\* COMPLETE: the remote system says the effect was applied.
CompleteReconciledEffect(s) ==
    Reconcile(s, "COMPLETED", "SUCCEEDED",
              Done([stepState EXCEPT ![s] = "SUCCEEDED"], RunOf[s]), "SUCCEEDED")

\* CONFIRM_NOT_APPLIED: the remote system says it was not.
ConfirmNotApplied(s) ==
    Reconcile(s, "CONFIRMED_NOT_APPLIED", "FAILED",
              Open([stepState EXCEPT ![s] = "FAILED"], RunOf[s]) = {}, "FAILED")

\* ESCALATE, and the RESCHEDULE that exhausts the attempts or the deadline.
EscalateReconcile(s) ==
    Reconcile(s, "ESCALATED", "WAITING_FOR_HUMAN", FALSE, "RUNNING")

\* The compensation that requestCompensationIfNeeded asked for has finished:
\* its terminal mutation ends the original run, if the trigger lets it.
SettleCompensation(r) ==
    /\ runState[r] = "COMPENSATING"
    /\ EvidenceReady(r)
    /\ \E target \in {"COMPENSATED", "FAILED"} : runState' = [runState EXCEPT ![r] = target]
    /\ UNCHANGED <<stepVars, usage, paused, otherVars, effectVars, claiming, issued>>

-----------------------------------------------------------------------------
(* The compensation steps, as far as the usage row knows them.             *)

\* claim_compensation_request starts the step (or starts it again, once its
\* claim has expired): it reads neither the usage row nor the control row.
ClaimInverse(c) ==
    /\ inverse[c] \in {"PENDING", "WAITING"}
    /\ undue < MaxUndue
    /\ inverse' = [inverse EXCEPT ![c] = "RUNNING"]
    /\ UNCHANGED <<runState, stepVars, usage, paused, effectVars, gen, active, claiming, issued,
                   undue>>

\* Its finalization, its park and its escalation leave the usage row alone.
SettleInverse(c) ==
    /\ inverse[c] \in {"RUNNING", "WAITING"}
    /\ \E to \in {"WAITING", "SETTLED"} : inverse' = [inverse EXCEPT ![c] = to]
    /\ UNCHANGED <<runState, stepVars, usage, paused, effectVars, gen, active, claiming, issued,
                   undue>>

\* reclaimExpiredLeases (a deadline timer would, too) takes a RUNNING
\* compensation step like any other: it releases a slot for it.
RetireInverse(c) ==
    /\ NoClaim
    /\ inverse[c] = "RUNNING"
    /\ inverse' = [inverse EXCEPT ![c] = "WAITING"]
    /\ ReleaseSlots(1)
    /\ undue' = undue + 1
    /\ UNCHANGED <<runState, stepVars, paused, effectVars, gen, active, claiming, issued>>

-----------------------------------------------------------------------------
(* Workers.                                                                *)

\* register_worker: a restarted worker registers again under a new generation.
RegisterWorker(w) ==
    /\ gen[w] < MaxGen
    /\ gen' = [gen EXCEPT ![w] = @ + 1]
    /\ active' = [active EXCEPT ![w] = TRUE]
    /\ UNCHANGED <<runState, stepVars, usage, paused, inverse, undue, effectVars, claiming, issued>>

DrainWorker(w) ==
    /\ active[w]
    /\ active' = [active EXCEPT ![w] = FALSE]
    /\ UNCHANGED <<runState, stepVars, usage, paused, gen, inverse, undue, effectVars, claiming, issued>>

-----------------------------------------------------------------------------
\* A worker may present any lease it was ever given, at any time.
WorkerNext ==
    \E l \in issued :
        \/ HeartbeatStep(l)
        \/ CompleteStep(l)
        \/ \E retryable, refund \in BOOLEAN : FailStep(l, retryable, refund)
        \/ AdmitEffect(l)
        \/ \E evidence \in BOOLEAN : CompleteEffect(l, evidence) \/ FailEffect(l, evidence)
        \/ MarkEffectCompletionUnknown(l)
        \/ ParkEffectCompletionUnknown(l)

ClaimNext ==
    \/ \E s \in Steps, w \in Workers : BeginClaim(s, w)
    \/ \E c \in claiming : CommitClaim(c)
    \/ RollbackClaim
    \/ \E w \in Workers : RegisterWorker(w) \/ DrainWorker(w)

DaemonNext ==
    \/ \E r \in Runs : \E batch \in SUBSET StepsOf(r) : CommitReclaim(r, batch)
    \/ \E s \in Steps :
          \/ BeginReclaim(s) \/ RollbackReclaim(s)
          \/ Elapse(s)
          \/ WakeRetryStep(s)
          \/ FailStepByTimer(s)
          \/ AppendEvidence(s)
          \/ CompleteReconciledEffect(s)
          \/ ConfirmNotApplied(s)
          \/ EscalateReconcile(s)
    \/ \E r \in Runs : SettleCompensation(r)

OperatorNext ==
    \/ \E r \in Runs : PauseRun(r) \/ ResumeRun(r) \/ CancelRun(r)
    \/ PauseTenant
    \/ ResumeTenant
    \/ \E s \in Steps : AnswerInteraction(s)

InverseNext == \E c \in Inverses : ClaimInverse(c) \/ SettleInverse(c) \/ RetireInverse(c)

Next == WorkerNext \/ ClaimNext \/ DaemonNext \/ OperatorNext \/ InverseNext

Spec == Init /\ [][Next]_vars

-----------------------------------------------------------------------------
(* Properties.                                                             *)

\* No admitted effect is left behind: an ADMITTED row belongs to a step that
\* is RUNNING under the very claim that admitted it.  Every path that takes a
\* step away from its worker must park the effect, or the next worker would
\* find an admission it cannot tell from its own.
NoOrphanAdmission ==
    \A s \in Steps : effect[s] = "ADMITTED" =>
        /\ stepState[s] = "RUNNING"
        /\ effEpoch[s] = epoch[s]

\* A step that waits for reconciliation can be settled by the reconciler, also
\* in a run that was paused meanwhile: nothing else would ever move it.  The
\* exception is a step whose effect was completed or failed, under its latest
\* claim, while a reclaim that had decided for the reconciler was in flight:
\* the effect is settled and the step waits for ever.
ReconciliationHasWork ==
    \A s \in Steps : stepState[s] = "WAITING_FOR_RECONCILIATION" =>
        \/ Reconcilable(s)
        \/ effect[s] \in {"COMPLETED", "FAILED"} /\ effEpoch[s] = epoch[s]

\* A run that the kernel has ended or taken to compensation has no open step,
\* so no worker can act for it any more.  (A compensation request that is
\* claimed while the run is RUNNING is outside this module: Compensation.)
ClosedRunIsQuiet ==
    \A s \in Steps :
        runState[RunOf[s]] \in RunTerminal \cup {"COMPENSATING"} => stepState[s] \in StepTerminal

\* A run ends only with a receipt for every consequential effect, and keeps
\* that evidence complete for ever.
TerminalRunHasEvidence ==
    \A r \in Runs : runState[r] \in RunTerminal => EvidenceReady(r)

\* A succeeded run has succeeded steps only.
SucceededRunIsDone ==
    \A r \in Runs : runState[r] = "SUCCEEDED" => Done(stepState, r)

\* No step of a paused tenant runs: the claim holds the control row's lock.
\* Compensation steps are excepted (and are not in Steps): their claim does
\* not look at the control row, so one may start while the tenant is paused.
PausedTenantIsIdle ==
    paused => \A s \in Steps : stepState[s] # "RUNNING"

Running == {s \in Steps : stepState[s] = "RUNNING"}

\* The step runs, or is about to.
Engaged(s) == stepState[s] = "RUNNING" \/ Claimed(s)

\* A paused run comes to rest: the pause stops its RUNNING steps and no claim
\* chooses another, so that at most one step of it ever runs on, the one whose
\* claim was in flight when the run was paused.
PausedRunStops ==
    \A r \in Runs : runState[r] = "PAUSED" =>
        \A s, x \in StepsOf(r) : Engaged(s) /\ Engaged(x) => s = x

\* The usage counter falls below the number of RUNNING steps only by the slots
\* that were released for compensation steps, which had taken none, and never
\* passes the limit: beyond the limit a tenant runs as many steps at most.
TenantWithinLimit ==
    /\ Cardinality(Running) <= usage + undue
    /\ usage <= Limit

\* A step runs under exactly one lease, that of its latest claim.
RunningUnderLatestClaim ==
    \A s \in Running : \E l \in issued : lease[s] = {l} /\ l.step = s /\ l.epoch = epoch[s]

\* What claimNextStep read when it chose its candidate still holds when it
\* commits: the locks it takes on the step, the usage row and the control row
\* protect all of it, except that the run may have been paused meanwhile.
ClaimStillValid ==
    \A c \in claiming :
        /\ stepState[c.step] \in {"PENDING", "RETRY_WAIT"}
        /\ epoch[c.step] < MaxEpoch
        /\ runState[RunOf[c.step]] \in {"PENDING", "RUNNING", "PAUSED"}
        /\ ~paused
        /\ usage < Limit
        /\ \A d \in Deps[c.step] : stepState[d] \in {"SUCCEEDED", "SKIPPED"}

\* The claim's locks on the usage row and the control row let one claim of the
\* tenant be in flight at a time.
OneClaim == \A c, d \in claiming : c = d

\* A decided step still is as the reclaim found it, but for its effect, which
\* its worker may have settled meanwhile.
DecisionStands ==
    \A s \in Steps : Decided(s) =>
        /\ stepState[s] = "RUNNING" /\ ttl[s] = 0
        /\ IF decided[s] = "WAITING_FOR_RECONCILIATION"
           THEN effect[s] \in {"ADMITTED", "COMPLETED", "FAILED"} /\ effEpoch[s] = epoch[s]
           ELSE effect[s] # "ADMITTED"

\* What a step that waits for reconciliation has for an effect.
WaitsForItsEffect ==
    \A s \in Steps : stepState[s] = "WAITING_FOR_RECONCILIATION" =>
        \/ effect[s] = "COMPLETION_UNKNOWN"
        \/ effect[s] \in {"COMPLETED", "FAILED"} /\ effEpoch[s] = epoch[s]

\* A refund never takes back more attempts than there were claims.
AttemptsWithinClaims == \A s \in Steps : attempt[s] <= epoch[s]

\* A step that was ever claimed has its prerequisites, and keeps them: the
\* claim reads their rows without locking them.
RunsInOrder ==
    \A s \in Steps : epoch[s] > 0 => \A d \in Deps[s] : stepState[d] \in {"SUCCEEDED", "SKIPPED"}

\* The inductive invariant of the kernel.
KernelInv ==
    /\ TypeOK
    /\ ClaimStillValid
    /\ OneClaim
    /\ DecisionStands
    /\ AttemptsWithinClaims
    /\ RunningUnderLatestClaim
    /\ NoOrphanAdmission
    /\ WaitsForItsEffect
    /\ ClosedRunIsQuiet
    /\ TerminalRunHasEvidence
    /\ SucceededRunIsDone
    /\ PausedTenantIsIdle
    /\ PausedRunStops
    /\ RunsInOrder

\* Terminal states are final, for steps and for runs (ADR 002, rule 3): no
\* operation of the kernel leaves them.  The claim of a compensation request
\* does, for the run it undoes (module Compensation).
TerminalIsFinal ==
    [][/\ \A s \in Steps : stepState[s] \in StepTerminal => stepState'[s] = stepState[s]
       /\ \A r \in Runs : runState[r] \in RunTerminal => runState'[r] = runState[r]]_vars

\* Steps change state along STEP_TRANSITIONS, although only some transactions
\* call assertStepTransition and the others write the state in SQL.  The one
\* exception is the mutation that settles the step's unknown effect: it takes
\* the step from whatever open state it is in.
StepsFollowContract ==
    [][\A s \in Steps : stepState'[s] # stepState[s] =>
         \/ StepTransition(stepState[s], stepState'[s])
         \/ effect[s] = "COMPLETION_UNKNOWN" /\ effect'[s] # effect[s]]_vars

-----------------------------------------------------------------------------
(* Progress.  Workers poll, time passes, and the scheduler reclaims on an  *)
(* interval.  A claim and a reclaim hold their locks only for a while and  *)
(* are tried again after a rollback: they commit if they are begun again   *)
(* and again, and whoever waits for them is enabled again and again, hence *)
(* the strong fairness.  Nothing is assumed of the reconciler: its process *)
(* may have drained it, and two daemons may take claims from each other    *)
(* (module Reconcile).                                                     *)

CommitReclaimOf(s) ==
    \E batch \in SUBSET StepsOf(RunOf[s]) : s \in batch /\ CommitReclaim(RunOf[s], batch)

Fairness ==
    /\ SF_vars(\E c \in claiming : CommitClaim(c))
    /\ \A s \in Steps :
         /\ WF_vars(\E w \in Workers : BeginClaim(s, w))
         /\ WF_vars(Elapse(s))
         /\ WF_vars(BeginReclaim(s))
         /\ SF_vars(CommitReclaimOf(s))

FairSpec == Spec /\ Fairness

\* The step's worker can do nothing for it any more: the lease has expired,
\* or the worker has registered anew.
Abandoned(s) ==
    /\ stepState[s] = "RUNNING"
    /\ ttl[s] = 0 \/ \E l \in lease[s] : gen[l.worker] # l.gen

\* An abandoned step does not stay RUNNING: a superseded worker cannot keep
\* its lease alive, and reclaimExpiredLeases can always take an expired step,
\* whatever its run and its effect have come to.
AbandonedIsReclaimed == \A s \in Steps : Abandoned(s) ~> stepState[s] # "RUNNING"

-----------------------------------------------------------------------------
(* What the documentation says and the code does not keep.                 *)

\* A step of the tenant could start, nothing of the tenant is running, and a
\* worker is there to claim it.
Starved(s) ==
    /\ stepState[s] \in {"PENDING", "RETRY_WAIT"} /\ due[s] /\ epoch[s] < MaxEpoch
    /\ runState[RunOf[s]] \in {"PENDING", "RUNNING"}
    /\ \A d \in Deps[s] : stepState[d] \in {"SUCCEEDED", "SKIPPED"}
    /\ ~paused /\ Running = {}
    /\ \E w \in Workers : active[w]

\* claimNextStep: "This prevents starvation": a step that could start while
\* nothing is running is not left waiting for ever.
NoStarvation == \A s \in Steps : ~<>[]Starved(s)

=============================================================================
