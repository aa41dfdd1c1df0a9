---------------------------- MODULE WorkerService ---------------------------
(***************************************************************************)
(* A worker process: the loop that claims steps, the task that executes    *)
(* one under heartbeats and reports its outcome, and the shutdown.         *)
(*                                                                         *)
(* The process is single-threaded, so an action is the code between two    *)
(* awaits, together with the kernel transaction of the awaited call; the   *)
(* transaction of a claim and its answer are two actions, because stop()   *)
(* can come in between.  Any call may throw, before or after it committed. *)
(*                                                                         *)
(* Of the kernel only the columns the program sees are kept, and Kernel's  *)
(* actions on them.  A task belongs to a lease <<s, n>>, the n-th claim of *)
(* step s: the process may claim a step again while a task that lost the   *)
(* earlier lease is still executing.  The abort signal is left out: a      *)
(* handler may ignore it and may end by itself at any time.                *)
(***************************************************************************)
EXTENDS Integers, FiniteSets

CONSTANTS
    Steps,           \* the steps the worker may claim
    Pollers,         \* concurrent callers of pollOnce
    None,            \* null
    MaxConcurrency,  \* maxConcurrency of the worker record
    MaxAttempts,     \* max_attempts of every step
    LeaseTTL,        \* how many Elapse steps a lease lives
    MaxClaims,       \* bound of the model: claims per step
    MaxFaults        \* bound of the model: calls that throw

ASSUME WorkerAssumption ==
    /\ MaxConcurrency \in Nat \ {0}
    /\ MaxAttempts \in Nat \ {0}
    /\ LeaseTTL \in Nat \ {0}
    /\ MaxClaims \in Nat
    /\ MaxFaults \in Nat

Lease == Steps \X (1 .. MaxClaims)

ASSUME NullAssumption == None \notin Lease

\* Where a call of pollOnce is: not made, waiting for a claim, or answered.
Idle == [at |-> "idle", lease |-> None]
Asked == [at |-> "asked", lease |-> None]
Answered(l) == [at |-> "answered", lease |-> l]

VARIABLES
    row,        \* commander_steps, the step's effect (none, or none that is not settled;
                \* ADMITTED; parked: COMPLETION_UNKNOWN), whether the step was ever
                \* paused, and who last ended a lease of it
    registry,   \* the worker's row: active, draining or superseded
    poll,       \* the calls of pollOnce
    task,       \* execute: where the task of a lease is
    lost,       \* the leases whose leaseLost is set
    running,    \* WorkerService.running
    stopping,   \* how far stop() has come
    okay,       \* the leases under which the executor returned a result
    escaped,    \* the leases whose executor ended otherwise than by one of the codes of
                \* reconciliationOwnsStep, although its effect was neither settled nor parked
    faults      \* calls that threw so far

vars == <<row, registry, poll, task, lost, running, stopping, okay, escaped, faults>>

\* What a task does: it executes, it has a result or an error to report.
Busy == {"executing", "returned", "retryable", "fatal", "unknown"}

\* start() has registered the worker.
Init ==
    /\ row = [s \in Steps |-> [state |-> "ready", claims |-> 0, ttl |-> 0, attempt |-> 0,
                               effect |-> "none", paused |-> FALSE, actor |-> "none"]]
    /\ registry = "active"
    /\ poll = [p \in Pollers |-> Idle]
    /\ task = [l \in Lease |-> "none"]
    /\ lost = {}
    /\ running = TRUE
    /\ stopping = "no"
    /\ okay = {}
    /\ escaped = {}
    /\ faults = 0

Active == {l \in Lease : task[l] \in Busy}

Inflight == {p \in Pollers : poll[p] # Idle}

\* The pool is closed: every call throws.
Closed == stopping = "disposed"

\* Fault: only the lease's worker is compared, not its token.
HoldsRowOnly(l) == row[l[1]].state = "running" /\ registry # "superseded"

\* The WHERE clause of the lease holder's writes.
Holds(l) ==
    /\ row[l[1]].state = "running"
    /\ row[l[1]].claims = l[2]
    /\ registry # "superseded"

HoldsLive(l) == Holds(l) /\ row[l[1]].ttl > 0

\* A call throws.
Throws == IF Closed THEN faults' = faults ELSE faults < MaxFaults /\ faults' = faults + 1

\* Every transaction that takes a step out of RUNNING parks its effect.
Parked(e) == IF e = "admitted" THEN "unknown" ELSE e

\* The step of l leaves RUNNING in a transaction of actor.
Leave(l, state, attempt, actor) ==
    row' = [row EXCEPT ![l[1]] = [@ EXCEPT !.state = state, !.ttl = 0, !.attempt = attempt,
                                           !.effect = Parked(row[l[1]].effect),
                                           !.actor = actor]]

-----------------------------------------------------------------------------
(* The claim loop.                                                         *)

\* Fault: claims in flight are not counted.
PollOnceUncounted(p) ==
    /\ running
    /\ poll[p] = Idle
    /\ Cardinality(Active) < MaxConcurrency
    /\ poll' = [poll EXCEPT ![p] = Asked]
    /\ UNCHANGED <<row, registry, task, lost, running, stopping, okay, escaped, faults>>

\* pollOnce up to the call of claimNextStep.
PollOnce(p) ==
    /\ running
    /\ poll[p] = Idle
    /\ Cardinality(Active) + Cardinality(Inflight) < MaxConcurrency
    /\ poll' = [poll EXCEPT ![p] = Asked]
    /\ UNCHANGED <<row, registry, task, lost, running, stopping, okay, escaped, faults>>

\* claimNextStep commits a claim of s.
ClaimNextStep(p, s) ==
    LET l == <<s, row[s].claims + 1>>
    IN  /\ poll[p] = Asked
        /\ registry = "active"
        /\ ~Closed
        /\ row[s].state = "ready"
        /\ row[s].claims < MaxClaims
        /\ row' = [row EXCEPT ![s] = [@ EXCEPT !.state = "running", !.claims = row[s].claims + 1,
                                               !.ttl = LeaseTTL, !.attempt = row[s].attempt + 1]]
        /\ poll' = [poll EXCEPT ![p] = Answered(l)]
        /\ task' = [task EXCEPT ![l] = "claimed"]
        /\ UNCHANGED <<registry, lost, running, stopping, okay, escaped, faults>>

\* There is nothing to claim, or the call throws.
ClaimNothing(p) ==
    /\ poll[p] = Asked
    /\ poll' = [poll EXCEPT ![p] = Idle]
    /\ UNCHANGED <<row, registry, task, lost, running, stopping, okay, escaped, faults>>

\* The answer with the lease arrives, and the worker is still running.
ClaimReturns(p) ==
    /\ poll[p].at = "answered"
    /\ running
    /\ task' = [task EXCEPT ![poll[p].lease] = "executing"]
    /\ poll' = [poll EXCEPT ![p] = Idle]
    /\ UNCHANGED <<row, registry, lost, running, stopping, okay, escaped, faults>>

\* Fault: the attempt of the claim is not refunded.
GiveBackUnrefunded(p) ==
    LET l == poll[p].lease
        retry == row[l[1]].attempt < MaxAttempts
    IN  /\ poll[p].at = "answered"
        /\ ~running
        /\ ~Closed
        /\ IF HoldsLive(l)
           THEN Leave(l, IF retry THEN "ready" ELSE "failed", row[l[1]].attempt, "worker")
           ELSE UNCHANGED row
        /\ task' = [task EXCEPT ![l] = IF HoldsLive(l) THEN "returned to the queue" ELSE "gone"]
        /\ poll' = [poll EXCEPT ![p] = Idle]
        /\ UNCHANGED <<registry, lost, running, stopping, okay, escaped, faults>>

\* stop() raced the claim: failStep with refundAttempt gives the step back.
GiveBack(p) ==
    LET l == poll[p].lease
        counted == row[l[1]].attempt - 1
    IN  /\ poll[p].at = "answered"
        /\ ~running
        /\ ~Closed
        /\ IF HoldsLive(l)
           THEN Leave(l, IF counted < MaxAttempts THEN "ready" ELSE "failed", counted, "worker")
           ELSE UNCHANGED row
        /\ task' = [task EXCEPT ![l] = IF HoldsLive(l) THEN "returned to the queue" ELSE "gone"]
        /\ poll' = [poll EXCEPT ![p] = Idle]
        /\ UNCHANGED <<registry, lost, running, stopping, okay, escaped, faults>>

\* The claim's answer never arrives, or giving the step back throws.
ClaimThrows(p) ==
    /\ poll[p].at = "answered"
    /\ Throws
    /\ task' = [task EXCEPT ![poll[p].lease] = "gone"]
    /\ poll' = [poll EXCEPT ![p] = Idle]
    /\ UNCHANGED <<row, registry, lost, running, stopping, okay, escaped>>

-----------------------------------------------------------------------------
(* A task.                                                                 *)

\* The heartbeat interval of the task fires.  A null answer or an error sets
\* leaseLost.
HeartbeatStep(l) ==
    /\ task[l] \in Busy
    /\ IF HoldsLive(l) /\ ~Closed
       THEN /\ row' = [row EXCEPT ![l[1]].ttl = LeaseTTL]
            /\ UNCHANGED lost
       ELSE /\ lost' = lost \cup {l}
            /\ UNCHANGED row
    /\ UNCHANGED <<registry, poll, task, running, stopping, okay, escaped, faults>>

HeartbeatThrows(l) ==
    /\ task[l] \in Busy
    /\ Throws
    /\ lost' = lost \cup {l}
    /\ UNCHANGED <<row, registry, poll, task, running, stopping, okay, escaped>>

\* The executor's broker admits the effect, unless its outcome is unknown.
AdmitEffect(l) ==
    /\ task[l] = "executing"
    /\ HoldsLive(l)
    /\ ~Closed
    /\ row[l[1]].effect # "unknown"
    /\ row' = [row EXCEPT ![l[1]].effect = "admitted"]
    /\ UNCHANGED <<registry, poll, task, lost, running, stopping, okay, escaped, faults>>

(* The executor ends: it returns, throws one of the codes that             *)
(* reconciliationOwnsStep knows ("unknown"), or another error.  Its effect *)
(* is settled by then, or parked together with the step - or neither,      *)
(* because the call that should have parked it threw or was rejected: the  *)
(* broker writes that to its audit log and the executor ends all the same, *)
(* with the error it had.                                                  *)
ExecutorEnds(l, how) ==
    LET s == l[1]
    IN  /\ task[l] = "executing"
        /\ how = "unknown" => row[s].effect # "none"
        /\ task' = [task EXCEPT ![l] = how]
        /\ okay' = IF how = "returned" THEN okay \cup {l} ELSE okay
        /\ \/ /\ how # "unknown"
              /\ row[s].effect = "none" \/ (row[s].effect = "admitted" /\ HoldsLive(l) /\ ~Closed)
              /\ row' = [row EXCEPT ![s].effect = "none"]
              /\ UNCHANGED escaped
           \/ /\ row[s].effect = "admitted" /\ Holds(l) /\ ~Closed
              /\ Leave(l, "parked", row[s].attempt, "worker")
              /\ UNCHANGED escaped
           \/ /\ row[s].effect # "none"
              /\ escaped' = IF how # "unknown" /\ HoldsLive(l) THEN escaped \cup {l} ELSE escaped
              /\ UNCHANGED row
        /\ UNCHANGED <<registry, poll, lost, running, stopping, faults>>

\* The task is over: its interval is cleared and its slot is free.
Over(l) == task' = [task EXCEPT ![l] = "gone"] /\ lost' = lost \ {l}

(* The executor returned: completeStep, unless the lease is known to be    *)
(* lost.  A fenced call answers null.                                      *)
CompleteStep(l) ==
    /\ task[l] = "returned"
    /\ l \in lost \/ ~Closed
    /\ IF l \notin lost /\ HoldsLive(l)
       THEN Leave(l, "succeeded", row[l[1]].attempt, "worker")
       ELSE UNCHANGED row
    /\ Over(l)
    /\ UNCHANGED <<registry, poll, running, stopping, okay, escaped, faults>>

\* completeStep throws, before or after its commit; the catch block treats
\* this as an error of the executor that is not retryable.
CompleteStepThrows(l) ==
    /\ task[l] = "returned"
    /\ l \notin lost
    /\ Throws
    /\ \/ UNCHANGED row
       \/ HoldsLive(l) /\ ~Closed /\ Leave(l, "succeeded", row[l[1]].attempt, "worker")
    /\ task' = [task EXCEPT ![l] = "fatal"]
    /\ UNCHANGED <<registry, poll, lost, running, stopping, okay, escaped>>

\* Fault: reconciliationOwnsStep is not asked.
ReportsAll(l) == l \notin lost

\* failStep is called: the lease is not known to be lost, and reconciliation
\* does not own the step (reconciliationOwnsStep).
Reports(l) == l \notin lost /\ task[l] # "unknown"

\* The executor threw: failStep, if it is to be called.
FailStep(l) ==
    LET retry == task[l] = "retryable" /\ row[l[1]].attempt < MaxAttempts
    IN  /\ task[l] \in {"retryable", "fatal", "unknown"}
        /\ Reports(l) => ~Closed
        /\ IF Reports(l) /\ HoldsLive(l)
           THEN Leave(l, IF retry THEN "ready" ELSE "failed", row[l[1]].attempt, "worker")
           ELSE UNCHANGED row
        /\ Over(l)
        /\ UNCHANGED <<registry, poll, running, stopping, okay, escaped, faults>>

\* failStep throws and the task ends.
FailStepThrows(l) ==
    /\ task[l] \in {"retryable", "fatal"}
    /\ l \notin lost
    /\ Throws
    /\ Over(l)
    /\ UNCHANGED <<row, registry, poll, running, stopping, okay, escaped>>

-----------------------------------------------------------------------------
(* The worker's registration and its end.                                  *)

\* heartbeat of the registry: null if the worker is not active any more.
RegistryHeartbeat ==
    /\ running
    /\ registry # "active"
    /\ running' = FALSE
    /\ UNCHANGED <<row, registry, poll, task, lost, stopping, okay, escaped, faults>>

\* Another process registers under the same id, or an operator drains it.
LoseRegistration ==
    /\ registry = "active"
    /\ registry' \in {"draining", "superseded"}
    /\ UNCHANGED <<row, poll, task, lost, running, stopping, okay, escaped, faults>>

\* stop() is called for the first time.
Stop ==
    /\ stopping = "no"
    /\ stopping' = "draining"
    /\ running' = FALSE
    /\ UNCHANGED <<row, registry, poll, task, lost, okay, escaped, faults>>

\* registry.drain: only an active worker's row is changed.
DrainWorker ==
    /\ stopping = "draining"
    /\ registry' = IF registry = "active" THEN "draining" ELSE registry
    /\ stopping' = "waiting"
    /\ UNCHANGED <<row, poll, task, lost, running, okay, escaped, faults>>

\* registry.drain throws: stop() rejects, and every later stop() returns at once.
DrainThrows ==
    /\ stopping = "draining"
    /\ Throws
    /\ stopping' = "rejected"
    /\ UNCHANGED <<row, registry, poll, task, lost, running, okay, escaped>>

\* Fault: the drain has no deadline.
DisposeWhenIdle ==
    /\ stopping = "waiting"
    /\ Active = {}
    /\ stopping' = "disposed"
    /\ UNCHANGED <<row, registry, poll, task, lost, running, okay, escaped, faults>>

(* The active tasks have settled or the drain timeout has passed: onDispose*)
(* closes the pool.  Claims in flight are not waited for.                  *)
Dispose ==
    /\ stopping = "waiting"
    /\ stopping' = "disposed"
    /\ UNCHANGED <<row, registry, poll, task, lost, running, okay, escaped, faults>>

-----------------------------------------------------------------------------
(* The rest of the kernel.                                                 *)

Elapse(s) ==
    /\ row[s].ttl > 0
    /\ row' = [row EXCEPT ![s].ttl = @ - 1]
    /\ UNCHANGED <<registry, poll, task, lost, running, stopping, okay, escaped, faults>>

\* In one step here.  A completion of the effect that overtakes it (module
\* Kernel) leaves a parked step without an unsettled effect.
ReclaimExpiredLeases(s) ==
    /\ row[s].state = "running"
    /\ row[s].ttl = 0
    /\ row' = [row EXCEPT ![s].actor = "kernel",
                          ![s].effect = Parked(@),
                          ![s].state = IF row[s].effect = "admitted" THEN "parked"
                                       ELSE IF row[s].attempt < MaxAttempts THEN "ready"
                                       ELSE "failed"]
    /\ UNCHANGED <<registry, poll, task, lost, running, stopping, okay, escaped, faults>>

\* An operator pauses the run or the tenant, and the step is scheduled anew.
PauseStep(s) ==
    /\ row[s].state = "running"
    /\ row' = [row EXCEPT ![s].paused = TRUE, ![s].state = "ready", ![s].ttl = 0,
                          ![s].effect = Parked(@)]
    /\ UNCHANGED <<registry, poll, task, lost, running, stopping, okay, escaped, faults>>

ServiceNext ==
    \/ \E p \in Pollers :
          \/ PollOnce(p)
          \/ \E s \in Steps : ClaimNextStep(p, s)
          \/ ClaimNothing(p) \/ ClaimReturns(p) \/ GiveBack(p) \/ ClaimThrows(p)
    \/ \E l \in Lease :
          \/ HeartbeatStep(l) \/ HeartbeatThrows(l)
          \/ AdmitEffect(l)
          \/ \E how \in {"returned", "retryable", "fatal", "unknown"} : ExecutorEnds(l, how)
          \/ CompleteStep(l) \/ CompleteStepThrows(l)
          \/ FailStep(l) \/ FailStepThrows(l)
    \/ RegistryHeartbeat
    \/ Stop \/ DrainWorker \/ DrainThrows \/ Dispose

Next ==
    \/ ServiceNext
    \/ LoseRegistration
    \/ \E s \in Steps : Elapse(s) \/ ReclaimExpiredLeases(s) \/ PauseStep(s)

Spec == Init /\ [][Next]_vars

(* Awaited calls return, the registry's heartbeat interval fires, run()    *)
(* ends in stop() once running is false, and the drain has a deadline.     *)
(* Executors need not end.                                                 *)
FairSpec ==
    /\ Spec
    /\ WF_vars(RegistryHeartbeat)
    /\ WF_vars(~running /\ Stop)
    /\ WF_vars(DrainWorker)
    /\ WF_vars(Dispose)

-----------------------------------------------------------------------------
(* Properties.                                                             *)

\* Variables have their types.
TypeOK ==
    /\ row \in [Steps -> [state : {"ready", "running", "parked", "succeeded", "failed"},
                          claims : 0 .. MaxClaims, ttl : 0 .. LeaseTTL,
                          attempt : 0 .. MaxClaims, effect : {"none", "admitted", "unknown"},
                          paused : BOOLEAN,
                          actor : {"none", "worker", "kernel"}]]
    /\ registry \in {"active", "draining", "superseded"}
    /\ poll \in [Pollers -> {Idle, Asked} \cup {Answered(l) : l \in Lease}]
    /\ task \in [Lease -> Busy \cup {"none", "claimed", "returned to the queue", "gone"}]
    /\ lost \subseteq Lease
    /\ running \in BOOLEAN
    /\ stopping \in {"no", "draining", "waiting", "rejected", "disposed"}
    /\ okay \subseteq Lease
    /\ escaped \subseteq Lease
    /\ faults \in 0 .. MaxFaults

(* Tasks and claims in flight stay within the worker's concurrency, also   *)
(* when pollOnce runs concurrently and tasks outlive their leases.         *)
CapacityHeld == Cardinality(Active) + Cardinality(Inflight) <= MaxConcurrency

(* A step succeeds only with the result of its latest claim: a task that   *)
(* lost its lease, and whose step is being executed again, never ends it.  *)
SuccessIsOfLatestClaim ==
    \A s \in Steps : row[s].state = "succeeded" => <<s, row[s].claims>> \in okay

(* A stop() that races a claim never fails the step: one that the worker  *)
(* failed was executed under its latest claim.  The refund restores the    *)
(* attempt of that claim only, so the step must not have been paused       *)
(* before: a pause keeps the attempt of the lease it ends.                 *)
FailedOnlyAfterExecution ==
    \A s \in Steps :
        row[s].state = "failed" /\ row[s].actor = "worker" /\ ~row[s].paused
           => task[<<s, row[s].claims>>] \in {"fatal", "retryable", "gone"}

\* Somebody else is responsible for the retry of a step whose effect is not
\* settled: the operator who paused it, or a broker that could not park it and
\* whose error did not say so.
Excused(s) == row[s].paused \/ \E l \in escaped : l[1] = s

(* A step with an unsettled effect is in reconciliation or on the way to   *)
(* it, whatever heartbeats, an earlier task of the same process or the     *)
(* shutdown did: the worker neither fails it nor puts it back.  Exceptions *)
(* are a step that an operator paused, and one whose broker failed to park *)
(* the effect and swallowed that.                                          *)
UnsettledIsNotRetried ==
    \A s \in Steps :
        row[s].effect # "none" /\ ~Excused(s) => row[s].state \in {"running", "parked"}

(* A worker that lost its registration, or was told to stop, closes its    *)
(* pool in the end, although handlers may ignore the abort; the exception  *)
(* is a drain call that throws.                                            *)
StopEnds ==
    (registry # "active" \/ stopping # "no") ~> stopping \in {"disposed", "rejected"}
=============================================================================
