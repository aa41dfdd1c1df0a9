------------------------------- MODULE Timers -------------------------------
(***************************************************************************)
(* The durable timers and human interactions of the kernel, and the timer  *)
(* wake-up workers: they claim the due timers in batches, fire each one    *)
(* (expire an interaction, fail a step, wake a retry), acknowledge it, and *)
(* then expire what else is stale.                                         *)
(*                                                                         *)
(* Every action is one call to the repository, which is one transaction,   *)
(* with the local code up to the next await.  Workers are stopped and      *)
(* started while a tick is in flight, they die, and calls throw.           *)
(*                                                                         *)
(* Steps belong to the kernel: KernelMoves lets them do whatever           *)
(* StepsFollowContract of Kernel allows.  Timer t is for step StepOf[t].   *)
(* The sweep of the outbox at the end of a tick is in Outbox.  Statistics  *)
(* and payloads are left out.                                              *)
(***************************************************************************)
EXTENDS Integers, FiniteSets, States

CONSTANTS
    Timers,      \* the timers that may be created
    Steps,       \* the steps they are for, with one prompt each
    StepOf,      \* the step of a timer
    RunOf,       \* the run of a step
    Workers,     \* processes running TimerWakeupWorker
    None,        \* NULL
    Kinds,       \* the timer types in use
    BatchSize,   \* limit of a claim
    ClaimTTL,    \* the 60 s a claim is respected
    Reached,     \* bound of the model: where the kernel takes steps
    MaxFaults    \* bound of the model: stops, crashes and failed calls

ASSUME TimerBoundAssumption ==
    /\ BatchSize \in Nat \ {0}
    /\ ClaimTTL \in Nat \ {0}
    /\ MaxFaults \in Nat

ASSUME TimerGraphAssumption ==
    /\ StepOf \in [Timers -> Steps]
    /\ \A s \in Steps : s \in DOMAIN RunOf
    /\ Kinds \subseteq {"INTERACTION_TIMEOUT", "RETRY_DELAY", "STEP_DEADLINE"}
    /\ None \notin Workers \cup Timers
    /\ Reached \subseteq StepStates

VARIABLES
    stepState,   \* commander_steps.state
    due,         \* scheduled_at of the step has been reached
    timer,       \* commander_timers
    ripe,        \* the timers whose fires_at has been reached
    prompt,      \* commander_interactions.status, of the prompt of a step
    lapsed,      \* the prompts whose expires_at has been reached
    work,        \* the tick a worker has in flight
    started,     \* TimerWakeupWorker.started
    lastOk,      \* lastOkAt: none, or set by a tick of this or an earlier epoch
    faults       \* stops, crashes and failed calls so far

tableVars == <<stepState, due, timer, ripe, prompt, lapsed>>
workerVars == <<work, started, lastOk, faults>>
vars == <<tableVars, workerVars>>

Phases == {"idle", "next", "look", "act", "ack", "retry"}

\* No tick in flight.
IdleWork == [phase |-> "idle", todo |-> {}, cur |-> None, age |-> 0, current |-> FALSE]

\* No row yet.
NoTimer == [state |-> "none", kind |-> "none", token |-> None, age |-> 0]

Init ==
    /\ stepState \in [Steps -> {"PENDING", "WAITING_FOR_HUMAN"}]
    /\ due = [s \in Steps |-> TRUE]
    /\ timer = [t \in Timers |-> NoTimer]
    /\ ripe = {}
    /\ prompt = [s \in Steps |-> "none"]
    /\ lapsed = {}
    /\ work = [w \in Workers |-> IdleWork]
    /\ started = [w \in Workers |-> TRUE]
    /\ lastOk = [w \in Workers |-> "none"]
    /\ faults = 0

Ended(s) == stepState[s] \in StepTerminal

-----------------------------------------------------------------------------
(* The API: timers, prompts and their answers.                             *)

(* createTimer appends its event as number 0 of the run.  Event numbers    *)
(* are UNIQUE per run, so a second timer of the run is rolled back.        *)
CreateTimer(t, kind) ==
    /\ \A u \in Timers : timer[u].state # "none" => RunOf[StepOf[u]] # RunOf[StepOf[t]]
    /\ timer' = [timer EXCEPT ![t] = [NoTimer EXCEPT !.state = "PENDING", !.kind = kind]]
    /\ UNCHANGED <<stepState, due, ripe, prompt, lapsed, workerVars>>

CancelTimer(t) ==
    /\ timer[t].state = "PENDING"
    /\ timer' = [timer EXCEPT ![t].state = "CANCELLED"]
    /\ UNCHANGED <<stepState, due, ripe, prompt, lapsed, workerVars>>

CreateInteraction(s) ==
    /\ prompt[s] = "none"
    /\ prompt' = [prompt EXCEPT ![s] = "pending"]
    /\ UNCHANGED <<stepState, due, timer, ripe, lapsed, workerVars>>

\* An answer with releaseStep = FALSE is accepted for a step in any state.
AnswerInteraction(s, releaseStep) ==
    /\ prompt[s] = "pending"
    /\ s \notin lapsed
    /\ releaseStep => stepState[s] = "WAITING_FOR_HUMAN"
    /\ prompt' = [prompt EXCEPT ![s] = "answered"]
    /\ stepState' = IF releaseStep THEN [stepState EXCEPT ![s] = "RETRY_WAIT"] ELSE stepState
    /\ due' = IF releaseStep THEN [due EXCEPT ![s] = TRUE] ELSE due
    /\ UNCHANGED <<timer, ripe, lapsed, workerVars>>

\* expireStaleInteractions for the prompts of S.
ExpireStaleInteractions(S) ==
    prompt' = [s \in Steps |-> IF s \in S THEN "expired" ELSE prompt[s]]

Stale == {s \in lapsed : prompt[s] = "pending"}

-----------------------------------------------------------------------------
(* A tick of the timer worker.                                             *)

\* Fault: a claim lasts for ever.
ClaimableOnce(t) == t \in ripe /\ timer[t].state = "PENDING"

ClaimableTimer(t) ==
    /\ t \in ripe
    /\ \/ timer[t].state = "PENDING"
       \/ timer[t].state = "PROCESSING" /\ timer[t].age >= ClaimTTL

\* The worker goes on with the next timer of its batch.
NextTimer(w) ==
    LET rest == work[w].todo \ {work[w].cur}
    IN  [work[w] EXCEPT !.phase = "next", !.todo = rest, !.cur = None,
                        !.age = IF rest = {} THEN 0 ELSE @]

(* The interval or kick starts a tick, unless one is in flight, and the    *)
(* tick claims the due timers, all under one token.  The identity of the   *)
(* worker stands for the token: it holds nothing under an earlier one.     *)
ClaimExpiredTimers(w, B) ==
    /\ started[w]
    /\ work[w].phase = "idle"
    /\ \A t \in B : ClaimableTimer(t)
    /\ \/ Cardinality(B) = BatchSize
       \/ Cardinality(B) < BatchSize /\ \A t \in Timers : ClaimableTimer(t) => t \in B
    /\ timer' = [t \in Timers |->
                   IF t \in B THEN [timer[t] EXCEPT !.state = "PROCESSING", !.token = w, !.age = 0]
                   ELSE timer[t]]
    /\ work' = [work EXCEPT ![w] = [IdleWork EXCEPT !.phase = "next", !.todo = B, !.current = TRUE]]
    /\ UNCHANGED <<stepState, due, ripe, prompt, lapsed, started, lastOk, faults>>

(* processFiredTimer up to its first await: an interaction timeout expires *)
(* one stale prompt, whichever the database finds first; a retry delay     *)
(* wakes its step (wakeRetryStep).                                         *)
ProcessFiredTimer(w, t) ==
    LET s == StepOf[t]
        At(phase) == work' = [work EXCEPT ![w] = [@ EXCEPT !.phase = phase, !.cur = t]]
    IN  /\ work[w].phase = "next"
        /\ t \in work[w].todo
        /\ \/ /\ timer[t].kind = "INTERACTION_TIMEOUT"
              /\ \/ Stale = {} /\ UNCHANGED prompt
                 \/ \E x \in Stale : ExpireStaleInteractions({x})
              /\ At("look")
              /\ UNCHANGED due
           \/ /\ timer[t].kind = "RETRY_DELAY"
              /\ due' = IF stepState[s] = "RETRY_WAIT" THEN [due EXCEPT ![s] = TRUE] ELSE due
              /\ At("ack")
              /\ UNCHANGED prompt
           \/ /\ timer[t].kind = "STEP_DEADLINE"
              /\ At("look")
              /\ UNCHANGED <<due, prompt>>
        /\ UNCHANGED <<stepState, timer, ripe, lapsed, started, lastOk, faults>>

\* The state of the step for which a timer of this kind fails it.
Fails(kind, state) ==
    \/ kind = "INTERACTION_TIMEOUT" /\ state = "WAITING_FOR_HUMAN"
    \/ kind = "STEP_DEADLINE" /\ state \notin StepTerminal

\* getStep, and the decision on what it returned.
GetStep(w) ==
    LET t == work[w].cur
        acts == Fails(timer[t].kind, stepState[StepOf[t]])
    IN  /\ work[w].phase = "look"
        /\ work' = [work EXCEPT ![w].phase = IF acts THEN "act" ELSE "ack"]
        /\ UNCHANGED <<tableVars, started, lastOk, faults>>

\* failStepByTimer fails the step in whatever open state it is by now, and
\* answers null for a terminal one.
FailStepByTimer(w) ==
    LET s == StepOf[work[w].cur]
    IN  /\ work[w].phase = "act"
        /\ stepState' = IF Ended(s) THEN stepState ELSE [stepState EXCEPT ![s] = "FAILED"]
        /\ work' = [work EXCEPT ![w].phase = "ack"]
        /\ UNCHANGED <<due, timer, ripe, prompt, lapsed, started, lastOk, faults>>

\* Fault: the token is not compared.
HoldsTimerUnfenced(w, t) == timer[t].state = "PROCESSING"

HoldsTimer(w, t) == timer[t].state = "PROCESSING" /\ timer[t].token = w

\* A fenced acknowledgement throws, which leads to retryTimer.
AcknowledgeTimer(w) ==
    LET t == work[w].cur
    IN  /\ work[w].phase = "ack"
        /\ IF HoldsTimer(w, t)
           THEN /\ timer' = [timer EXCEPT ![t].state = "FIRED", ![t].token = None, ![t].age = 0]
                /\ work' = [work EXCEPT ![w] = NextTimer(w)]
           ELSE /\ work' = [work EXCEPT ![w].phase = "retry"]
                /\ UNCHANGED timer
        /\ UNCHANGED <<stepState, due, ripe, prompt, lapsed, started, lastOk, faults>>

RetryTimer(w) ==
    LET t == work[w].cur
    IN  /\ work[w].phase = "retry"
        /\ timer' = IF HoldsTimer(w, t)
                    THEN [timer EXCEPT ![t].state = "PENDING", ![t].token = None, ![t].age = 0]
                    ELSE timer
        /\ work' = [work EXCEPT ![w] = NextTimer(w)]
        /\ UNCHANGED <<stepState, due, ripe, prompt, lapsed, started, lastOk, faults>>

\* Fault: a tick stamps lastOkAt whichever epoch it belongs to.
FinishTickOfAnyEpoch(w) ==
    /\ work[w].phase = "next"
    /\ work[w].todo = {}
    /\ ExpireStaleInteractions(Stale)
    /\ lastOk' = [lastOk EXCEPT ![w] = IF ~started[w] THEN "none"
                                       ELSE IF work[w].current THEN "this" ELSE "earlier"]
    /\ work' = [work EXCEPT ![w] = IdleWork]
    /\ UNCHANGED <<stepState, due, timer, ripe, lapsed, started, faults>>

\* Fault: prompts expire with their timers only.
FinishTickWithoutExpiry(w) ==
    /\ work[w].phase = "next"
    /\ work[w].todo = {}
    /\ lastOk' = [lastOk EXCEPT ![w] = IF ~started[w] THEN "none"
                                       ELSE IF work[w].current THEN "this" ELSE @]
    /\ work' = [work EXCEPT ![w] = IdleWork]
    /\ UNCHANGED <<tableVars, started, faults>>

(* The batch is done: the tick expires stale prompts and stamps lastOkAt   *)
(* if the worker was neither stopped nor restarted since the tick began.   *)
(* A stop() that waited for this tick then clears the stamp.               *)
FinishTick(w) ==
    /\ work[w].phase = "next"
    /\ work[w].todo = {}
    /\ ExpireStaleInteractions(Stale)
    /\ lastOk' = [lastOk EXCEPT ![w] = IF ~started[w] THEN "none"
                                       ELSE IF work[w].current THEN "this" ELSE @]
    /\ work' = [work EXCEPT ![w] = IdleWork]
    /\ UNCHANGED <<stepState, due, timer, ripe, lapsed, started, faults>>

-----------------------------------------------------------------------------
(* What goes wrong.                                                        *)

\* Fault: an error while a timer is processed is swallowed and the timer
\* acknowledged.
CallThrowsIgnored(w) ==
    /\ faults < MaxFaults
    /\ faults' = faults + 1
    /\ work[w].phase \in {"look", "act"}
    /\ work' = [work EXCEPT ![w].phase = "ack"]
    /\ UNCHANGED <<tableVars, started, lastOk>>

(* A call throws.  While a timer is processed this leads to retryTimer; an *)
(* error of retryTimer or after the batch aborts the tick, and the rest of *)
(* the batch stays claimed.  A call that commits and then throws is the    *)
(* commit followed by an error of the next call.                           *)
CallThrows(w) ==
    /\ faults < MaxFaults
    /\ faults' = faults + 1
    /\ \/ /\ work[w].phase \in {"look", "act", "ack"}
          /\ work' = [work EXCEPT ![w].phase = "retry"]
       \/ \E t \in work[w].todo :
             /\ work[w].phase = "next"
             /\ work' = [work EXCEPT ![w] = [@ EXCEPT !.phase = "retry", !.cur = t]]
       \/ /\ work[w].phase = "retry" \/ (work[w].phase = "next" /\ work[w].todo = {})
          /\ work' = [work EXCEPT ![w] = IdleWork]
    /\ UNCHANGED <<tableVars, started, lastOk>>

(* stop(): the interval is cleared and the epoch advanced; the tick in     *)
(* flight goes on.  lastOkAt is cleared once no tick is in flight.         *)
Stop(w) ==
    /\ started[w]
    /\ faults < MaxFaults
    /\ faults' = faults + 1
    /\ started' = [started EXCEPT ![w] = FALSE]
    /\ work' = [work EXCEPT ![w].current = FALSE]
    /\ lastOk' = [lastOk EXCEPT ![w] = IF work[w].phase = "idle" THEN "none" ELSE @]
    /\ UNCHANGED tableVars

\* start(): a new epoch with no successful tick yet.
Start(w) ==
    /\ ~started[w]
    /\ started' = [started EXCEPT ![w] = TRUE]
    /\ lastOk' = [lastOk EXCEPT ![w] = "none"]
    /\ UNCHANGED <<tableVars, work, faults>>

\* The process dies.
WorkerCrash(w) ==
    /\ faults < MaxFaults
    /\ faults' = faults + 1
    /\ started' = [started EXCEPT ![w] = FALSE]
    /\ work' = [work EXCEPT ![w] = IdleWork]
    /\ lastOk' = [lastOk EXCEPT ![w] = "none"]
    /\ UNCHANGED tableVars

-----------------------------------------------------------------------------
(* The kernel and the clock.                                               *)

\* Any change of the step that StepsFollowContract of Kernel allows; a claim
\* needs the step to be due, and a retry is scheduled for later.
KernelMoves(s, to) ==
    /\ ~Ended(s)
    /\ StepTransition(stepState[s], to) \/ to \in {"SUCCEEDED", "FAILED", "WAITING_FOR_HUMAN"}
    /\ to = "RUNNING" => due[s]
    /\ stepState' = [stepState EXCEPT ![s] = to]
    /\ due' = [due EXCEPT ![s] = to # "RETRY_WAIT"]
    /\ UNCHANGED <<timer, ripe, prompt, lapsed, workerVars>>

Ripen(t) ==
    /\ timer[t].state = "PENDING"
    /\ t \notin ripe
    /\ ripe' = ripe \cup {t}
    /\ UNCHANGED <<stepState, due, timer, prompt, lapsed, workerVars>>

Lapse(s) ==
    /\ prompt[s] = "pending"
    /\ s \notin lapsed
    /\ lapsed' = lapsed \cup {s}
    /\ UNCHANGED <<stepState, due, timer, ripe, prompt, workerVars>>

Older(n) == IF n < ClaimTTL THEN n + 1 ELSE n

\* One unit of time: the claims grow older.
Tick ==
    /\ timer' = [t \in Timers |-> IF timer[t].state = "PROCESSING"
                                  THEN [timer[t] EXCEPT !.age = Older(@)] ELSE timer[t]]
    /\ work' = [w \in Workers |-> IF work[w].todo # {}
                                  THEN [work[w] EXCEPT !.age = Older(@)] ELSE work[w]]
    /\ <<timer, work>>' # <<timer, work>>
    /\ UNCHANGED <<stepState, due, ripe, prompt, lapsed, started, lastOk, faults>>

WorkerStep(w) ==
    \/ \E B \in SUBSET Timers : ClaimExpiredTimers(w, B)
    \/ \E t \in Timers : ProcessFiredTimer(w, t)
    \/ GetStep(w)
    \/ FailStepByTimer(w)
    \/ AcknowledgeTimer(w)
    \/ RetryTimer(w)
    \/ FinishTick(w)

Next ==
    \/ \E t \in Timers : CancelTimer(t) \/ Ripen(t) \/ \E kind \in Kinds : CreateTimer(t, kind)
    \/ \E s \in Steps :
          \/ CreateInteraction(s)
          \/ Lapse(s)
          \/ \E releaseStep \in BOOLEAN : AnswerInteraction(s, releaseStep)
          \/ \E to \in Reached : KernelMoves(s, to)
    \/ \E w \in Workers : WorkerStep(w) \/ CallThrows(w) \/ Stop(w) \/ Start(w) \/ WorkerCrash(w)
    \/ Tick

Spec == Init /\ [][Next]_vars

(* The interval timer of a started worker fires again and again, awaited   *)
(* calls return, a stopped worker is started again, and time passes.       *)
FairSpec ==
    /\ Spec
    /\ WF_vars(Tick)
    /\ \A t \in Timers : WF_vars(Ripen(t))
    /\ \A w \in Workers : WF_vars(WorkerStep(w)) /\ WF_vars(Start(w))

-----------------------------------------------------------------------------
(* Properties.                                                             *)

\* Rows and local variables have their types.
TypeOK ==
    /\ stepState \in [Steps -> StepStates]
    /\ due \in [Steps -> BOOLEAN]
    /\ timer \in [Timers -> [state : {"none", "PENDING", "PROCESSING", "FIRED", "CANCELLED"},
                             kind : Kinds \cup {"none"},
                             token : Workers \cup {None}, age : 0 .. ClaimTTL]]
    /\ ripe \subseteq Timers
    /\ prompt \in [Steps -> {"none", "pending", "answered", "expired"}]
    /\ lapsed \subseteq Steps
    /\ work \in [Workers -> [phase : Phases, todo : SUBSET Timers, cur : Timers \cup {None},
                             age : 0 .. ClaimTTL, current : BOOLEAN]]
    /\ started \in [Workers -> BOOLEAN]
    /\ lastOk \in [Workers -> {"none", "this", "earlier"}]
    /\ faults \in 0 .. MaxFaults

(* Within the 60 s of its claim a worker has every timer it has yet to     *)
(* fire to itself: nobody else can claim, fire, cancel or give it back,    *)
(* not even a worker that overran an earlier claim of the same timer.      *)
ClaimIsExclusive ==
    \A w \in Workers : \A t \in work[w].todo :
        work[w].age < ClaimTTL => timer[t].state = "PROCESSING" /\ timer[t].token = w

(* A timer is marked FIRED only after it did its work: the step of a       *)
(* deadline that has fired is terminal, although the worker that failed    *)
(* the step and the one that acknowledged the timer may be two, and any    *)
(* call in between may have thrown.                                        *)
FiredDeadlineEndedStep ==
    \A t \in Timers :
        timer[t].state = "FIRED" /\ timer[t].kind = "STEP_DEADLINE" => Ended(StepOf[t])

(* isHealthy reports a success of the current start only: no tick that was *)
(* in flight across a stop or a start makes a restarted worker look well.  *)
HealthIsFresh ==
    \A w \in Workers : started[w] => lastOk[w] # "earlier"

\* What the timer is for has come about, or it was called off.
TookEffect(t) ==
    LET s == StepOf[t]
    IN  \/ timer[t].state = "CANCELLED"
        \/ timer[t].kind = "STEP_DEADLINE" /\ Ended(s)
        \/ timer[t].kind = "INTERACTION_TIMEOUT" /\ stepState[s] # "WAITING_FOR_HUMAN"
        \/ timer[t].kind = "RETRY_DELAY" /\ (stepState[s] = "RETRY_WAIT" => due[s])

(* A timer that waits to fire takes effect, through crashes, stops and     *)
(* failed calls: the step ends at its deadline, does not keep waiting for  *)
(* a human whose time is up, and does not sleep on in RETRY_WAIT.          *)
TimersTakeEffect == \A t \in Timers : timer[t].state = "PENDING" ~> TookEffect(t)

(* A prompt whose time is up is expired in the end, although the end of a  *)
(* tick is only reached when no retryTimer of its batch throws.            *)
PromptsExpire == \A s \in Steps : (s \in lapsed /\ prompt[s] = "pending") ~> prompt[s] # "pending"
=============================================================================
