----------------------------- MODULE Reconcile ------------------------------
(***************************************************************************)
(* The reconciliation of effects whose outcome is unknown: the claim that  *)
(* claim_reconcile_effects hands out for 60 s, the ReconciliationDaemon    *)
(* that works through the effects it claimed, one outcome query after the  *)
(* other, and the mutations it sends, fenced by the claim.                 *)
(*                                                                         *)
(* Time is relative: wait, deadline and claim.left are what is left until  *)
(* reconcile_after, reconcile_deadline_at and reconcile_claim_expires_at;  *)
(* budget is what is left of the current query's budget and poll what is   *)
(* left until the daemon's interval timer fires.  Tick is one unit.        *)
(* A claim token is the identity of the daemon: a daemon claims again only *)
(* when its tick has ended or it has restarted, and then it holds no older *)
(* token.  No caller sends a mutation twice, so the replay of a stored     *)
(* result by its fingerprint does not occur.                               *)
(* A process runs a compensation daemon too.  When a tick of that daemon   *)
(* fails, the process drains both its registrations and runs on: until it  *)
(* is restarted, its claims return nothing and its mutations are rejected. *)
(* Transactions are atomic, so SKIP LOCKED never skips.  Rows with         *)
(* reconcile_max_attempts = 0 (a migration's backfill) are left out.       *)
(***************************************************************************)
EXTENDS Naturals, Sequences, FiniteSets, SequencesExt

CONSTANTS
    Effects,        \* effects, each of a step of its own
    Daemons,        \* adapter-ops replicas
    None,           \* NULL
    Unsupported,    \* effects without adapter or outcome querier
    MaxAttempts,    \* reconcile_max_attempts
    Delay(_),       \* the delay after the n-th attempt
    ClaimTTL,       \* the 60 s of a claim
    QueryBudget,    \* queryTimeoutMs
    PollInterval,   \* pollIntervalMs
    BatchSize,      \* limit of a claim
    Deadlines,      \* what may be left to the deadline when an effect is parked
    Prompt,         \* TRUE: timers of a live daemon fire in time
    StepsMayEnd,    \* TRUE: others may end a step while its effect is unknown
    MaxCrashes,     \* bound of the model: daemon crashes
    MaxDrains       \* bound of the model: registrations drained at a time

ASSUME ReconcileBoundAssumption ==
    /\ MaxAttempts \in Nat \ {0}
    /\ \A n \in 1 .. MaxAttempts : Delay(n) \in Nat \ {0}
    /\ QueryBudget \in Nat \ {0}
    /\ ClaimTTL \in Nat
    /\ QueryBudget < ClaimTTL          \* the constructor insists on it
    /\ PollInterval \in Nat \ {0}
    /\ BatchSize \in Nat \ {0}
    /\ Deadlines \subseteq Nat
    /\ Prompt \in BOOLEAN
    /\ StepsMayEnd \in BOOLEAN
    /\ MaxCrashes \in Nat
    /\ MaxDrains \in Nat

ASSUME NoDaemonAssumption == None \notin Daemons /\ Unsupported \subseteq Effects

VARIABLES
    effect,     \* commander_effects: state and reconcile_ columns
    ended,      \* the effects whose step (or run) is terminal
    older,      \* the pairs of due effects that reconcile_after tells apart
    todo,       \* the claimed effects a daemon's tick still has to work through
    budget,     \* what its current query has left
    poll,       \* until its timer fires
    drained,    \* the daemons whose registration is not ACTIVE any more
    crashes

vars == <<effect, ended, older, todo, budget, poll, drained, crashes>>
daemonVars == <<todo, budget, poll, drained, crashes>>

EffectStates == {"ADMITTED", "COMPLETION_UNKNOWN", "COMPLETED", "CONFIRMED_NOT_APPLIED", "ESCALATED"}

NewEffect == [state |-> "ADMITTED", attempts |-> 0, wait |-> 0, deadline |-> 0,
              holder |-> None, left |-> 0]

Init ==
    /\ effect = [e \in Effects |-> NewEffect]
    /\ ended = {}
    /\ older = {}
    /\ todo = [d \in Daemons |-> <<>>]
    /\ budget = [d \in Daemons |-> 0]
    /\ poll \in [Daemons -> 0 .. PollInterval - 1]
    /\ drained = {}
    /\ crashes = 0

Unknown(e) == effect[e].state = "COMPLETION_UNKNOWN"

\* The effects whose reconcile_after has been reached.
Due == {e \in Effects : Unknown(e) /\ effect[e].wait = 0}

\* Effects come due, later than those that are due.
ComeDue(S) == older' = older \cup (Due \X S)

-----------------------------------------------------------------------------
(* The kernel and its callers.                                             *)

\* Any of the transactions that park an admitted effect: due at once, no claim.
Park(e, left) ==
    /\ effect[e].state = "ADMITTED"
    /\ e \notin ended
    /\ effect' = [effect EXCEPT ![e].state = "COMPLETION_UNKNOWN", ![e].deadline = left]
    /\ ComeDue({e})
    /\ UNCHANGED <<ended, daemonVars>>

\* failStepByTimer, or the run ends with its step.
EndStep(e) ==
    /\ StepsMayEnd
    /\ Unknown(e)
    /\ e \notin ended
    /\ ended' = ended \cup {e}
    /\ UNCHANGED <<effect, older, daemonVars>>

\* An operator asks for the next attempt now.
RequestReconcileEffect(e) ==
    /\ Unknown(e)
    /\ effect[e].deadline > 0
    /\ effect[e].wait > 0
    /\ effect' = [effect EXCEPT ![e].wait = 0]
    /\ ComeDue({e})
    /\ UNCHANGED <<ended, daemonVars>>

-----------------------------------------------------------------------------
(* The claim.                                                              *)

\* Fault: a claim is not respected.
EligibleAlways(e) == Unknown(e) /\ effect[e].wait = 0

\* Fault: the escalation branches are forgotten.
EligibleWhenDue(e) == Unknown(e) /\ effect[e].wait = 0 /\ effect[e].left = 0 /\ effect[e].deadline > 0

\* A live claim is respected only before the deadline and the last attempt.
Eligible(e) ==
    /\ Unknown(e)
    /\ \/ effect[e].deadline = 0
       \/ effect[e].attempts >= MaxAttempts
       \/ effect[e].wait = 0 /\ effect[e].left = 0

(* The batches a claim may return: at most BatchSize eligible effects, by  *)
(* reconcile_after.  Equal times are ordered by id, that is in any way.    *)
Batches ==
    {q \in BoundedSeq(Effects, BatchSize) :
        /\ IsInjective(q)
        /\ \A i \in DOMAIN q : Eligible(q[i])
        /\ Len(q) = BatchSize \/ \A e \in Effects : Eligible(e) => e \in Range(q)
        /\ \A i \in DOMAIN q, e \in Effects :
              Eligible(e) /\ <<e, q[i]>> \in older => \E j \in 1 .. i - 1 : q[j] = e}

\* A worker that is not ACTIVE gets no effects.
Claims(d) == IF d \in drained THEN {<<>>} ELSE Batches

(* The timer fires.  A tick that is still active makes it a no-op;         *)
(* otherwise a tick starts: it claims its batch and asks for the outcome   *)
(* of the first effect.                                                    *)
TimerFires(d) ==
    /\ poll[d] = 0
    /\ poll' = [poll EXCEPT ![d] = PollInterval]
    /\ IF todo[d] # <<>>
       THEN UNCHANGED <<effect, todo, budget>>
       ELSE \E batch \in Claims(d) :
            /\ todo' = [todo EXCEPT ![d] = batch]
            /\ effect' = [e \in Effects |->
                            IF e \in Range(batch)
                            THEN [effect[e] EXCEPT !.holder = d, !.left = ClaimTTL]
                            ELSE effect[e]]
            /\ budget' = [budget EXCEPT ![d] = IF batch = <<>> THEN 0 ELSE QueryBudget]
    /\ UNCHANGED <<ended, older, drained, crashes>>

\* onFatalInvariant: a tick of the process's compensation daemon has failed.
DrainAuthority(d) ==
    /\ d \notin drained
    /\ Cardinality(drained) < MaxDrains
    /\ drained' = drained \cup {d}
    /\ UNCHANGED <<effect, ended, older, todo, budget, poll, crashes>>

-----------------------------------------------------------------------------
(* The mutations.                                                          *)

\* Why the SQL answers applied = false.
Rejection(d, e) ==
    IF d \in drained THEN "WORKER_FENCED"
    ELSE IF effect[e].holder # d THEN "CLAIM_NOT_OWNED"
    ELSE IF effect[e].left = 0 THEN "CLAIM_EXPIRED"
    ELSE IF ~Unknown(e) THEN "NOT_COMPLETION_UNKNOWN"
    ELSE IF e \in ended THEN "STEP_TERMINAL_RACE"
    ELSE "none"

\* Fault: the next attempt is compared with the deadline too late.
EscalatesLate(e) ==
    \/ effect[e].deadline = 0
    \/ effect[e].attempts + 1 >= MaxAttempts

\* Fault: off by one at the last attempt.
EscalatesAfterMax(e) ==
    \/ effect[e].deadline = 0
    \/ Delay(effect[e].attempts + 1) >= effect[e].deadline
    \/ effect[e].attempts >= MaxAttempts

\* RESCHEDULE becomes an escalation.
Escalates(e) ==
    \/ effect[e].deadline = 0
    \/ Delay(effect[e].attempts + 1) >= effect[e].deadline
    \/ effect[e].attempts + 1 >= MaxAttempts

Outcomes(e) ==
    IF e \in Unsupported THEN {"UNSUPPORTED"} ELSE {"APPLIED", "NOT_APPLIED", "UNKNOWN"}

\* The row after the mutation that the outcome of the query calls for; every
\* mutation clears the claim.
Mutated(e, outcome) ==
    LET base == [effect[e] EXCEPT !.holder = None, !.left = 0]
    IN  CASE outcome = "APPLIED"     -> [base EXCEPT !.state = "COMPLETED"]
          [] outcome = "NOT_APPLIED" -> [base EXCEPT !.state = "CONFIRMED_NOT_APPLIED"]
          [] outcome = "UNSUPPORTED" -> [base EXCEPT !.state = "ESCALATED"]
          [] outcome = "UNKNOWN"     ->
                IF Escalates(e)
                THEN [base EXCEPT !.state = "ESCALATED", !.attempts = @ + 1]
                ELSE [base EXCEPT !.attempts = @ + 1, !.wait = Delay(effect[e].attempts + 1)]

(* The query answers, throws or runs out of its budget; the daemon sends   *)
(* the mutation and goes on to the next effect of its batch, whatever the  *)
(* SQL answered.                                                           *)
ReconcileClaim(d, outcome) ==
    /\ todo[d] # <<>>
    /\ LET e == Head(todo[d])
           why == Rejection(d, e)
           rest == Tail(todo[d])
       IN  /\ outcome \in Outcomes(e)
           /\ IF why = "none"
              THEN /\ effect' = [effect EXCEPT ![e] = Mutated(e, outcome)]
                   /\ older' = {p \in older : p[1] # e /\ p[2] # e}
              ELSE UNCHANGED <<effect, older>>
           /\ todo' = [todo EXCEPT ![d] = rest]
           /\ budget' = [budget EXCEPT ![d] = IF rest = <<>> THEN 0 ELSE QueryBudget]
    /\ UNCHANGED <<ended, poll, drained, crashes>>

\* The process dies and is started again, under a new registration.
DaemonCrash(d) ==
    /\ crashes < MaxCrashes
    /\ todo[d] # <<>> \/ d \in drained
    /\ crashes' = crashes + 1
    /\ drained' = drained \ {d}
    /\ todo' = [todo EXCEPT ![d] = <<>>]
    /\ budget' = [budget EXCEPT ![d] = 0]
    /\ poll' = [poll EXCEPT ![d] = 0]
    /\ UNCHANGED <<effect, ended, older>>

-----------------------------------------------------------------------------
Less(n) == IF n = 0 THEN 0 ELSE n - 1

\* One unit of time.
Tick ==
    /\ Prompt => \A d \in Daemons : /\ poll[d] > 0
                                    /\ todo[d] # <<>> => budget[d] > 0
    /\ ComeDue({e \in Effects : Unknown(e) /\ effect[e].wait = 1})
    /\ effect' = [e \in Effects |->
                    IF effect[e].state # "ADMITTED"
                    THEN [effect[e] EXCEPT !.wait = Less(@), !.deadline = Less(@), !.left = Less(@)]
                    ELSE effect[e]]
    /\ poll' = [d \in Daemons |-> Less(poll[d])]
    /\ budget' = [d \in Daemons |-> Less(budget[d])]
    /\ <<effect, poll, budget>>' # <<effect, poll, budget>>
    /\ UNCHANGED <<ended, todo, drained, crashes>>

Work(d) == \E outcome \in {"APPLIED", "NOT_APPLIED", "UNKNOWN", "UNSUPPORTED"} : ReconcileClaim(d, outcome)

Next ==
    \/ \E e \in Effects :
          \/ \E left \in Deadlines : Park(e, left)
          \/ EndStep(e)
          \/ RequestReconcileEffect(e)
    \/ \E d \in Daemons : TimerFires(d) \/ DrainAuthority(d) \/ Work(d) \/ DaemonCrash(d)
    \/ Tick

Spec == Init /\ [][Next]_vars

(* Time passes, interval timers fire and a query ends, at the latest by    *)
(* its budget.  That a timer's tick may claim anything is not assumed.     *)
FairSpec ==
    /\ Spec
    /\ WF_vars(Tick)
    /\ \A d \in Daemons : WF_vars(TimerFires(d)) /\ WF_vars(Work(d))

-----------------------------------------------------------------------------
(* Properties.                                                             *)

\* Every row and local variable has its type; older is about due effects.
TypeOK ==
    /\ effect \in [Effects -> [state : EffectStates, attempts : 0 .. MaxAttempts, wait : Nat,
                               deadline : Nat, holder : Daemons \cup {None}, left : 0 .. ClaimTTL]]
    /\ ended \subseteq Effects
    /\ older \subseteq Due \X Due
    /\ todo \in [Daemons -> Seq(Effects)]
    /\ budget \in [Daemons -> 0 .. QueryBudget]
    /\ poll \in [Daemons -> 0 .. PollInterval]
    /\ drained \subseteq Daemons
    /\ crashes \in 0 .. MaxCrashes

(* The next attempt of an unknown effect always lies before its deadline,  *)
(* however late the attempts before it came: when the deadline passes, the *)
(* effect is due and the next tick escalates it instead of waiting.        *)
NextAttemptBeforeDeadline ==
    \A e \in Effects : Unknown(e) /\ effect[e].wait > 0 => effect[e].wait < effect[e].deadline

(* A live claim is taken from its holder only after the deadline: the      *)
(* attempts of an effect that is still claimable never reach their maximum,*)
(* so the other exception of claim_reconcile_effects never applies.        *)
ClaimsAreRespected ==
    [][\A e \in Effects : \A d \in Daemons :
          (effect[e].holder = d /\ effect[e].left > 0 /\ effect'[e].holder # d)
             => \/ effect[e].deadline = 0
                \/ todo[d] # <<>> /\ Head(todo[d]) = e /\ todo'[d] = Tail(todo[d])]_vars

R == INSTANCE Resolution WITH
        Attempts <- MaxAttempts,
        verdict <- [e \in Effects |-> effect[e].state],
        left <- [e \in Effects |-> MaxAttempts - effect[e].attempts]

(* Claims, timeouts, crashes and two daemons that take effects from each   *)
(* other implement the bounded look-up: an effect is decided once, by one  *)
(* of at most MaxAttempts look-ups, and the last one that finds nothing    *)
(* escalates.                                                              *)
ImplementsResolution == R!Spec

\* Effects that nobody can settle: their step was ended by somebody else, so
\* every mutation is rejected as STEP_TERMINAL_RACE.  They stay due, and in
\* every batch their queries go before those of younger effects.
Stuck == {e \in Effects : Unknown(e) /\ e \in ended}

OneAtWork == \E d \in Daemons : drained = Daemons \ {d}

(* While one daemon is at work (the deployed number of replicas, or all    *)
(* others are drained) and nothing is stuck, no effect stays unknown: late *)
(* queries cost the rest of a batch its claims, but the first effect of    *)
(* every batch is decided or spends an attempt, whatever the poll interval.*)
(* Of several daemons at work this is not said: see UnknownSettles.        *)
OneDaemonSettles ==
    \A e \in Effects : ~<>[](OneAtWork /\ Stuck = {} /\ Unknown(e))

(* What is said of unknown outcomes: an effect whose outcome is unknown is *)
(* in the end completed, confirmed as not applied or escalated.  Several   *)
(* daemons that poll sooner than a query ends take the claim of an overdue *)
(* effect from each other for ever.                                        *)
UnknownSettles ==
    \A e \in Effects : Unknown(e) ~> (~Unknown(e) \/ e \in ended)
=============================================================================
