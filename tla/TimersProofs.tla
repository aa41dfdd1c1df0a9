---------------------------- MODULE TimersProofs ----------------------------
(***************************************************************************)
(* Safety of Timers for every set of timers, steps and workers and any     *)
(* number of faults.                                                       *)
(*                                                                         *)
(* ClaimIsExclusive rests on Batches: a worker measures the age of its     *)
(* batch from the moment its claims were stamped, so a timer cannot be     *)
(* older than the batch it is in.  FiredDeadlineEndedStep rests on Acks: a *)
(* worker about to acknowledge a deadline has seen its step end, or has    *)
(* ended it, and what has ended stays so.                                  *)
(***************************************************************************)
EXTENDS Timers, TLAPS

TimerType ==
    [state : {"none", "PENDING", "PROCESSING", "FIRED", "CANCELLED"},
     kind : Kinds \cup {"none"}, token : Workers \cup {None}, age : 0 .. ClaimTTL]

WorkType ==
    [phase : Phases, todo : SUBSET Timers, cur : Timers \cup {None},
     age : 0 .. ClaimTTL, current : BOOLEAN]

\* The timers a worker has yet to work through.
Batches ==
    \A w \in Workers : \A t \in work[w].todo :
        /\ timer[t].state # "none"
        /\ work[w].age < ClaimTTL =>
              /\ timer[t].state = "PROCESSING" /\ timer[t].token = w
              /\ timer[t].age <= work[w].age

\* The timer a worker is at.
Acks ==
    \A w \in Workers :
        /\ work[w].phase \in {"look", "act", "ack", "retry"} => work[w].cur \in work[w].todo
        /\ work[w].phase = "ack" /\ timer[work[w].cur].kind = "STEP_DEADLINE"
              => Ended(StepOf[work[w].cur])

\* No stamp of an earlier epoch survives.
Stamps == \A w \in Workers : lastOk[w] # "earlier"

\* The inductive invariant.
TimersInv == TypeOK /\ Batches /\ Acks /\ Stamps /\ FiredDeadlineEndedStep

USE TimerBoundAssumption

-----------------------------------------------------------------------------
\* One field of a timer or of a tick is overwritten.
LEMMA TimerField ==
    ASSUME NEW r \in TimerType
    PROVE  /\ \A x \in {"PENDING", "PROCESSING", "FIRED", "CANCELLED"} : [r EXCEPT !.state = x] \in TimerType
           /\ \A x \in Workers \cup {None} : [r EXCEPT !.token = x] \in TimerType
           /\ \A x \in 0 .. ClaimTTL : [r EXCEPT !.age = x] \in TimerType
           /\ \A x \in Kinds : [r EXCEPT !.kind = x] \in TimerType
  <1> USE DEF TimerType
  <1>1. \A x \in {"PENDING", "PROCESSING", "FIRED", "CANCELLED"} : [r EXCEPT !.state = x] \in TimerType
    OBVIOUS
  <1>2. \A x \in Workers \cup {None} : [r EXCEPT !.token = x] \in TimerType
    OBVIOUS
  <1>3. \A x \in 0 .. ClaimTTL : [r EXCEPT !.age = x] \in TimerType
    OBVIOUS
  <1>4. \A x \in Kinds : [r EXCEPT !.kind = x] \in TimerType
    OBVIOUS
  <1> QED
    BY <1>1, <1>2, <1>3, <1>4, Zenon

\* The same for the tick of a worker.
LEMMA WorkField ==
    ASSUME NEW q \in WorkType
    PROVE  /\ \A x \in Phases : [q EXCEPT !.phase = x] \in WorkType
           /\ \A x \in SUBSET Timers : [q EXCEPT !.todo = x] \in WorkType
           /\ \A x \in Timers \cup {None} : [q EXCEPT !.cur = x] \in WorkType
           /\ \A x \in 0 .. ClaimTTL : [q EXCEPT !.age = x] \in WorkType
           /\ \A x \in BOOLEAN : [q EXCEPT !.current = x] \in WorkType
  <1> USE DEF WorkType
  <1>1. \A x \in Phases : [q EXCEPT !.phase = x] \in WorkType
    OBVIOUS
  <1>2. \A x \in SUBSET Timers : [q EXCEPT !.todo = x] \in WorkType
    OBVIOUS
  <1>3. \A x \in Timers \cup {None} : [q EXCEPT !.cur = x] \in WorkType
    OBVIOUS
  <1>4. \A x \in 0 .. ClaimTTL : [q EXCEPT !.age = x] \in WorkType
    OBVIOUS
  <1>5. \A x \in BOOLEAN : [q EXCEPT !.current = x] \in WorkType
    OBVIOUS
  <1> QED
    BY <1>1, <1>2, <1>3, <1>4, <1>5, Zenon

\* What a release and the clock make of a timer.
LEMMA TimerTyped ==
    ASSUME NEW r \in TimerType
    PROVE  /\ \A x \in {"PENDING", "FIRED"} :
                LET q == [r EXCEPT !.state = x, !.token = None, !.age = 0]
                IN  q \in TimerType /\ q.state = x /\ q.kind = r.kind
           /\ LET q == [r EXCEPT !.age = Older(@)]
              IN  /\ q \in TimerType /\ q.age = Older(r.age)
                  /\ q.state = r.state /\ q.kind = r.kind /\ q.token = r.token
  <1>0. 0 \in 0 .. ClaimTTL
    OBVIOUS
  <1>1. ASSUME NEW x \in {"PENDING", "FIRED"}
        PROVE  LET q == [r EXCEPT !.state = x, !.token = None, !.age = 0]
               IN  q \in TimerType /\ q.state = x /\ q.kind = r.kind
    <2> DEFINE q1 == [r EXCEPT !.state = x]
               q2 == [q1 EXCEPT !.token = None]
               q3 == [q2 EXCEPT !.age = 0]
    <2>1. q1 \in TimerType
      BY TimerField
    <2> HIDE DEF q1
    <2>2. q2 \in TimerType
      BY <2>1, TimerField
    <2> HIDE DEF q2
    <2>3. q3 \in TimerType
      BY <1>0, <2>2, TimerField, Zenon
    <2>4. [r EXCEPT !.state = x, !.token = None, !.age = 0] = q3
      BY DEF q1, q2
    <2>5. q3.state = x /\ q3.kind = r.kind
      BY DEF q1, q2, TimerType
    <2> QED
      BY <2>3, <2>4, <2>5, Zenon
  <1>2. LET q == [r EXCEPT !.age = Older(@)]
        IN  /\ q \in TimerType /\ q.age = Older(r.age)
            /\ q.state = r.state /\ q.kind = r.kind /\ q.token = r.token
    <2>1. Older(r.age) \in 0 .. ClaimTTL
      BY DEF TimerType, Older
    <2>2. [r EXCEPT !.age = Older(r.age)] \in TimerType
      BY <2>1, TimerField
    <2> QED
      BY <2>2 DEF TimerType
  <1> QED
    BY <1>1, <1>2, Zenon

\* What the worker's code makes of its tick.
LEMMA WorkTyped ==
    ASSUME NEW q \in WorkType
    PROVE  /\ \A x \in Phases :
                LET p == [q EXCEPT !.phase = x]
                IN  /\ p \in WorkType /\ p.phase = x /\ p.cur = q.cur
                    /\ p.todo = q.todo /\ p.age = q.age
           /\ LET p == [q EXCEPT !.current = FALSE]
              IN  /\ p \in WorkType /\ p.phase = q.phase /\ p.cur = q.cur
                  /\ p.todo = q.todo /\ p.age = q.age
           /\ LET p == [q EXCEPT !.age = Older(@)]
              IN  /\ p \in WorkType /\ p.phase = q.phase /\ p.cur = q.cur
                  /\ p.todo = q.todo /\ p.age = Older(q.age)
  <1>1. ASSUME NEW x \in Phases
        PROVE  LET p == [q EXCEPT !.phase = x]
               IN  p \in WorkType /\ p.phase = x /\ p.cur = q.cur /\ p.todo = q.todo /\ p.age = q.age
    <2>1. [q EXCEPT !.phase = x] \in WorkType
      BY WorkField
    <2> QED
      BY <2>1 DEF WorkType
  <1>2. LET p == [q EXCEPT !.current = FALSE]
        IN  p \in WorkType /\ p.phase = q.phase /\ p.cur = q.cur /\ p.todo = q.todo /\ p.age = q.age
    <2>1. [q EXCEPT !.current = FALSE] \in WorkType
      BY WorkField
    <2> QED
      BY <2>1 DEF WorkType
  <1>3. LET p == [q EXCEPT !.age = Older(@)]
        IN  p \in WorkType /\ p.phase = q.phase /\ p.cur = q.cur /\ p.todo = q.todo /\ p.age = Older(q.age)
    <2>1. Older(q.age) \in 0 .. ClaimTTL
      BY DEF WorkType, Older
    <2>2. [q EXCEPT !.age = Older(q.age)] \in WorkType
      BY <2>1, WorkField
    <2> QED
      BY <2>2 DEF WorkType
  <1> QED
    BY <1>1, <1>2, <1>3, Zenon

\* Going on to the next timer.
LEMMA NextTimerTyped ==
    ASSUME NEW w \in Workers, work[w] \in WorkType
    PROVE  /\ NextTimer(w) \in WorkType
           /\ NextTimer(w).phase = "next"
           /\ NextTimer(w).todo = work[w].todo \ {work[w].cur}
           /\ NextTimer(w).todo # {} => NextTimer(w).age = work[w].age
  <1> DEFINE rest == work[w].todo \ {work[w].cur}
             n == IF rest = {} THEN 0 ELSE work[w].age
             q1 == [work[w] EXCEPT !.phase = "next"]
             q2 == [q1 EXCEPT !.todo = rest]
             q3 == [q2 EXCEPT !.cur = None]
             q4 == [q3 EXCEPT !.age = n]
  <1>0. n \in 0 .. ClaimTTL /\ rest \in SUBSET Timers /\ "next" \in Phases
    BY DEF WorkType, Phases
  <1>1. NextTimer(w) = q4
    BY DEF NextTimer
  <1>2. q4.phase = "next" /\ q4.todo = rest /\ q4.age = n
    BY DEF WorkType
  <1>a. rest # {} => n = work[w].age
    OBVIOUS
  <1> HIDE DEF rest, n
  <1>3. q1 \in WorkType
    BY <1>0, WorkField
  <1> HIDE DEF q1
  <1>4. q2 \in WorkType
    BY <1>0, <1>3, WorkField
  <1> HIDE DEF q2
  <1>5. q3 \in WorkType
    BY <1>4, WorkField
  <1> HIDE DEF q3
  <1>6. q4 \in WorkType
    BY <1>0, <1>5, WorkField
  <1> QED
    BY <1>1, <1>2, <1>a, <1>6, Zenon DEF rest

-----------------------------------------------------------------------------
\* The variables besides timer and work keep their types, what has ended
\* stays so, and no tick stamps an earlier epoch.
RestOK ==
    /\ stepState' \in [Steps -> StepStates]
    /\ due' \in [Steps -> BOOLEAN]
    /\ ripe' \subseteq Timers
    /\ prompt' \in [Steps -> {"none", "pending", "answered", "expired"}]
    /\ lapsed' \subseteq Steps
    /\ started' \in [Workers -> BOOLEAN]
    /\ lastOk' \in [Workers -> {"none", "this", "earlier"}]
    /\ faults' \in 0 .. MaxFaults
    /\ \A s \in Steps : stepState[s] \in StepTerminal => stepState'[s] \in StepTerminal
    /\ \A w \in Workers : lastOk'[w] # "earlier"

\* The parts of the type invariant that proofs ask for.
LEMMA Parts ==
    ASSUME TimersInv
    PROVE  /\ timer \in [Timers -> TimerType] /\ work \in [Workers -> WorkType]
           /\ \A t \in Timers : timer[t] \in TimerType /\ StepOf[t] \in Steps
           /\ \A w \in Workers : work[w] \in WorkType /\ work[w].todo \subseteq Timers
           /\ \A w \in Workers : work[w].age \in Nat
           /\ \A t \in Timers : timer[t].age \in Nat
  <1>1. timer \in [Timers -> TimerType] /\ work \in [Workers -> WorkType]
    BY DEF TimersInv, TypeOK, TimerType, WorkType
  <1>2. \A t \in Timers : timer[t] \in TimerType /\ StepOf[t] \in Steps
    BY <1>1, TimerGraphAssumption
  <1>3. \A w \in Workers : work[w] \in WorkType
    BY <1>1
  <1>4. \A w \in Workers : work[w].age \in Nat /\ work[w].todo \subseteq Timers
    BY <1>3 DEF WorkType
  <1>5. \A t \in Timers : timer[t].age \in Nat
    BY <1>2 DEF TimerType
  <1> QED
    BY <1>1, <1>2, <1>3, <1>4, <1>5

\* The type invariant, from its parts.
LEMMA TypesFromParts ==
    ASSUME RestOK, timer' \in [Timers -> TimerType], work' \in [Workers -> WorkType]
    PROVE  TypeOK' /\ Stamps'
  BY DEF RestOK, TypeOK, Stamps, TimerType, WorkType

\* A worker changes its tick and no timer: its batch does not grow, and it
\* does not come to acknowledge a deadline whose step is open.
LEMMA WorkStep ==
    ASSUME TimersInv, RestOK, timer' = timer,
           NEW w \in Workers, NEW q \in WorkType, work' = [work EXCEPT ![w] = q],
           q.todo \subseteq work[w].todo,
           q.todo # {} => q.age = work[w].age,
           q.phase \in {"look", "act", "ack", "retry"} => q.cur \in q.todo,
           q.phase = "ack" /\ timer[q.cur].kind = "STEP_DEADLINE"
              => stepState'[StepOf[q.cur]] \in StepTerminal
    PROVE  TimersInv'
  <1>0. \A v \in Workers : work'[v] = IF v = w THEN q ELSE work[v]
    BY Parts
  <1>1. TypeOK' /\ Stamps'
    BY Parts, TypesFromParts
  <1>2. Batches'
    BY <1>0 DEF Batches, TimersInv
  <1>3. Acks'
    <2> SUFFICES ASSUME NEW v \in Workers
                 PROVE  /\ work'[v].phase \in {"look", "act", "ack", "retry"}
                              => work'[v].cur \in work'[v].todo
                        /\ work'[v].phase = "ack" /\ timer'[work'[v].cur].kind = "STEP_DEADLINE"
                              => stepState'[StepOf[work'[v].cur]] \in StepTerminal
      BY DEF Acks, Ended
    <2>1. CASE v = w
      BY <1>0, <2>1
    <2>2. CASE v # w
      <3>1. work[v].phase \in {"look", "act", "ack", "retry"} => StepOf[work[v].cur] \in Steps
        BY Parts DEF TimersInv, Acks
      <3> QED
        BY <1>0, <2>2, <3>1 DEF TimersInv, Acks, Ended, RestOK
    <2> QED
      BY <2>1, <2>2
  <1>4. FiredDeadlineEndedStep'
    BY Parts DEF TimersInv, FiredDeadlineEndedStep, Ended, RestOK
  <1> QED
    BY <1>1, <1>2, <1>3, <1>4 DEF TimersInv

\* A worker gives up the timer it is at; if it still holds it, the timer has
\* fired, with its work done, or is pending again.
LEMMA ReleaseStep ==
    ASSUME TimersInv, RestOK,
           NEW w \in Workers, work[w].phase \in {"ack", "retry"},
           work' = [work EXCEPT ![w] = NextTimer(w)],
           HoldsTimer(w, work[w].cur),
           NEW r \in TimerType, timer' = [timer EXCEPT ![work[w].cur] = r],
           r.kind = timer[work[w].cur].kind,
           r.state \in {"PENDING", "FIRED"},
           r.state = "FIRED" => work[w].phase = "ack"
    PROVE  TimersInv'
  <1> DEFINE c == work[w].cur
  <1>0. c \in Timers /\ c \in work[w].todo /\ timer[c].state = "PROCESSING" /\ timer[c].token = w
    BY Parts DEF TimersInv, Acks, HoldsTimer
  <1>1. /\ NextTimer(w) \in WorkType /\ NextTimer(w).phase = "next"
        /\ NextTimer(w).todo = work[w].todo \ {c}
        /\ NextTimer(w).todo # {} => NextTimer(w).age = work[w].age
    BY Parts, NextTimerTyped
  <1>2. \A v \in Workers : work'[v] = IF v = w THEN NextTimer(w) ELSE work[v]
    BY Parts
  <1>3. \A t \in Timers : timer'[t] = IF t = c THEN r ELSE timer[t]
    BY Parts
  <1>4. TypeOK' /\ Stamps'
    <2>1. timer' \in [Timers -> TimerType] /\ work' \in [Workers -> WorkType]
      BY <1>0, <1>1, Parts
    <2> QED
      BY <2>1, TypesFromParts
  <1>5. Batches'
    <2> SUFFICES ASSUME NEW v \in Workers, NEW t \in work'[v].todo
                 PROVE  /\ timer'[t].state # "none"
                        /\ work'[v].age < ClaimTTL =>
                              /\ timer'[t].state = "PROCESSING" /\ timer'[t].token = v
                              /\ timer'[t].age <= work'[v].age
      BY DEF Batches
    <2>1. CASE v = w
      BY <1>1, <1>2, <1>3, <2>1, Parts DEF TimersInv, Batches
    <2>2. CASE v # w
      BY <1>0, <1>2, <1>3, <2>2, Parts DEF TimersInv, Batches
    <2> QED
      BY <2>1, <2>2
  <1>6. \A t \in Timers : timer'[t].kind = timer[t].kind
    BY <1>3
  <1>7. Acks'
    <2> SUFFICES ASSUME NEW v \in Workers
                 PROVE  /\ work'[v].phase \in {"look", "act", "ack", "retry"}
                              => work'[v].cur \in work'[v].todo
                        /\ work'[v].phase = "ack" /\ timer'[work'[v].cur].kind = "STEP_DEADLINE"
                              => stepState'[StepOf[work'[v].cur]] \in StepTerminal
      BY DEF Acks, Ended
    <2>1. CASE v = w
      BY <1>1, <1>2, <2>1
    <2>2. CASE v # w
      <3>1. work[v].phase \in {"look", "act", "ack", "retry"} =>
               work[v].cur \in Timers /\ StepOf[work[v].cur] \in Steps
        BY Parts DEF TimersInv, Acks
      <3> QED
        BY <1>2, <1>6, <2>2, <3>1 DEF TimersInv, Acks, Ended, RestOK
    <2> QED
      BY <2>1, <2>2
  <1>8. FiredDeadlineEndedStep'
    <2> SUFFICES ASSUME NEW t \in Timers, timer'[t].state = "FIRED", timer'[t].kind = "STEP_DEADLINE"
                 PROVE  stepState'[StepOf[t]] \in StepTerminal
      BY DEF FiredDeadlineEndedStep, Ended
    <2>1. stepState[StepOf[t]] \in StepTerminal
      BY <1>3, <1>6 DEF TimersInv, Acks, FiredDeadlineEndedStep, Ended
    <2> QED
      BY <2>1, Parts DEF RestOK
  <1> QED
    BY <1>4, <1>5, <1>7, <1>8 DEF TimersInv

\* Steps and prompts change, and neither a timer nor a tick.
LEMMA TablesStep ==
    ASSUME TimersInv, RestOK, work' = work, timer' = timer
    PROVE  TimersInv'
  <1>1. TypeOK' /\ Stamps'
    BY Parts, TypesFromParts
  <1>2. Batches'
    BY DEF TimersInv, Batches
  <1>3. Acks'
    <2>1. \A w \in Workers : work[w].phase = "ack" => StepOf[work[w].cur] \in Steps
      BY Parts DEF TimersInv, Acks
    <2> QED
      BY <2>1 DEF TimersInv, Acks, Ended, RestOK
  <1>4. FiredDeadlineEndedStep'
    BY Parts DEF TimersInv, FiredDeadlineEndedStep, Ended, RestOK
  <1> QED
    BY <1>1, <1>2, <1>3, <1>4 DEF TimersInv

\* What leaves the other variables alone.
LEMMA RestStays ==
    ASSUME TimersInv, UNCHANGED <<stepState, due, ripe, prompt, lapsed, started, lastOk, faults>>
    PROVE  RestOK
  BY DEF TimersInv, TypeOK, Stamps, RestOK

-----------------------------------------------------------------------------
\* What callers, the kernel and the clock do to timers, prompts and steps.
LEMMA CallerInv ==
    ASSUME TimersInv,
           \/ \E t \in Timers : CancelTimer(t) \/ Ripen(t) \/ \E kind \in Kinds : CreateTimer(t, kind)
           \/ \E s \in Steps : \/ CreateInteraction(s) \/ Lapse(s)
                               \/ \E releaseStep \in BOOLEAN : AnswerInteraction(s, releaseStep)
                               \/ \E to \in Reached : KernelMoves(s, to)
    PROVE  TimersInv'
  <1> USE DEF workerVars
  <1>1. ASSUME NEW t \in Timers, Ripen(t)
        PROVE  TimersInv'
    <2>1. RestOK
      BY <1>1 DEF Ripen, TimersInv, TypeOK, Stamps, RestOK
    <2> QED
      BY <1>1, <2>1, TablesStep DEF Ripen
  <1>2. ASSUME NEW s \in Steps, CreateInteraction(s) \/ Lapse(s)
        PROVE  TimersInv'
    <2>1. RestOK
      BY <1>2 DEF CreateInteraction, Lapse, TimersInv, TypeOK, Stamps, RestOK
    <2> QED
      BY <1>2, <2>1, TablesStep DEF CreateInteraction, Lapse
  <1>3. ASSUME NEW s \in Steps, NEW rel \in BOOLEAN, AnswerInteraction(s, rel)
        PROVE  TimersInv'
    <2>1. UNCHANGED <<timer, ripe, lapsed, work, started, lastOk, faults>>
      BY <1>3 DEF AnswerInteraction
    <2>2. prompt' \in [Steps -> {"none", "pending", "answered", "expired"}]
      BY <1>3 DEF AnswerInteraction, TimersInv, TypeOK
    <2>3. due' \in [Steps -> BOOLEAN]
      BY <1>3 DEF AnswerInteraction, TimersInv, TypeOK
    <2>4. /\ stepState' \in [Steps -> StepStates]
          /\ \A x \in Steps : stepState[x] \in StepTerminal => stepState'[x] \in StepTerminal
      BY <1>3 DEF AnswerInteraction, TimersInv, TypeOK, StepStates, StepTerminal
    <2>5. RestOK
      BY <2>1, <2>2, <2>3, <2>4 DEF TimersInv, TypeOK, Stamps, RestOK
    <2> QED
      BY <2>1, <2>5, TablesStep
  <1>4. ASSUME NEW s \in Steps, NEW to \in Reached, KernelMoves(s, to)
        PROVE  TimersInv'
    <2>1. UNCHANGED <<timer, ripe, prompt, lapsed, work, started, lastOk, faults>>
      BY <1>4 DEF KernelMoves
    <2>3. due' \in [Steps -> BOOLEAN]
      BY <1>4 DEF KernelMoves, TimersInv, TypeOK
    <2>4. /\ stepState' \in [Steps -> StepStates]
          /\ \A x \in Steps : stepState[x] \in StepTerminal => stepState'[x] \in StepTerminal
      BY <1>4, TimerGraphAssumption DEF KernelMoves, TimersInv, TypeOK, Ended
    <2>5. RestOK
      BY <2>1, <2>3, <2>4 DEF TimersInv, TypeOK, Stamps, RestOK
    <2> QED
      BY <2>1, <2>5, TablesStep
  <1>5. ASSUME NEW t \in Timers, NEW r \in TimerType, timer' = [timer EXCEPT ![t] = r],
               \/ timer[t].state = "none" /\ r.state = "PENDING"
               \/ timer[t].state = "PENDING" /\ r.state = "CANCELLED" /\ r.kind = timer[t].kind,
               work' = work,
               UNCHANGED <<stepState, due, ripe, prompt, lapsed, started, lastOk, faults>>
        PROVE  TimersInv'
    <2>0. RestOK
      BY <1>5, RestStays
    <2>1. \A u \in Timers : timer'[u] = IF u = t THEN r ELSE timer[u]
      BY <1>5, Parts
    <2>2. TypeOK' /\ Stamps'
      <3>1. timer' \in [Timers -> TimerType]
        BY <1>5, Parts
      <3> QED
        BY <1>5, <2>0, <3>1, Parts, TypesFromParts
    <2>3. Batches'
      BY <1>5, <2>1, Parts DEF TimersInv, Batches
    <2>4. Acks'
      <3> SUFFICES ASSUME NEW v \in Workers
                   PROVE  /\ work[v].phase \in {"look", "act", "ack", "retry"} => work[v].cur \in work[v].todo
                          /\ work[v].phase = "ack" /\ timer'[work[v].cur].kind = "STEP_DEADLINE"
                                => stepState[StepOf[work[v].cur]] \in StepTerminal
        BY <1>5 DEF Acks, Ended
      <3>1. work[v].phase = "ack" => work[v].cur \in Timers /\ timer[work[v].cur].state # "none"
        BY Parts DEF TimersInv, Acks, Batches
      <3>2. work[v].phase = "ack" => timer'[work[v].cur].kind = timer[work[v].cur].kind
        BY <1>5, <2>1, <3>1
      <3> QED
        BY <3>2 DEF TimersInv, Acks, Ended
    <2>5. FiredDeadlineEndedStep'
      BY <1>5, <2>1 DEF TimersInv, FiredDeadlineEndedStep, Ended
    <2> QED
      BY <2>2, <2>3, <2>4, <2>5 DEF TimersInv
  <1>6. ASSUME NEW t \in Timers, CancelTimer(t)
        PROVE  TimersInv'
    <2> DEFINE r == [timer[t] EXCEPT !.state = "CANCELLED"]
    <2>1. timer[t] \in TimerType
      BY Parts
    <2>2. r \in TimerType
      BY <2>1, TimerField
    <2>3. r.state = "CANCELLED" /\ r.kind = timer[t].kind
      BY <2>1 DEF TimerType
    <2>4. timer' = [timer EXCEPT ![t] = r] /\ timer[t].state = "PENDING"
      BY <1>6 DEF CancelTimer
    <2>5. UNCHANGED <<work, stepState, due, ripe, prompt, lapsed, started, lastOk, faults>>
      BY <1>6 DEF CancelTimer
    <2> HIDE DEF r
    <2> QED
      BY <1>5, <2>2, <2>3, <2>4, <2>5
  <1>7. ASSUME NEW t \in Timers, NEW kind \in Kinds, CreateTimer(t, kind)
        PROVE  TimersInv'
    <2> DEFINE r == [NoTimer EXCEPT !.state = "PENDING", !.kind = kind]
    <2>1. r \in TimerType /\ r.state = "PENDING"
      <3> DEFINE r1 == [NoTimer EXCEPT !.state = "PENDING"]
                 r2 == [r1 EXCEPT !.kind = kind]
      <3>1. NoTimer \in TimerType
        BY DEF NoTimer, TimerType
      <3>2. r1 \in TimerType /\ r1.state = "PENDING"
        BY <3>1, TimerField DEF TimerType
      <3>3. r = r2
        OBVIOUS
      <3> HIDE DEF r, r1
      <3>4. r2 \in TimerType /\ r2.state = "PENDING"
        BY <3>2, TimerField DEF TimerType
      <3> QED
        BY <3>3, <3>4
    <2>2. timer' = [timer EXCEPT ![t] = r] /\ timer[t].state = "none"
      BY <1>7 DEF CreateTimer
    <2>3. UNCHANGED <<work, stepState, due, ripe, prompt, lapsed, started, lastOk, faults>>
      BY <1>7 DEF CreateTimer
    <2> HIDE DEF r
    <2> QED
      BY <1>5, <2>1, <2>2, <2>3
  <1> QED
    BY <1>1, <1>2, <1>3, <1>4, <1>6, <1>7

\* A tick starts: its batch is stamped with its token, at age 0.
LEMMA ClaimInv ==
    ASSUME TimersInv, NEW w \in Workers, NEW B \in SUBSET Timers, ClaimExpiredTimers(w, B)
    PROVE  TimersInv'
  <1> DEFINE new(t) == IF t \in B
                       THEN [timer[t] EXCEPT !.state = "PROCESSING", !.token = w, !.age = 0]
                       ELSE timer[t]
             q == [IdleWork EXCEPT !.phase = "next", !.todo = B, !.current = TRUE]
  <1>0. /\ timer' = [t \in Timers |-> new(t)]
        /\ work' = [work EXCEPT ![w] = q]
        /\ UNCHANGED <<stepState, due, ripe, prompt, lapsed, started, lastOk, faults>>
    BY DEF ClaimExpiredTimers
  <1>1. ASSUME NEW t \in Timers
        PROVE  /\ new(t) \in TimerType /\ new(t).kind = timer[t].kind
               /\ t \in B => new(t).state = "PROCESSING" /\ new(t).token = w /\ new(t).age = 0
               /\ t \notin B => new(t) = timer[t]
    <2>1. timer[t] \in TimerType
      BY Parts
    <2>2. CASE t \in B
      <3> DEFINE r1 == [timer[t] EXCEPT !.state = "PROCESSING"]
                 r2 == [r1 EXCEPT !.token = w]
                 r3 == [r2 EXCEPT !.age = 0]
      <3>1. r1 \in TimerType /\ r1.state = "PROCESSING" /\ r1.kind = timer[t].kind
        BY <2>1, TimerField DEF TimerType
      <3>2. new(t) = r3
        BY <2>2
      <3> HIDE DEF new, r1
      <3>3. r2 \in TimerType /\ r2.state = "PROCESSING" /\ r2.kind = timer[t].kind /\ r2.token = w
        BY <3>1, TimerField DEF TimerType
      <3> HIDE DEF r2
      <3>4. /\ r3 \in TimerType /\ r3.state = "PROCESSING" /\ r3.kind = timer[t].kind
            /\ r3.token = w /\ r3.age = 0
        BY <3>3, TimerField DEF TimerType
      <3> HIDE DEF r3
      <3> QED
        BY <2>2, <3>4, <3>2
    <2>3. CASE t \notin B
      BY <2>1, <2>3
    <2> QED
      BY <2>2, <2>3
  <1>2. q \in WorkType /\ q.phase = "next" /\ q.todo = B /\ q.age = 0
    <2> DEFINE q1 == [IdleWork EXCEPT !.phase = "next"]
               q2 == [q1 EXCEPT !.todo = B]
               q3 == [q2 EXCEPT !.current = TRUE]
    <2>1. IdleWork \in WorkType /\ IdleWork.age = 0 /\ "next" \in Phases
      BY DEF IdleWork, WorkType, Phases
    <2>2. q1 \in WorkType /\ q1.phase = "next" /\ q1.age = 0
      BY <2>1, WorkField DEF WorkType
    <2>3. q = q3
      OBVIOUS
    <2> HIDE DEF q, q1
    <2>4. q2 \in WorkType /\ q2.phase = "next" /\ q2.todo = B /\ q2.age = 0
      BY <2>2, WorkField DEF WorkType
    <2> HIDE DEF q2
    <2>5. q3 \in WorkType /\ q3.phase = "next" /\ q3.todo = B /\ q3.age = 0
      BY <2>4, WorkField DEF WorkType
    <2> QED
      BY <2>3, <2>5
  <1>3. \A t \in B : t \in Timers /\ (timer[t].state = "PENDING" \/ timer[t].age >= ClaimTTL)
    BY DEF ClaimExpiredTimers, ClaimableTimer
  <1> HIDE DEF new, q
  <1>4. \A v \in Workers : work'[v] = IF v = w THEN q ELSE work[v]
    BY <1>0, Parts
  <1>5. \A t \in Timers : timer'[t] = new(t)
    BY <1>0
  <1>6. RestOK
    BY <1>0, RestStays
  <1>7. TypeOK' /\ Stamps'
    <2>1. timer' \in [Timers -> TimerType]
      BY <1>0, <1>1
    <2>2. work' \in [Workers -> WorkType]
      BY <1>0, <1>2, Parts
    <2> QED
      BY <1>6, <2>1, <2>2, TypesFromParts
  <1>8. Batches'
    <2> SUFFICES ASSUME NEW v \in Workers, NEW t \in work'[v].todo
                 PROVE  /\ timer'[t].state # "none"
                        /\ work'[v].age < ClaimTTL =>
                              /\ timer'[t].state = "PROCESSING" /\ timer'[t].token = v
                              /\ timer'[t].age <= work'[v].age
      BY DEF Batches
    <2>1. CASE v = w
      BY <1>1, <1>2, <1>4, <1>5, <2>1
    <2>2. CASE v # w /\ t \in B
      <3>1. t \in work[v].todo /\ work'[v] = work[v]
        BY <1>4, <2>2
      <3>2. ~(work[v].age < ClaimTTL)
        BY <1>3, <2>2, <3>1, Parts DEF TimersInv, Batches
      <3> QED
        BY <1>1, <1>3, <1>5, <2>2, <3>1, <3>2
    <2>3. CASE v # w /\ t \notin B
      <3>1. t \in work[v].todo /\ t \in Timers /\ work'[v] = work[v]
        BY <1>4, <2>3, Parts
      <3>2. timer'[t] = timer[t]
        BY <1>1, <1>5, <2>3, <3>1
      <3> QED
        BY <3>1, <3>2 DEF TimersInv, Batches
    <2> QED
      BY <2>1, <2>2, <2>3
  <1>9. Acks'
    <2> SUFFICES ASSUME NEW v \in Workers
                 PROVE  /\ work'[v].phase \in {"look", "act", "ack", "retry"}
                              => work'[v].cur \in work'[v].todo
                        /\ work'[v].phase = "ack" /\ timer'[work'[v].cur].kind = "STEP_DEADLINE"
                              => stepState[StepOf[work'[v].cur]] \in StepTerminal
      BY <1>0 DEF Acks, Ended
    <2>1. CASE v = w
      BY <1>2, <1>4, <2>1
    <2>2. CASE v # w
      <3>1. work[v].phase = "ack" => timer'[work[v].cur].kind = timer[work[v].cur].kind
        BY <1>1, <1>5, Parts DEF TimersInv, Acks
      <3> QED
        BY <1>4, <2>2, <3>1 DEF TimersInv, Acks, Ended
    <2> QED
      BY <2>1, <2>2
  <1>10. FiredDeadlineEndedStep'
    BY <1>0, <1>1, <1>5 DEF TimersInv, FiredDeadlineEndedStep, Ended
  <1> QED
    BY <1>7, <1>8, <1>9, <1>10 DEF TimersInv

\* Time passes for the claims and for those who hold them alike.
LEMMA TickInv ==
    ASSUME TimersInv, Tick
    PROVE  TimersInv'
  <1> DEFINE new(t) == IF timer[t].state = "PROCESSING"
                       THEN [timer[t] EXCEPT !.age = Older(@)] ELSE timer[t]
             nw(v) == IF work[v].todo # {} THEN [work[v] EXCEPT !.age = Older(@)] ELSE work[v]
  <1>0. /\ timer' = [t \in Timers |-> new(t)]
        /\ work' = [v \in Workers |-> nw(v)]
        /\ UNCHANGED <<stepState, due, ripe, prompt, lapsed, started, lastOk, faults>>
    BY DEF Tick
  <1>1. ASSUME NEW t \in Timers
        PROVE  /\ new(t) \in TimerType /\ new(t).kind = timer[t].kind
               /\ new(t).state = timer[t].state /\ new(t).token = timer[t].token
               /\ new(t).age = IF timer[t].state = "PROCESSING" THEN Older(timer[t].age) ELSE timer[t].age
    <2>1. timer[t] \in TimerType
      BY Parts
    <2>2. CASE timer[t].state = "PROCESSING"
      <3> DEFINE q == [timer[t] EXCEPT !.age = Older(@)]
      <3>1. /\ q \in TimerType /\ q.age = Older(timer[t].age)
            /\ q.state = timer[t].state /\ q.kind = timer[t].kind /\ q.token = timer[t].token
        BY <2>1, TimerTyped
      <3>2. new(t) = q
        BY <2>2
      <3> HIDE DEF new, q
      <3> QED
        BY <2>2, <3>1, <3>2
    <2>3. CASE timer[t].state # "PROCESSING"
      BY <2>1, <2>3
    <2> QED
      BY <2>2, <2>3
  <1>2. ASSUME NEW v \in Workers
        PROVE  /\ nw(v) \in WorkType /\ nw(v).phase = work[v].phase /\ nw(v).cur = work[v].cur
               /\ nw(v).todo = work[v].todo
               /\ nw(v).todo # {} => nw(v).age = Older(work[v].age)
    <2>1. work[v] \in WorkType
      BY Parts
    <2>2. CASE work[v].todo # {}
      <3> DEFINE q == [work[v] EXCEPT !.age = Older(@)]
      <3>1. /\ q \in WorkType /\ q.phase = work[v].phase /\ q.cur = work[v].cur
            /\ q.todo = work[v].todo /\ q.age = Older(work[v].age)
        BY <2>1, WorkTyped
      <3>2. nw(v) = q
        BY <2>2
      <3> HIDE DEF nw, q
      <3> QED
        BY <3>1, <3>2
    <2>3. CASE work[v].todo = {}
      BY <2>1, <2>3
    <2> QED
      BY <2>2, <2>3
  <1> HIDE DEF new, nw
  <1>3. (\A t \in Timers : timer'[t] = new(t)) /\ \A v \in Workers : work'[v] = nw(v)
    BY <1>0
  <1>4. RestOK
    BY <1>0, RestStays
  <1>5. TypeOK' /\ Stamps'
    BY <1>0, <1>1, <1>2, <1>4, TypesFromParts
  <1>6. Batches'
    <2> SUFFICES ASSUME NEW v \in Workers, NEW t \in work'[v].todo
                 PROVE  /\ timer'[t].state # "none"
                        /\ work'[v].age < ClaimTTL =>
                              /\ timer'[t].state = "PROCESSING" /\ timer'[t].token = v
                              /\ timer'[t].age <= work'[v].age
      BY DEF Batches
    <2>1. t \in work[v].todo /\ t \in Timers /\ work'[v].age = Older(work[v].age)
      BY <1>2, <1>3, Parts
    <2>2. /\ timer'[t].state = timer[t].state /\ timer'[t].token = timer[t].token
          /\ timer'[t].age = IF timer[t].state = "PROCESSING" THEN Older(timer[t].age) ELSE timer[t].age
      BY <1>1, <1>3, <2>1
    <2>3. work[v].age \in Nat /\ timer[t].age \in Nat
      BY <2>1, Parts
    <2>4. /\ timer[t].state # "none"
          /\ work[v].age < ClaimTTL =>
                /\ timer[t].state = "PROCESSING" /\ timer[t].token = v
                /\ timer[t].age <= work[v].age
      BY <2>1 DEF TimersInv, Batches
    <2> QED
      BY <2>1, <2>2, <2>3, <2>4 DEF Older
  <1>7. Acks'
    <2> SUFFICES ASSUME NEW v \in Workers
                 PROVE  /\ work'[v].phase \in {"look", "act", "ack", "retry"}
                              => work'[v].cur \in work'[v].todo
                        /\ work'[v].phase = "ack" /\ timer'[work'[v].cur].kind = "STEP_DEADLINE"
                              => stepState[StepOf[work'[v].cur]] \in StepTerminal
      BY <1>0 DEF Acks, Ended
    <2>1. work'[v].phase = work[v].phase /\ work'[v].cur = work[v].cur /\ work'[v].todo = work[v].todo
      BY <1>2, <1>3
    <2>2. work[v].phase = "ack" => timer'[work[v].cur].kind = timer[work[v].cur].kind
      BY <1>1, <1>3, Parts DEF TimersInv, Acks
    <2> QED
      BY <2>1, <2>2 DEF TimersInv, Acks, Ended
  <1>8. FiredDeadlineEndedStep'
    BY <1>0, <1>1, <1>3 DEF TimersInv, FiredDeadlineEndedStep, Ended
  <1> QED
    BY <1>5, <1>6, <1>7, <1>8 DEF TimersInv
-----------------------------------------------------------------------------
\* A tick that is over.
LEMMA IdleTyped == IdleWork \in WorkType /\ IdleWork.todo = {} /\ IdleWork.phase = "idle"
  BY DEF IdleWork, WorkType, Phases

\* processFiredTimer: an interaction timeout and a deadline look at the step
\* first, a retry delay is done.
LEMMA ProcessInv ==
    ASSUME TimersInv, NEW w \in Workers, NEW t \in Timers, ProcessFiredTimer(w, t)
    PROVE  TimersInv'
  <1>1. /\ t \in work[w].todo
        /\ UNCHANGED <<stepState, timer, ripe, lapsed, started, lastOk, faults>>
    BY DEF ProcessFiredTimer
  <1>2. \/ work' = [work EXCEPT ![w] = [work[w] EXCEPT !.phase = "look", !.cur = t]]
        \/ /\ work' = [work EXCEPT ![w] = [work[w] EXCEPT !.phase = "ack", !.cur = t]]
           /\ timer[t].kind = "RETRY_DELAY"
    BY DEF ProcessFiredTimer
  <1>3. due' \in [Steps -> BOOLEAN]
    BY DEF ProcessFiredTimer, TimersInv, TypeOK
  <1>4. prompt' \in [Steps -> {"none", "pending", "answered", "expired"}]
    BY DEF ProcessFiredTimer, ExpireStaleInteractions, TimersInv, TypeOK
  <1>5. RestOK
    BY <1>1, <1>3, <1>4 DEF RestOK, TimersInv, TypeOK, Stamps
  <1>6. ASSUME NEW x \in {"look", "ack"},
               work' = [work EXCEPT ![w] = [work[w] EXCEPT !.phase = x, !.cur = t]],
               x = "ack" => timer[t].kind = "RETRY_DELAY"
        PROVE  TimersInv'
    <2> DEFINE q == [work[w] EXCEPT !.phase = x, !.cur = t]
    <2>1. work[w] \in WorkType /\ x \in Phases
      BY Parts DEF Phases
    <2>2. work' = [work EXCEPT ![w] = q]
      BY <1>6
    <2> DEFINE q1 == [work[w] EXCEPT !.phase = x]
               q2 == [q1 EXCEPT !.cur = t]
    <2>3. q = q2
      OBVIOUS
    <2>4. q1 \in WorkType /\ q1.phase = x /\ q1.todo = work[w].todo /\ q1.age = work[w].age
      BY <2>1, WorkField DEF WorkType
    <2> HIDE DEF q, q1
    <2>5. /\ q2 \in WorkType /\ q2.phase = x /\ q2.cur = t
          /\ q2.todo = work[w].todo /\ q2.age = work[w].age
      BY <2>1, <2>4, WorkField DEF WorkType
    <2> HIDE DEF q2
    <2>6. q \in WorkType /\ q.phase = x /\ q.cur = t /\ q.todo = work[w].todo /\ q.age = work[w].age
      BY <2>3, <2>5
    <2> QED
      BY <1>1, <1>5, <1>6, <2>6, <2>2, WorkStep
  <1> QED
    BY <1>2, <1>6

\* A step on to another phase with the same timer at hand.
LEMMA PhaseStep ==
    ASSUME TimersInv, RestOK, timer' = timer, NEW w \in Workers, NEW x \in Phases,
           work' = [work EXCEPT ![w].phase = x],
           work[w].phase \in {"look", "act", "ack"},
           x = "ack" /\ timer[work[w].cur].kind = "STEP_DEADLINE"
              => stepState'[StepOf[work[w].cur]] \in StepTerminal
    PROVE  TimersInv'
  <1> DEFINE q == [work[w] EXCEPT !.phase = x]
  <1>1. work[w] \in WorkType
    BY Parts
  <1>2. /\ q \in WorkType /\ q.phase = x /\ q.cur = work[w].cur
        /\ q.todo = work[w].todo /\ q.age = work[w].age
    BY <1>1, WorkTyped
  <1>3. work' = [work EXCEPT ![w] = q]
    OBVIOUS
  <1>4. q.cur \in q.todo
    BY <1>2 DEF TimersInv, Acks
  <1> HIDE DEF q
  <1>5. q.phase = "ack" /\ timer[q.cur].kind = "STEP_DEADLINE"
           => stepState'[StepOf[q.cur]] \in StepTerminal
    BY <1>2
  <1>6. q.todo \subseteq work[w].todo /\ (q.todo # {} => q.age = work[w].age)
    BY <1>2
  <1> QED
    BY <1>2, <1>3, <1>4, <1>5, <1>6, WorkStep

\* getStep: a deadline whose step is open leads to failStepByTimer.
LEMMA LookInv ==
    ASSUME TimersInv, NEW w \in Workers, GetStep(w)
    PROVE  TimersInv'
  <1> DEFINE acts == Fails(timer[work[w].cur].kind, stepState[StepOf[work[w].cur]])
             x == IF acts THEN "act" ELSE "ack"
  <1>1. /\ work[w].phase = "look" /\ work' = [work EXCEPT ![w].phase = x]
        /\ UNCHANGED <<stepState, due, timer, ripe, prompt, lapsed, started, lastOk, faults>>
    BY DEF GetStep, tableVars
  <1>2. RestOK
    BY <1>1, RestStays
  <1>3. x \in Phases
    BY DEF Phases
  <1>4. x = "ack" /\ timer[work[w].cur].kind = "STEP_DEADLINE"
           => stepState'[StepOf[work[w].cur]] \in StepTerminal
    BY <1>1 DEF Fails
  <1> HIDE DEF x
  <1> QED
    BY <1>1, <1>2, <1>3, <1>4, PhaseStep

\* failStepByTimer leaves the step terminal.
LEMMA FailInv ==
    ASSUME TimersInv, NEW w \in Workers, FailStepByTimer(w)
    PROVE  TimersInv'
  <1> DEFINE s == StepOf[work[w].cur]
  <1>1. /\ work[w].phase = "act" /\ work' = [work EXCEPT ![w].phase = "ack"]
        /\ stepState' = IF stepState[s] \in StepTerminal THEN stepState
                        ELSE [stepState EXCEPT ![s] = "FAILED"]
        /\ UNCHANGED <<due, timer, ripe, prompt, lapsed, started, lastOk, faults>>
    BY DEF FailStepByTimer, Ended
  <1>2. s \in Steps
    BY <1>1, Parts DEF TimersInv, Acks
  <1> HIDE DEF s
  <1>3. stepState \in [Steps -> StepStates]
    BY DEF TimersInv, TypeOK
  <1>4. /\ stepState' \in [Steps -> StepStates]
        /\ \A x \in Steps : stepState[x] \in StepTerminal => stepState'[x] \in StepTerminal
        /\ stepState'[s] \in StepTerminal
    BY <1>1, <1>2, <1>3 DEF StepStates, StepTerminal
  <1>5. RestOK
    BY <1>1, <1>4 DEF TimersInv, TypeOK, Stamps, RestOK
  <1>6. "ack" \in Phases
    BY DEF Phases
  <1> QED
    BY <1>1, <1>4, <1>5, <1>6, PhaseStep DEF s

\* The acknowledgement, fenced by the token.
LEMMA AckInv ==
    ASSUME TimersInv, NEW w \in Workers, AcknowledgeTimer(w)
    PROVE  TimersInv'
  <1> DEFINE c == work[w].cur
             r == [timer[c] EXCEPT !.state = "FIRED", !.token = None, !.age = 0]
  <1>1. /\ work[w].phase = "ack"
        /\ UNCHANGED <<stepState, due, ripe, prompt, lapsed, started, lastOk, faults>>
    BY DEF AcknowledgeTimer
  <1>2. RestOK
    BY <1>1, RestStays
  <1>3. CASE HoldsTimer(w, c)
    <2>1. /\ work' = [work EXCEPT ![w] = NextTimer(w)]
          /\ timer' = [timer EXCEPT ![c].state = "FIRED", ![c].token = None, ![c].age = 0]
      BY <1>3 DEF AcknowledgeTimer
    <2>2. c \in Timers /\ timer[c] \in TimerType
      BY <1>1, Parts DEF TimersInv, Acks
    <2>3. timer' = [timer EXCEPT ![c] = r]
      BY <2>1, <2>2, Parts
    <2>4. r \in TimerType /\ r.state = "FIRED" /\ r.kind = timer[c].kind
      BY <2>2, TimerTyped
    <2> HIDE DEF r
    <2> QED
      BY <1>1, <1>2, <1>3, <2>1, <2>3, <2>4, ReleaseStep
  <1>4. CASE ~HoldsTimer(w, c)
    <2>1. work' = [work EXCEPT ![w].phase = "retry"] /\ timer' = timer
      BY <1>4 DEF AcknowledgeTimer
    <2>2. "retry" \in Phases
      BY DEF Phases
    <2> QED
      BY <1>1, <1>2, <2>1, <2>2, PhaseStep
  <1> QED
    BY <1>3, <1>4

\* The timer is given back, fenced by the token, and the batch goes on.
LEMMA RetryInv ==
    ASSUME TimersInv, NEW w \in Workers, RetryTimer(w)
    PROVE  TimersInv'
  <1> DEFINE c == work[w].cur
             r == [timer[c] EXCEPT !.state = "PENDING", !.token = None, !.age = 0]
  <1>1. /\ work[w].phase = "retry" /\ work' = [work EXCEPT ![w] = NextTimer(w)]
        /\ UNCHANGED <<stepState, due, ripe, prompt, lapsed, started, lastOk, faults>>
    BY DEF RetryTimer
  <1>2. RestOK
    BY <1>1, RestStays
  <1>3. CASE HoldsTimer(w, c)
    <2>1. timer' = [timer EXCEPT ![c].state = "PENDING", ![c].token = None, ![c].age = 0]
      BY <1>3 DEF RetryTimer
    <2>2. c \in Timers /\ timer[c] \in TimerType
      BY <1>1, Parts DEF TimersInv, Acks
    <2>3. timer' = [timer EXCEPT ![c] = r]
      BY <2>1, <2>2, Parts
    <2>4. r \in TimerType /\ r.state = "PENDING" /\ r.kind = timer[c].kind
      BY <2>2, TimerTyped
    <2> HIDE DEF r
    <2> QED
      BY <1>1, <1>2, <1>3, <2>3, <2>4, ReleaseStep
  <1>4. CASE ~HoldsTimer(w, c)
    <2>1. timer' = timer
      BY <1>4 DEF RetryTimer
    <2>2. /\ NextTimer(w) \in WorkType /\ NextTimer(w).phase = "next"
          /\ NextTimer(w).todo \subseteq work[w].todo
          /\ NextTimer(w).todo # {} => NextTimer(w).age = work[w].age
      BY Parts, NextTimerTyped
    <2> QED
      BY <1>1, <1>2, <2>1, <2>2, WorkStep
  <1> QED
    BY <1>3, <1>4

\* The end of a tick: a stamp of this epoch or none.
LEMMA FinishInv ==
    ASSUME TimersInv, NEW w \in Workers, FinishTick(w)
    PROVE  TimersInv'
  <1>1. /\ work' = [work EXCEPT ![w] = IdleWork]
        /\ UNCHANGED <<stepState, due, timer, ripe, lapsed, started, faults>>
    BY DEF FinishTick
  <1>2. /\ lastOk' \in [Workers -> {"none", "this", "earlier"}]
        /\ \A v \in Workers : lastOk'[v] # "earlier"
    BY DEF FinishTick, TimersInv, TypeOK, Stamps
  <1>3. prompt' \in [Steps -> {"none", "pending", "answered", "expired"}]
    BY DEF FinishTick, ExpireStaleInteractions, TimersInv, TypeOK
  <1>4. RestOK
    BY <1>1, <1>2, <1>3 DEF TimersInv, TypeOK, RestOK
  <1> QED
    BY <1>1, <1>4, IdleTyped, WorkStep

\* A call throws: the timer at hand is to be given back, or the tick ends.
LEMMA ThrowInv ==
    ASSUME TimersInv, NEW w \in Workers, CallThrows(w)
    PROVE  TimersInv'
  <1>1. /\ faults < MaxFaults /\ faults' = faults + 1
        /\ UNCHANGED <<stepState, due, timer, ripe, prompt, lapsed, started, lastOk>>
    BY DEF CallThrows, tableVars
  <1>2. RestOK
    BY <1>1 DEF TimersInv, TypeOK, Stamps, RestOK
  <1>3. "retry" \in Phases
    BY DEF Phases
  <1>4. CASE work[w].phase \in {"look", "act", "ack"} /\ work' = [work EXCEPT ![w].phase = "retry"]
    BY <1>1, <1>2, <1>3, <1>4, PhaseStep
  <1>5. ASSUME NEW t \in work[w].todo,
               work' = [work EXCEPT ![w] = [work[w] EXCEPT !.phase = "retry", !.cur = t]]
        PROVE  TimersInv'
    <2> DEFINE q == [work[w] EXCEPT !.phase = "retry", !.cur = t]
    <2>1. work[w] \in WorkType /\ t \in Timers
      BY Parts
    <2>2. work' = [work EXCEPT ![w] = q]
      BY <1>5
    <2> DEFINE q1 == [work[w] EXCEPT !.phase = "retry"]
               q2 == [q1 EXCEPT !.cur = t]
    <2>3. q = q2
      OBVIOUS
    <2>4. q1 \in WorkType /\ q1.phase = "retry" /\ q1.todo = work[w].todo /\ q1.age = work[w].age
      BY <1>3, <2>1, WorkField DEF WorkType
    <2> HIDE DEF q, q1
    <2>5. /\ q2 \in WorkType /\ q2.phase = "retry" /\ q2.cur = t
          /\ q2.todo = work[w].todo /\ q2.age = work[w].age
      BY <2>1, <2>4, WorkField DEF WorkType
    <2> HIDE DEF q2
    <2>6. q \in WorkType /\ q.phase = "retry" /\ q.cur = t /\ q.todo = work[w].todo /\ q.age = work[w].age
      BY <2>3, <2>5
    <2> QED
      BY <1>1, <1>2, <1>5, <2>6, <2>2, WorkStep
  <1>6. CASE work' = [work EXCEPT ![w] = IdleWork]
    BY <1>1, <1>2, <1>6, IdleTyped, WorkStep
  <1> QED
    BY <1>4, <1>5, <1>6 DEF CallThrows

\* stop(), start() and the death of the process.
LEMMA LifecycleInv ==
    ASSUME TimersInv, NEW w \in Workers, Stop(w) \/ Start(w) \/ WorkerCrash(w)
    PROVE  TimersInv'
  <1> USE DEF tableVars
  <1>1. CASE Start(w)
    <2>1. RestOK
      BY <1>1 DEF Start, TimersInv, TypeOK, Stamps, RestOK
    <2> QED
      BY <1>1, <2>1, TablesStep DEF Start
  <1>2. CASE WorkerCrash(w)
    <2>1. RestOK
      BY <1>2 DEF WorkerCrash, TimersInv, TypeOK, Stamps, RestOK
    <2> QED
      BY <1>2, <2>1, IdleTyped, WorkStep DEF WorkerCrash
  <1>3. CASE Stop(w)
    <2> DEFINE q == [work[w] EXCEPT !.current = FALSE]
    <2>1. RestOK
      BY <1>3 DEF Stop, TimersInv, TypeOK, Stamps, RestOK
    <2>2. work[w] \in WorkType
      BY Parts
    <2>3. /\ q \in WorkType /\ q.phase = work[w].phase /\ q.cur = work[w].cur
          /\ q.todo = work[w].todo /\ q.age = work[w].age
      BY <2>2, WorkTyped
    <2>4. work' = [work EXCEPT ![w] = q] /\ UNCHANGED <<timer, stepState>>
      BY <1>3 DEF Stop
    <2>5. /\ work[w].phase \in {"look", "act", "ack", "retry"} => work[w].cur \in work[w].todo
          /\ work[w].phase = "ack" /\ timer[work[w].cur].kind = "STEP_DEADLINE"
                => stepState[StepOf[work[w].cur]] \in StepTerminal
      BY DEF TimersInv, Acks, Ended
    <2> HIDE DEF q
    <2> QED
      BY <2>1, <2>3, <2>4, <2>5, WorkStep
  <1> QED
    BY <1>1, <1>2, <1>3

-----------------------------------------------------------------------------
\* The invariant holds initially.
LEMMA InitInv == Init => TimersInv
  <1> SUFFICES ASSUME Init PROVE TimersInv
    OBVIOUS
  <1>1. NoTimer \in TimerType
    BY DEF NoTimer, TimerType
  <1>2. timer \in [Timers -> TimerType] /\ work \in [Workers -> WorkType]
    BY <1>1, IdleTyped DEF Init
  <1>3. stepState \in [Steps -> StepStates]
    BY DEF Init, StepStates
  <1>4. TypeOK
    BY <1>2, <1>3 DEF Init, TypeOK, TimerType, WorkType
  <1>5. Batches /\ Acks
    BY IdleTyped DEF Init, Batches, Acks
  <1>6. Stamps /\ FiredDeadlineEndedStep
    BY DEF Init, Stamps, FiredDeadlineEndedStep, NoTimer
  <1> QED
    BY <1>4, <1>5, <1>6 DEF TimersInv

\* And every step keeps it.
LEMMA NextInv == TimersInv /\ [Next]_vars => TimersInv'
  <1> SUFFICES ASSUME TimersInv, [Next]_vars
               PROVE  TimersInv'
    OBVIOUS
  <1>1. CASE UNCHANGED vars
    <2>1. UNCHANGED <<stepState, due, timer, ripe, prompt, lapsed, work, started, lastOk, faults>>
      BY <1>1 DEF vars, tableVars, workerVars
    <2>2. RestOK
      BY <2>1, RestStays
    <2> QED
      BY <2>1, <2>2, TablesStep
  <1>2. ASSUME NEW w \in Workers, WorkerStep(w)
        PROVE  TimersInv'
    BY <1>2, ClaimInv, ProcessInv, LookInv, FailInv, AckInv, RetryInv, FinishInv DEF WorkerStep
  <1>3. ASSUME NEW w \in Workers, CallThrows(w) \/ Stop(w) \/ Start(w) \/ WorkerCrash(w)
        PROVE  TimersInv'
    BY <1>3, ThrowInv, LifecycleInv
  <1>4. CASE Tick
    BY <1>4, TickInv
  <1> QED
    BY <1>1, <1>2, <1>3, <1>4, CallerInv DEF Next

(* TimersInv is inductive, so it holds of every reachable state of the     *)
(* timers table and of the workers of timerWakeupWorker.ts.                *)
THEOREM TimersInvariant == Spec => []TimersInv
  BY InitInv, NextInv, PTL DEF Spec

(* The rows of commander_timers and commander_interactions, and the local  *)
(* variables of the workers, keep their types.                             *)
THEOREM TimersTypeCorrect == Spec => []TypeOK
  <1>1. TimersInv => TypeOK
    BY DEF TimersInv
  <1> QED
    BY <1>1, TimersInvariant, PTL

(* For any number of workers, however often they overrun their claims: the *)
(* timers claimExpiredTimers gave to a tick are its own for ClaimTTL.      *)
THEOREM ClaimsAreExclusive == Spec => []ClaimIsExclusive
  <1>1. TimersInv => ClaimIsExclusive
    BY DEF TimersInv, Batches, ClaimIsExclusive
  <1> QED
    BY <1>1, TimersInvariant, PTL

(* acknowledgeTimer marks a deadline FIRED only when its step has ended,   *)
(* whichever worker called failStepByTimer and whatever threw in between.  *)
THEOREM DeadlinesEndSteps == Spec => []FiredDeadlineEndedStep
  <1>1. TimersInv => FiredDeadlineEndedStep
    BY DEF TimersInv
  <1> QED
    BY <1>1, TimersInvariant, PTL

(* A tick in flight across stop() or start() never stamps lastOkAt of a    *)
(* worker that has been restarted.                                         *)
THEOREM HealthStaysFresh == Spec => []HealthIsFresh
  <1>1. TimersInv => HealthIsFresh
    BY DEF TimersInv, Stamps, HealthIsFresh
  <1> QED
    BY <1>1, TimersInvariant, PTL
=============================================================================
