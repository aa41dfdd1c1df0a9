------------------------ MODULE WorkerServiceProofs -------------------------
(***************************************************************************)
(* Safety of WorkerService for all steps, callers of pollOnce, limits and  *)
(* lease times.                                                            *)
(*                                                                         *)
(* Capacity rests on who owns what: a claim that was answered belongs to   *)
(* one caller, so it becomes one task.  What happens to steps rests on the *)
(* lease: only the task of the latest claim can write to the row, so the   *)
(* row and that one task are enough to judge a step.                       *)
(***************************************************************************)
EXTENDS WorkerService, FiniteSetTheorems, TLAPS

RowType ==
    [state : {"ready", "running", "parked", "succeeded", "failed"},
     claims : 0 .. MaxClaims, ttl : 0 .. LeaseTTL,
     attempt : 0 .. MaxClaims, effect : {"none", "admitted", "unknown"}, paused : BOOLEAN,
     actor : {"none", "worker", "kernel"}]

TaskStates == Busy \cup {"none", "claimed", "returned to the queue", "gone"}

\* An answered claim is of one caller, and its task has not begun.
AnswersOwned ==
    /\ \A p \in Pollers : poll[p].at = "answered" => task[poll[p].lease] = "claimed"
    /\ \A p, q \in Pollers :
          poll[p].at = "answered" /\ poll[q].at = "answered" /\ p # q => poll[p].lease # poll[q].lease

\* Leases that were not handed out have no task.
FutureLeases == \A l \in Lease : l[2] > row[l[1]].claims => task[l] = "none"

\* What has been reported as the executor's result was its result.
ResultsKnown == \A l \in Lease : task[l] = "returned" => l \in okay

\* The sums of the invariant are of finite sets.
Occupied == IsFiniteSet(Active) /\ IsFiniteSet(Inflight) /\ CapacityHeld

\* The attempts a step has behind it and, unless it was paused, ahead of it.
AttemptsCounted(s) ==
    /\ row[s].state # "ready" => row[s].claims >= 1
    /\ row[s].attempt <= row[s].claims
    /\ row[s].state = "running" => row[s].attempt >= 1
    /\ ~row[s].paused /\ row[s].state = "ready" => row[s].attempt < MaxAttempts
    /\ ~row[s].paused /\ row[s].state = "running" => row[s].attempt <= MaxAttempts

\* How a step of the worker ended.
EndJustified(s) ==
    /\ row[s].state = "succeeded" => <<s, row[s].claims>> \in okay
    /\ row[s].state = "failed" /\ row[s].actor = "worker" /\ ~row[s].paused
          => task[<<s, row[s].claims>>] \in {"fatal", "retryable", "gone"}

\* Unless somebody else is responsible, an admitted effect is that of a running
\* step and an unknown one that of a parked step; and while the lease lives, a
\* task that could end or return its step has settled its effect.
EffectSettled(s) ==
    /\ row[s].effect # "none" /\ ~Excused(s) => row[s].state \in {"running", "parked"}
    /\ row[s].effect = "unknown" /\ ~Excused(s) => row[s].state # "running"
    /\ ~Excused(s) /\ row[s].state = "running" /\ row[s].ttl > 0 /\ ~Closed
       /\ registry # "superseded"
       /\ task[<<s, row[s].claims>>] \in {"claimed", "returned", "retryable", "fatal"}
          => row[s].effect = "none"

StepOK(s) == AttemptsCounted(s) /\ EndJustified(s) /\ EffectSettled(s)

\* The inductive invariant.
ServiceInv ==
    /\ TypeOK
    /\ AnswersOwned
    /\ FutureLeases
    /\ ResultsKnown
    /\ Occupied
    /\ \A s \in Steps : StepOK(s)

USE WorkerAssumption

-----------------------------------------------------------------------------
(* Rows, leases and calls.                                                 *)

\* One column of a row is overwritten.
LEMMA RowField ==
    ASSUME NEW r \in RowType
    PROVE  /\ \A x \in {"ready", "running", "parked", "succeeded", "failed"} :
                 [r EXCEPT !.state = x] \in RowType
           /\ \A x \in 0 .. MaxClaims : [r EXCEPT !.claims = x] \in RowType
           /\ \A x \in 0 .. LeaseTTL : [r EXCEPT !.ttl = x] \in RowType
           /\ \A x \in 0 .. MaxClaims : [r EXCEPT !.attempt = x] \in RowType
           /\ \A x \in {"none", "admitted", "unknown"} : [r EXCEPT !.effect = x] \in RowType
           /\ \A x \in BOOLEAN : [r EXCEPT !.paused = x] \in RowType
           /\ \A x \in {"none", "worker", "kernel"} : [r EXCEPT !.actor = x] \in RowType
  <1> USE DEF RowType
  <1>1. \A x \in {"ready", "running", "parked", "succeeded", "failed"} : [r EXCEPT !.state = x] \in RowType
    OBVIOUS
  <1>2. \A x \in 0 .. MaxClaims : [r EXCEPT !.claims = x] \in RowType
    OBVIOUS
  <1>3. \A x \in 0 .. LeaseTTL : [r EXCEPT !.ttl = x] \in RowType
    OBVIOUS
  <1>4. \A x \in 0 .. MaxClaims : [r EXCEPT !.attempt = x] \in RowType
    OBVIOUS
  <1>5. \A x \in {"none", "admitted", "unknown"} : [r EXCEPT !.effect = x] \in RowType
    OBVIOUS
  <1>6. \A x \in BOOLEAN : [r EXCEPT !.paused = x] \in RowType
    BY Zenon
  <1>7. \A x \in {"none", "worker", "kernel"} : [r EXCEPT !.actor = x] \in RowType
    OBVIOUS
  <1> QED
    BY <1>1, <1>2, <1>3, <1>4, <1>5, <1>6, <1>7, Zenon

\* The parts of the type invariant that proofs ask for.
LEMMA Parts ==
    ASSUME ServiceInv
    PROVE  /\ row \in [Steps -> RowType]
           /\ \A s \in Steps :
                 /\ row[s] \in RowType
                 /\ row[s].claims \in 0 .. MaxClaims /\ row[s].attempt \in 0 .. MaxClaims
                 /\ row[s].ttl \in 0 .. LeaseTTL
           /\ task \in [Lease -> TaskStates]
           /\ poll \in [Pollers -> {Idle, Asked} \cup {Answered(l) : l \in Lease}]
           /\ \A s \in Steps : StepOK(s)
  <1>1. row \in [Steps -> RowType]
    BY DEF ServiceInv, TypeOK, RowType
  <1>2. \A s \in Steps : row[s] \in RowType
    BY <1>1
  <1>3. \A s \in Steps : /\ row[s].claims \in 0 .. MaxClaims /\ row[s].attempt \in 0 .. MaxClaims
                         /\ row[s].ttl \in 0 .. LeaseTTL
    BY <1>2 DEF RowType
  <1>4. /\ task \in [Lease -> TaskStates]
        /\ poll \in [Pollers -> {Idle, Asked} \cup {Answered(l) : l \in Lease}]
        /\ \A s \in Steps : StepOK(s)
    BY DEF ServiceInv, TypeOK, TaskStates
  <1> QED
    BY <1>1, <1>2, <1>3, <1>4

\* A lease is a step and a number.
LEMMA LeaseParts ==
    ASSUME NEW l \in Lease
    PROVE  l[1] \in Steps /\ l[2] \in 1 .. MaxClaims /\ l = <<l[1], l[2]>>
  BY DEF Lease

\* The lease of a step's latest claim.
LEMMA LatestLease ==
    ASSUME ServiceInv, NEW s \in Steps, row[s].claims >= 1
    PROVE  <<s, row[s].claims>> \in Lease
  BY Parts DEF Lease

\* The three places a call of pollOnce can be at.
LEMMA PollPlaces ==
    ASSUME ServiceInv, NEW p \in Pollers
    PROVE  /\ poll[p] = Idle \/ poll[p] = Asked \/ poll[p].at = "answered"
           /\ poll[p].at = "answered" => poll[p].lease \in Lease /\ poll[p] # Idle /\ poll[p] # Asked
           /\ Idle.at = "idle" /\ Asked.at = "asked" /\ Idle # Asked
           /\ \A l \in Lease : Answered(l).at = "answered" /\ Answered(l).lease = l /\ Answered(l) # Idle
  <1>1. poll[p] \in {Idle, Asked} \cup {Answered(l) : l \in Lease}
    BY Parts
  <1>2. Idle.at = "idle" /\ Asked.at = "asked" /\ Idle # Asked
    BY DEF Idle, Asked
  <1>3. \A l \in Lease : Answered(l).at = "answered" /\ Answered(l).lease = l
    BY DEF Answered
  <1> QED
    BY <1>1, <1>2, <1>3

-----------------------------------------------------------------------------
(* Writes of a row.                                                        *)

OnlyStep(s) == \A x \in Steps : x # s => row'[x] = row[x]

ClaimsKept == \A x \in Steps : row'[x].claims = row[x].claims

\* A row is replaced.
LEMMA RowWritten ==
    ASSUME ServiceInv, NEW s \in Steps, NEW q \in RowType, row' = [row EXCEPT ![s] = q]
    PROVE  row' \in [Steps -> RowType] /\ row'[s] = q /\ OnlyStep(s)
  BY Parts DEF OnlyStep

\* The step of a lease leaves RUNNING.
LEMMA LeaveRow ==
    ASSUME ServiceInv, NEW l \in Lease,
           NEW st \in {"ready", "parked", "succeeded", "failed"},
           NEW n \in 0 .. MaxClaims, Leave(l, st, n, "worker")
    PROVE  /\ row' \in [Steps -> RowType] /\ OnlyStep(l[1]) /\ ClaimsKept
           /\ LET q == row'[l[1]]
                  r == row[l[1]]
              IN  /\ q.state = st /\ q.ttl = 0 /\ q.attempt = n /\ q.actor = "worker"
                  /\ q.claims = r.claims /\ q.effect = Parked(r.effect) /\ q.paused = r.paused
  <1> DEFINE s == l[1]
             r == row[s]
             pe == Parked(r.effect)
             q == [r EXCEPT !.state = st, !.ttl = 0, !.attempt = n, !.effect = pe, !.actor = "worker"]
             q1 == [r EXCEPT !.state = st]
             q2 == [q1 EXCEPT !.ttl = 0]
             q3 == [q2 EXCEPT !.attempt = n]
             q4 == [q3 EXCEPT !.effect = pe]
             q5 == [q4 EXCEPT !.actor = "worker"]
  <1>0. s \in Steps /\ r \in RowType /\ row \in [Steps -> RowType] /\ 0 \in 0 .. LeaseTTL
        /\ pe \in {"none", "admitted", "unknown"}
    BY LeaseParts, Parts DEF Parked, RowType
  <1>1. row' = [row EXCEPT ![s] = q]
    BY DEF Leave
  <1> HIDE DEF s, r, pe
  <1>2. /\ q.state = st /\ q.ttl = 0 /\ q.attempt = n /\ q.actor = "worker"
        /\ q.claims = r.claims /\ q.effect = pe /\ q.paused = r.paused
    BY <1>0 DEF RowType
  <1>3. q \in RowType
    <2>1. q = q5
      OBVIOUS
    <2>2. q1 \in RowType
      BY <1>0, RowField, Zenon
    <2> HIDE DEF q1
    <2>3. q2 \in RowType
      BY <1>0, <2>2, RowField, Zenon
    <2> HIDE DEF q2
    <2>4. q3 \in RowType
      BY <1>0, <2>3, RowField, Zenon
    <2> HIDE DEF q3
    <2>5. q4 \in RowType
      BY <1>0, <2>4, RowField, Zenon
    <2> HIDE DEF q4
    <2>6. q5 \in RowType
      BY <2>5, RowField, Zenon
    <2> QED
      BY <2>1, <2>6
  <1> HIDE DEF q
  <1>4. row' \in [Steps -> RowType] /\ row'[s] = q /\ OnlyStep(s)
    BY <1>0, <1>1, <1>3, RowWritten
  <1>5. ClaimsKept
    BY <1>2, <1>4 DEF OnlyStep, ClaimsKept, r
  <1> QED
    BY <1>2, <1>4, <1>5 DEF s, r, pe

\* A claim of a step.
LEMMA ClaimRow ==
    ASSUME ServiceInv, NEW p \in Pollers, NEW s \in Steps, ClaimNextStep(p, s)
    PROVE  /\ row' \in [Steps -> RowType] /\ OnlyStep(s)
           /\ row[s].claims + 1 \in 1 .. MaxClaims
           /\ LET q == row'[s]
                  r == row[s]
              IN  /\ q.state = "running" /\ q.claims = r.claims + 1 /\ q.attempt = r.attempt + 1
                  /\ q.ttl = LeaseTTL /\ q.effect = r.effect /\ q.paused = r.paused /\ q.actor = r.actor
  <1> DEFINE r == row[s]
             q == [r EXCEPT !.state = "running", !.claims = r.claims + 1, !.ttl = LeaseTTL,
                            !.attempt = r.attempt + 1]
             q1 == [r EXCEPT !.state = "running"]
             q2 == [q1 EXCEPT !.claims = r.claims + 1]
             q3 == [q2 EXCEPT !.ttl = LeaseTTL]
             q4 == [q3 EXCEPT !.attempt = r.attempt + 1]
  <1>0. /\ r \in RowType /\ row \in [Steps -> RowType] /\ LeaseTTL \in 0 .. LeaseTTL
        /\ r.claims + 1 \in 1 .. MaxClaims /\ r.attempt + 1 \in 0 .. MaxClaims
        /\ r.claims + 1 \in 0 .. MaxClaims
    <2>1. r.claims < MaxClaims
      BY DEF ClaimNextStep
    <2>2. r.attempt <= r.claims
      BY Parts DEF StepOK, AttemptsCounted
    <2> QED
      BY <2>1, <2>2, Parts
  <1>1. row' = [row EXCEPT ![s] = q]
    BY DEF ClaimNextStep
  <1> HIDE DEF r
  <1>2. /\ q.state = "running" /\ q.claims = r.claims + 1 /\ q.attempt = r.attempt + 1
        /\ q.ttl = LeaseTTL /\ q.effect = r.effect /\ q.paused = r.paused /\ q.actor = r.actor
    BY <1>0 DEF RowType
  <1>3. q \in RowType
    <2>1. q = q4
      OBVIOUS
    <2>2. q1 \in RowType
      BY <1>0, RowField, Zenon
    <2> HIDE DEF q1
    <2>3. q2 \in RowType
      BY <1>0, <2>2, RowField, Zenon
    <2> HIDE DEF q2
    <2>4. q3 \in RowType
      BY <1>0, <2>3, RowField, Zenon
    <2> HIDE DEF q3
    <2>5. q4 \in RowType
      BY <1>0, <2>4, RowField, Zenon
    <2> QED
      BY <2>1, <2>5
  <1> HIDE DEF q
  <1>4. row' \in [Steps -> RowType] /\ row'[s] = q /\ OnlyStep(s)
    BY <1>0, <1>1, <1>3, RowWritten
  <1> QED
    BY <1>0, <1>2, <1>4 DEF r

\* The clock of a lease is set.
LEMMA TtlRow ==
    ASSUME ServiceInv, NEW s \in Steps, NEW n \in 0 .. LeaseTTL, row' = [row EXCEPT ![s].ttl = n]
    PROVE  /\ row' \in [Steps -> RowType] /\ OnlyStep(s) /\ ClaimsKept
           /\ LET q == row'[s]
                  r == row[s]
              IN  /\ q.state = r.state /\ q.ttl = n /\ q.attempt = r.attempt /\ q.actor = r.actor
                  /\ q.claims = r.claims /\ q.effect = r.effect /\ q.paused = r.paused
  <1> DEFINE q == [row[s] EXCEPT !.ttl = n]
  <1>0. row[s] \in RowType /\ row' = [row EXCEPT ![s] = q]
    BY Parts
  <1>1. q \in RowType
    BY <1>0, RowField, Zenon
  <1>2. /\ q.state = row[s].state /\ q.ttl = n /\ q.attempt = row[s].attempt
        /\ q.actor = row[s].actor /\ q.claims = row[s].claims /\ q.effect = row[s].effect
        /\ q.paused = row[s].paused
    BY <1>0 DEF RowType
  <1> HIDE DEF q
  <1>3. row' \in [Steps -> RowType] /\ row'[s] = q /\ OnlyStep(s)
    BY <1>0, <1>1, RowWritten
  <1>4. ClaimsKept
    BY <1>2, <1>3 DEF OnlyStep, ClaimsKept
  <1> QED
    BY <1>2, <1>3, <1>4

\* An effect of a step is admitted or settled.
LEMMA EffectRow ==
    ASSUME ServiceInv, NEW s \in Steps, NEW b \in {"none", "admitted", "unknown"}, row' = [row EXCEPT ![s].effect = b]
    PROVE  /\ row' \in [Steps -> RowType] /\ OnlyStep(s) /\ ClaimsKept
           /\ LET q == row'[s]
                  r == row[s]
              IN  /\ q.state = r.state /\ q.ttl = r.ttl /\ q.attempt = r.attempt /\ q.actor = r.actor
                  /\ q.claims = r.claims /\ q.effect = b /\ q.paused = r.paused
  <1> DEFINE q == [row[s] EXCEPT !.effect = b]
  <1>0. row[s] \in RowType /\ row' = [row EXCEPT ![s] = q]
    BY Parts
  <1>1. q \in RowType
    BY <1>0, RowField, Zenon
  <1>2. /\ q.state = row[s].state /\ q.ttl = row[s].ttl /\ q.attempt = row[s].attempt
        /\ q.actor = row[s].actor /\ q.claims = row[s].claims /\ q.effect = b
        /\ q.paused = row[s].paused
    BY <1>0 DEF RowType
  <1> HIDE DEF q
  <1>3. row' \in [Steps -> RowType] /\ row'[s] = q /\ OnlyStep(s)
    BY <1>0, <1>1, RowWritten
  <1>4. ClaimsKept
    BY <1>2, <1>3 DEF OnlyStep, ClaimsKept
  <1> QED
    BY <1>2, <1>3, <1>4

\* An expired lease is reclaimed.
LEMMA ReclaimRow ==
    ASSUME ServiceInv, NEW s \in Steps, ReclaimExpiredLeases(s)
    PROVE  /\ row' \in [Steps -> RowType] /\ OnlyStep(s) /\ ClaimsKept
           /\ LET q == row'[s]
                  r == row[s]
              IN  /\ q.state = IF r.effect = "admitted" THEN "parked"
                               ELSE IF r.attempt < MaxAttempts THEN "ready" ELSE "failed"
                  /\ q.attempt = r.attempt /\ q.actor = "kernel"
                  /\ q.claims = r.claims /\ q.effect = Parked(r.effect) /\ q.paused = r.paused
  <1> DEFINE r == row[s]
             st == IF r.effect = "admitted" THEN "parked" ELSE IF r.attempt < MaxAttempts THEN "ready" ELSE "failed"
             pe == Parked(r.effect)
             q == [r EXCEPT !.actor = "kernel", !.effect = pe, !.state = st]
             q1 == [r EXCEPT !.actor = "kernel"]
             q2 == [q1 EXCEPT !.effect = pe]
             q3 == [q2 EXCEPT !.state = st]
  <1>0. /\ r \in RowType /\ row \in [Steps -> RowType]
        /\ st \in {"ready", "running", "parked", "succeeded", "failed"}
        /\ pe \in {"none", "admitted", "unknown"}
    BY Parts DEF Parked, RowType
  <1>1. row' = [row EXCEPT ![s] = q]
    BY DEF ReclaimExpiredLeases
  <1> HIDE DEF r, st, pe
  <1>2. /\ q.state = st /\ q.attempt = r.attempt /\ q.actor = "kernel"
        /\ q.claims = r.claims /\ q.effect = pe /\ q.paused = r.paused
    BY <1>0 DEF RowType
  <1>3. q \in RowType
    <2>1. q = q3
      OBVIOUS
    <2>2. q1 \in RowType
      BY <1>0, RowField, Zenon
    <2> HIDE DEF q1
    <2>3. q2 \in RowType
      BY <1>0, <2>2, RowField, Zenon
    <2> HIDE DEF q2
    <2>4. q3 \in RowType
      BY <1>0, <2>3, RowField, Zenon
    <2> QED
      BY <2>1, <2>4
  <1> HIDE DEF q
  <1>4. row' \in [Steps -> RowType] /\ row'[s] = q /\ OnlyStep(s)
    BY <1>0, <1>1, <1>3, RowWritten
  <1>5. ClaimsKept
    BY <1>2, <1>4 DEF OnlyStep, ClaimsKept, r
  <1> QED
    BY <1>2, <1>4, <1>5 DEF r, st, pe

\* A running step is paused.
LEMMA PauseRow ==
    ASSUME ServiceInv, NEW s \in Steps, PauseStep(s)
    PROVE  /\ row' \in [Steps -> RowType] /\ OnlyStep(s) /\ ClaimsKept
           /\ LET q == row'[s]
                  r == row[s]
              IN  q.state = "ready" /\ q.paused /\ q.attempt = r.attempt /\ q.claims = r.claims
  <1> DEFINE r == row[s]
             pe == Parked(r.effect)
             q == [r EXCEPT !.paused = TRUE, !.state = "ready", !.ttl = 0, !.effect = pe]
             q1 == [r EXCEPT !.paused = TRUE]
             q2 == [q1 EXCEPT !.state = "ready"]
             q3 == [q2 EXCEPT !.ttl = 0]
             q4 == [q3 EXCEPT !.effect = pe]
  <1>0. r \in RowType /\ row \in [Steps -> RowType] /\ 0 \in 0 .. LeaseTTL
        /\ pe \in {"none", "admitted", "unknown"}
    BY Parts DEF Parked, RowType
  <1>1. row' = [row EXCEPT ![s] = q]
    BY DEF PauseStep
  <1> HIDE DEF r, pe
  <1>2. q.state = "ready" /\ q.paused /\ q.attempt = r.attempt /\ q.claims = r.claims
    BY <1>0 DEF RowType
  <1>3. q \in RowType
    <2>1. q = q4
      OBVIOUS
    <2>2. q1 \in RowType
      BY <1>0, RowField, Zenon
    <2> HIDE DEF q1
    <2>3. q2 \in RowType
      BY <1>0, <2>2, RowField, Zenon
    <2> HIDE DEF q2
    <2>4. q3 \in RowType
      BY <1>0, <2>3, RowField, Zenon
    <2> HIDE DEF q3
    <2>5. q4 \in RowType
      BY <1>0, <2>4, RowField, Zenon
    <2> QED
      BY <2>1, <2>5
  <1> HIDE DEF q
  <1>4. row' \in [Steps -> RowType] /\ row'[s] = q /\ OnlyStep(s)
    BY <1>0, <1>1, <1>3, RowWritten
  <1>5. ClaimsKept
    BY <1>2, <1>4 DEF OnlyStep, ClaimsKept, r
  <1> QED
    BY <1>2, <1>4, <1>5 DEF r

-----------------------------------------------------------------------------
(* What a step of the system leaves of a step's judgement.                 *)

\* Results are kept, a registration is not regained, a pool stays closed.
Monotone ==
    /\ okay \subseteq okay'
    /\ escaped \subseteq escaped'
    /\ registry' # "superseded" => registry # "superseded"
    /\ Closed => Closed'

OnlyTask(l) == \A x \in Lease : x # l => task'[x] = task[x]

\* The moves of a task that need no look at its row.
SafeMove(l) ==
    \/ task'[l] = task[l]
    \/ task'[l] = "gone"
    \/ task[l] = "claimed" /\ task'[l] \in {"executing", "returned to the queue"}
    \/ task[l] = "executing" /\ task'[l] = "unknown"
    \/ task[l] = "executing" /\ (~(HoldsLive(l) /\ ~Closed) \/ l \in escaped')
    \/ task[l] = "returned" /\ task'[l] = "fatal"

\* An excuse is not taken back.
LEMMA ExcusedStays ==
    ASSUME Monotone, NEW s \in Steps, row'[s].paused = row[s].paused
    PROVE  Excused(s) => Excused(s)'
  BY DEF Excused, Monotone

\* Neither the row nor the task of its latest claim is touched.
LEMMA StepUntouched ==
    ASSUME ServiceInv, Monotone, NEW s \in Steps, row'[s] = row[s],
           <<s, row[s].claims>> \in Lease => task'[<<s, row[s].claims>>] = task[<<s, row[s].claims>>]
    PROVE  StepOK(s)'
  <1>1. StepOK(s) /\ row[s].claims \in Nat
    BY Parts
  <1>2. row[s].state # "ready" => <<s, row[s].claims>> \in Lease
    BY <1>1, LatestLease DEF StepOK, AttemptsCounted
  <1>3. AttemptsCounted(s)'
    BY <1>1 DEF StepOK, AttemptsCounted
  <1>4. EndJustified(s)'
    BY <1>1, <1>2 DEF StepOK, EndJustified, Monotone
  <1>5. EffectSettled(s)'
    BY <1>1, <1>2, ExcusedStays DEF StepOK, EffectSettled, Monotone, Closed
  <1> QED
    BY <1>3, <1>4, <1>5 DEF StepOK

\* The row stays and the task of its latest claim makes a safe move.
LEMMA StepMoved ==
    ASSUME ServiceInv, Monotone, NEW l \in Lease, row'[l[1]] = row[l[1]],
           row[l[1]].claims = l[2], SafeMove(l)
    PROVE  StepOK(l[1])'
  <1> DEFINE s == l[1]
  <1>1. StepOK(s) /\ s \in Steps /\ l = <<s, row[s].claims>>
    BY Parts, LeaseParts
  <1>2. AttemptsCounted(s)'
    BY <1>1 DEF StepOK, AttemptsCounted
  <1>3. EndJustified(s)'
    BY <1>1 DEF StepOK, EndJustified, Monotone, SafeMove
  <1>4. EffectSettled(s)'
    <2>1. task'[l] \in {"claimed", "returned", "retryable", "fatal"} =>
             task[l] \in {"claimed", "returned", "retryable", "fatal"} \/ ~(HoldsLive(l) /\ ~Closed)
             \/ Excused(s)'
      BY DEF SafeMove, Excused
    <2>2. ~(HoldsLive(l) /\ ~Closed) =>
             Closed \/ registry = "superseded" \/ row[s].state # "running" \/ ~(row[s].ttl > 0)
      BY DEF HoldsLive, Holds
    <2> QED
      BY <1>1, <2>1, <2>2, ExcusedStays DEF StepOK, EffectSettled, Monotone, Closed
  <1> QED
    BY <1>2, <1>3, <1>4 DEF StepOK

\* A task makes a safe move and no row is written.
LEMMA StepsKept ==
    ASSUME ServiceInv, Monotone, row' = row, NEW l \in Lease, OnlyTask(l), SafeMove(l)
    PROVE  \A s \in Steps : StepOK(s)'
  <1> SUFFICES ASSUME NEW s \in Steps PROVE StepOK(s)'
    OBVIOUS
  <1>1. CASE l = <<s, row[s].claims>>
    <2>1. l[1] = s /\ row[l[1]].claims = l[2]
      BY <1>1
    <2> QED
      BY <2>1, StepMoved
  <1>2. CASE l # <<s, row[s].claims>>
    BY <1>2, StepUntouched DEF OnlyTask
  <1> QED
    BY <1>1, <1>2

\* The row of a lease is written and its task moves: the other steps.
LEMMA OtherSteps ==
    ASSUME ServiceInv, Monotone, NEW l \in Lease, OnlyTask(l), OnlyStep(l[1]), StepOK(l[1])'
    PROVE  \A s \in Steps : StepOK(s)'
  <1> SUFFICES ASSUME NEW s \in Steps, s # l[1] PROVE StepOK(s)'
    OBVIOUS
  <1>1. row'[s] = row[s] /\ <<s, row[s].claims>> # l
    BY DEF OnlyStep
  <1> QED
    BY <1>1, StepUntouched DEF OnlyTask

\* One row is written and no task moves: the other steps.
LEMMA OtherRows ==
    ASSUME ServiceInv, Monotone, task' = task, NEW s \in Steps, OnlyStep(s), StepOK(s)'
    PROVE  \A x \in Steps : StepOK(x)'
  BY StepUntouched DEF OnlyStep

-----------------------------------------------------------------------------
(* What a step of the system leaves of calls, tasks and capacity.          *)

CallsOK == AnswersOwned /\ FutureLeases /\ ResultsKnown /\ Occupied

\* Slots are only given up.
LEMMA CapacityKept ==
    ASSUME ServiceInv, Active' \subseteq Active, Inflight' \subseteq Inflight
    PROVE  Occupied'
  <1>1. IsFiniteSet(Active) /\ IsFiniteSet(Inflight)
        /\ Cardinality(Active) + Cardinality(Inflight) <= MaxConcurrency
    BY DEF ServiceInv, Occupied, CapacityHeld
  <1>2. IsFiniteSet(Active') /\ Cardinality(Active') <= Cardinality(Active)
    BY <1>1, FS_Subset
  <1>3. IsFiniteSet(Inflight') /\ Cardinality(Inflight') <= Cardinality(Inflight)
    BY <1>1, FS_Subset
  <1>4. /\ Cardinality(Active) \in Nat /\ Cardinality(Inflight) \in Nat
        /\ Cardinality(Active') \in Nat /\ Cardinality(Inflight') \in Nat
    BY <1>1, <1>2, <1>3, FS_CardinalityType
  <1>5. Cardinality(Active') + Cardinality(Inflight') <= MaxConcurrency
    BY <1>1, <1>2, <1>3, <1>4
  <1> QED
    BY <1>2, <1>3, <1>5 DEF Occupied, CapacityHeld

\* No call and no task moves.
LEMMA CallsStill ==
    ASSUME ServiceInv, UNCHANGED <<poll, task, okay>>, ClaimsKept
    PROVE  CallsOK'
  <1>1. AnswersOwned' /\ ResultsKnown'
    BY DEF ServiceInv, AnswersOwned, ResultsKnown
  <1>2. FutureLeases'
    BY LeaseParts DEF ServiceInv, FutureLeases, ClaimsKept
  <1>3. Occupied'
    BY CapacityKept DEF Active, Inflight
  <1> QED
    BY <1>1, <1>2, <1>3 DEF CallsOK

\* A task that occupies a slot goes on or gives the slot up.
LEMMA TaskMoves ==
    ASSUME ServiceInv, poll' = poll, ClaimsKept, okay \subseteq okay',
           NEW l \in Lease, NEW x \in Busy \cup {"gone"}, task[l] \in Busy,
           task' = [task EXCEPT ![l] = x], x = "returned" => l \in okay'
    PROVE  CallsOK' /\ task' \in [Lease -> TaskStates] /\ OnlyTask(l) /\ task'[l] = x
  <1>0. /\ task \in [Lease -> TaskStates] /\ x \in TaskStates
        /\ "claimed" \notin Busy /\ "none" \notin Busy
    BY Parts DEF TaskStates, Busy
  <1>1. task' \in [Lease -> TaskStates] /\ OnlyTask(l) /\ task'[l] = x
    BY <1>0 DEF OnlyTask
  <1>2. AnswersOwned'
    <2>1. \A p \in Pollers : poll[p].at = "answered" => poll[p].lease \in Lease /\ task[poll[p].lease] = "claimed"
      BY PollPlaces DEF ServiceInv, AnswersOwned
    <2>2. \A p \in Pollers : poll[p].at = "answered" => task'[poll[p].lease] = "claimed"
      BY <1>0, <1>1, <2>1 DEF OnlyTask
    <2> QED
      BY <2>2 DEF ServiceInv, AnswersOwned
  <1>3. FutureLeases'
    <2>1. \A y \in Lease : y[2] > row[y[1]].claims => task[y] = "none" /\ y # l
      BY <1>0 DEF ServiceInv, FutureLeases
    <2> QED
      BY <1>1, <2>1, LeaseParts DEF FutureLeases, ClaimsKept, OnlyTask
  <1>4. ResultsKnown'
    BY <1>1 DEF ServiceInv, ResultsKnown, OnlyTask
  <1>5. Occupied'
    <2>1. Active' \subseteq Active /\ Inflight' \subseteq Inflight
      BY <1>1 DEF Active, Inflight, OnlyTask
    <2> QED
      BY <2>1, CapacityKept
  <1> QED
    BY <1>1, <1>2, <1>3, <1>4, <1>5 DEF CallsOK

\* A call with an answered claim ends without a task.
LEMMA ClaimDropped ==
    ASSUME ServiceInv, ClaimsKept, okay' = okay, NEW p \in Pollers, poll[p].at = "answered",
           NEW x \in {"gone", "returned to the queue"},
           task' = [task EXCEPT ![poll[p].lease] = x], poll' = [poll EXCEPT ![p] = Idle]
    PROVE  /\ CallsOK' /\ task' \in [Lease -> TaskStates] /\ OnlyTask(poll[p].lease)
           /\ task'[poll[p].lease] = x /\ poll[p].lease \in Lease /\ task[poll[p].lease] = "claimed"
  <1> DEFINE l == poll[p].lease
  <1>0. /\ task \in [Lease -> TaskStates] /\ x \in TaskStates /\ x \notin Busy /\ x # "returned"
        /\ "claimed" \notin Busy /\ l \in Lease /\ task[l] = "claimed"
    BY Parts, PollPlaces DEF TaskStates, Busy, ServiceInv, AnswersOwned
  <1> HIDE DEF l
  <1>1. task' \in [Lease -> TaskStates] /\ OnlyTask(l) /\ task'[l] = x
    BY <1>0 DEF OnlyTask, l
  <1>2. poll'[p] = Idle /\ \A q \in Pollers : q # p => poll'[q] = poll[q]
    BY Parts
  <1>3. AnswersOwned'
    <2>1. Idle.at # "answered"
      BY DEF Idle
    <2>2. ASSUME NEW q \in Pollers, poll'[q].at = "answered"
          PROVE  /\ q # p /\ poll'[q] = poll[q] /\ poll[q].lease # l /\ poll[q].lease \in Lease
                 /\ task[poll[q].lease] = "claimed"
      <3>1. q # p /\ poll'[q] = poll[q] /\ poll[q].at = "answered"
        BY <1>2, <2>1, <2>2
      <3>2. poll[q].lease # l /\ task[poll[q].lease] = "claimed"
        BY <3>1 DEF ServiceInv, AnswersOwned, l
      <3> QED
        BY <3>1, <3>2, PollPlaces
    <2>3. \A q \in Pollers : poll'[q].at = "answered" => task'[poll'[q].lease] = "claimed"
      BY <1>1, <2>2 DEF OnlyTask
    <2>4. ASSUME NEW q \in Pollers, NEW r \in Pollers, poll'[q].at = "answered",
                 poll'[r].at = "answered", q # r
          PROVE  poll'[q].lease # poll'[r].lease
      <3>1. poll'[q] = poll[q] /\ poll'[r] = poll[r]
        BY <2>2, <2>4
      <3> QED
        BY <2>4, <3>1 DEF ServiceInv, AnswersOwned
    <2> QED
      BY <2>3, <2>4 DEF AnswersOwned
  <1>4. FutureLeases'
    <2>1. \A y \in Lease : y[2] > row[y[1]].claims => task[y] = "none" /\ y # l
      BY <1>0 DEF ServiceInv, FutureLeases
    <2> QED
      BY <1>1, <2>1, LeaseParts DEF FutureLeases, ClaimsKept, OnlyTask
  <1>5. ResultsKnown'
    BY <1>0, <1>1 DEF ServiceInv, ResultsKnown, OnlyTask
  <1>6. Occupied'
    <2>1. Active' \subseteq Active
      BY <1>0, <1>1 DEF Active, OnlyTask
    <2>2. Inflight' \subseteq Inflight
      BY <1>2 DEF Inflight
    <2> QED
      BY <2>1, <2>2, CapacityKept
  <1> QED
    BY <1>0, <1>1, <1>3, <1>4, <1>5, <1>6 DEF CallsOK, l

-----------------------------------------------------------------------------
(* The invariant, action by action.                                        *)

PollType == [Pollers -> {Idle, Asked} \cup {Answered(l) : l \in Lease}]

\* The variables besides rows, calls and tasks keep their types.
RestOK ==
    /\ registry' \in {"active", "draining", "superseded"}
    /\ lost' \subseteq Lease
    /\ running' \in BOOLEAN
    /\ stopping' \in {"no", "draining", "waiting", "rejected", "disposed"}
    /\ okay' \subseteq Lease
    /\ escaped' \subseteq Lease
    /\ faults' \in 0 .. MaxFaults

\* The parts that make the invariant.
LEMMA Assemble ==
    ASSUME row' \in [Steps -> RowType], poll' \in PollType, task' \in [Lease -> TaskStates],
           RestOK, CallsOK', \A s \in Steps : StepOK(s)'
    PROVE  ServiceInv'
  <1>1. TypeOK'
    BY DEF TypeOK, RestOK, RowType, PollType, TaskStates
  <1> QED
    BY <1>1 DEF ServiceInv, CallsOK

\* The types before the step.
LEMMA Typed ==
    ASSUME ServiceInv
    PROVE  /\ row \in [Steps -> RowType] /\ poll \in PollType /\ task \in [Lease -> TaskStates]
           /\ registry \in {"active", "draining", "superseded"}
           /\ lost \subseteq Lease
           /\ running \in BOOLEAN
           /\ stopping \in {"no", "draining", "waiting", "rejected", "disposed"}
           /\ okay \subseteq Lease
           /\ escaped \subseteq Lease
           /\ faults \in 0 .. MaxFaults
  BY Parts DEF ServiceInv, TypeOK, PollType

\* A call that throws is counted within its bound.
LEMMA ThrowsTyped ==
    ASSUME ServiceInv, Throws
    PROVE  faults' \in 0 .. MaxFaults
  <1>1. faults \in 0 .. MaxFaults
    BY Typed
  <1>2. faults' = faults \/ (faults < MaxFaults /\ faults' = faults + 1)
    BY DEF Throws
  <1> QED
    BY <1>1, <1>2

\* No step of the system but a safe move: neither row nor call nor task moves.
LEMMA Bystander ==
    ASSUME ServiceInv, UNCHANGED <<row, poll, task, okay>>, RestOK, Monotone
    PROVE  ServiceInv'
  <1>1. CallsOK'
    BY CallsStill DEF ClaimsKept
  <1>2. \A s \in Steps : StepOK(s)'
    BY StepUntouched
  <1> QED
    BY <1>1, <1>2, Typed, Assemble

\* pollOnce takes a slot that is free.
LEMMA PollOnceInv ==
    ASSUME ServiceInv, NEW p \in Pollers, PollOnce(p)
    PROVE  ServiceInv'
  <1>0. /\ UNCHANGED <<row, registry, task, lost, running, stopping, okay, escaped, faults>>
        /\ poll' = [poll EXCEPT ![p] = Asked] /\ poll[p] = Idle
        /\ Cardinality(Active) + Cardinality(Inflight) < MaxConcurrency
    BY DEF PollOnce
  <1>1. RestOK /\ Monotone
    BY <1>0, Typed DEF RestOK, Monotone, Closed
  <1>2. poll' \in PollType /\ poll'[p] = Asked /\ \A q \in Pollers : q # p => poll'[q] = poll[q]
    BY <1>0, Typed DEF PollType
  <1>3. \A s \in Steps : StepOK(s)'
    BY <1>0, <1>1, StepUntouched
  <1>4. AnswersOwned'
    <2>1. Asked.at # "answered"
      BY DEF Asked
    <2>2. \A q \in Pollers : poll'[q].at = "answered" => poll'[q] = poll[q]
      BY <1>2, <2>1
    <2>3. \A q \in Pollers : poll'[q].at = "answered" => task'[poll'[q].lease] = "claimed"
      BY <1>0, <2>2 DEF ServiceInv, AnswersOwned
    <2>4. ASSUME NEW q \in Pollers, NEW r \in Pollers, poll'[q].at = "answered",
                 poll'[r].at = "answered", q # r
          PROVE  poll'[q].lease # poll'[r].lease
      <3>1. poll'[q] = poll[q] /\ poll'[r] = poll[r]
        BY <2>2, <2>4
      <3> QED
        BY <2>4, <3>1 DEF ServiceInv, AnswersOwned
    <2> QED
      BY <2>3, <2>4 DEF AnswersOwned
  <1>5. FutureLeases' /\ ResultsKnown'
    BY <1>0 DEF ServiceInv, FutureLeases, ResultsKnown
  <1>6. Occupied'
    <2>1. Active' = Active
      BY <1>0 DEF Active
    <2>2. Inflight' = Inflight \cup {p} /\ p \notin Inflight
      <3>1. Asked # Idle
        BY DEF Asked, Idle
      <3> QED
        BY <1>0, <1>2, <3>1 DEF Inflight
    <2>3. IsFiniteSet(Active) /\ IsFiniteSet(Inflight)
      BY DEF ServiceInv, Occupied
    <2>4. IsFiniteSet(Inflight') /\ Cardinality(Inflight') = Cardinality(Inflight) + 1
      BY <2>2, <2>3, FS_AddElement
    <2>5. Cardinality(Active) \in Nat /\ Cardinality(Inflight) \in Nat
      BY <2>3, FS_CardinalityType
    <2>6. Cardinality(Active') + Cardinality(Inflight') <= MaxConcurrency
      BY <1>0, <2>1, <2>4, <2>5
    <2> QED
      BY <2>1, <2>3, <2>4, <2>6 DEF Occupied, CapacityHeld
  <1> QED
    BY <1>0, <1>1, <1>2, <1>3, <1>4, <1>5, <1>6, Typed, Assemble DEF CallsOK

\* A claim hands out a lease nobody has had.
LEMMA ClaimNextStepInv ==
    ASSUME ServiceInv, NEW p \in Pollers, NEW s \in Steps, ClaimNextStep(p, s)
    PROVE  ServiceInv'
  <1> DEFINE l == <<s, row[s].claims + 1>>
  <1>0. /\ UNCHANGED <<registry, lost, running, stopping, okay, escaped, faults>>
        /\ poll' = [poll EXCEPT ![p] = Answered(l)] /\ task' = [task EXCEPT ![l] = "claimed"]
        /\ poll[p] = Asked /\ row[s].state = "ready"
    BY DEF ClaimNextStep
  <1>1. /\ row' \in [Steps -> RowType] /\ OnlyStep(s) /\ l \in Lease
        /\ row[s].claims \in Nat /\ row[s].attempt \in Nat
    BY ClaimRow, Parts DEF Lease
  <1>2. l[1] = s /\ l[2] = row[s].claims + 1
    OBVIOUS
  <1> HIDE DEF l
  <1>3. task[l] = "none"
    BY <1>1, <1>2 DEF ServiceInv, FutureLeases
  <1>4. task' \in [Lease -> TaskStates] /\ task'[l] = "claimed" /\ OnlyTask(l)
    BY <1>0, <1>1, Typed DEF TaskStates, OnlyTask
  <1>5. /\ poll' \in PollType /\ poll'[p] = Answered(l)
        /\ \A q \in Pollers : q # p => poll'[q] = poll[q]
    BY <1>0, <1>1, Typed DEF PollType
  <1>6. RestOK /\ Monotone
    BY <1>0, Typed DEF RestOK, Monotone, Closed
  <1>7. \A x \in Steps : StepOK(x)'
    <2>1. StepOK(s)
      BY Parts
    <2>2. /\ row'[s].state = "running" /\ row'[s].claims = row[s].claims + 1
          /\ row'[s].attempt = row[s].attempt + 1 /\ row'[s].effect = row[s].effect
          /\ row'[s].paused = row[s].paused
      BY ClaimRow
    <2>3. AttemptsCounted(s)'
      BY <1>0, <1>1, <2>1, <2>2 DEF StepOK, AttemptsCounted
    <2>4. EndJustified(s)'
      BY <2>2 DEF EndJustified
    <2>5. EffectSettled(s)'
      BY <1>0, <1>6, <2>1, <2>2, ExcusedStays DEF StepOK, EffectSettled
    <2>6. StepOK(s)'
      BY <2>3, <2>4, <2>5 DEF StepOK
    <2>7. ASSUME NEW x \in Steps, x # s
          PROVE  StepOK(x)'
      <3>1. row'[x] = row[x] /\ <<x, row[x].claims>> # l
        BY <1>1, <1>2, <2>7 DEF OnlyStep
      <3> QED
        BY <1>4, <1>6, <3>1, StepUntouched DEF OnlyTask
    <2> QED
      BY <2>6, <2>7
  <1>8. AnswersOwned'
    <2>1. Answered(l).lease = l
      BY DEF Answered
    <2>2. ASSUME NEW q \in Pollers, poll[q].at = "answered"
          PROVE  poll[q].lease \in Lease /\ poll[q].lease # l /\ task'[poll[q].lease] = "claimed"
      <3>1. poll[q].lease \in Lease /\ task[poll[q].lease] = "claimed"
        BY <2>2, PollPlaces DEF ServiceInv, AnswersOwned
      <3> QED
        BY <1>3, <1>4, <3>1 DEF OnlyTask
    <2>3. ASSUME NEW q \in Pollers, poll'[q].at = "answered"
          PROVE  task'[poll'[q].lease] = "claimed"
      BY <1>4, <1>5, <2>1, <2>2, <2>3
    <2>4. ASSUME NEW q \in Pollers, NEW r \in Pollers, poll'[q].at = "answered",
                 poll'[r].at = "answered", q # r
          PROVE  poll'[q].lease # poll'[r].lease
      <3>1. CASE q # p /\ r # p
        <4>1. poll'[q] = poll[q] /\ poll'[r] = poll[r]
          BY <1>5, <3>1
        <4> QED
          BY <2>4, <4>1 DEF ServiceInv, AnswersOwned
      <3>2. CASE q = p
        <4>1. poll'[r] = poll[r] /\ poll'[q].lease = l
          BY <1>5, <2>1, <2>4, <3>2
        <4> QED
          BY <2>2, <2>4, <4>1
      <3>3. CASE r = p
        <4>1. poll'[q] = poll[q] /\ poll'[r].lease = l
          BY <1>5, <2>1, <2>4, <3>3
        <4> QED
          BY <2>2, <2>4, <4>1
      <3> QED
        BY <3>1, <3>2, <3>3
    <2> QED
      BY <2>3, <2>4 DEF AnswersOwned
  <1>9. FutureLeases'
    <2> SUFFICES ASSUME NEW x \in Lease, x[2] > row'[x[1]].claims
                 PROVE  task'[x] = "none"
      BY DEF FutureLeases
    <2>1. x[1] \in Steps /\ x[2] \in Nat
      BY LeaseParts
    <2>2. x # l /\ x[2] > row[x[1]].claims
      <3>1. row'[s].claims = row[s].claims + 1
        BY ClaimRow
      <3> QED
        BY <1>1, <1>2, <2>1, <3>1 DEF OnlyStep
    <2> QED
      BY <1>4, <2>2 DEF OnlyTask, ServiceInv, FutureLeases
  <1>10. ResultsKnown'
    BY <1>0, <1>4 DEF ServiceInv, ResultsKnown, OnlyTask
  <1>11. Occupied'
    <2>1. Active' \subseteq Active
      BY <1>4 DEF Active, OnlyTask, Busy
    <2>2. Inflight' \subseteq Inflight
      <3>1. Asked # Idle
        BY DEF Asked, Idle
      <3> QED
        BY <1>0, <1>5, <3>1 DEF Inflight
    <2> QED
      BY <2>1, <2>2, CapacityKept
  <1> QED
    BY <1>1, <1>4, <1>5, <1>6, <1>7, <1>8, <1>9, <1>10, <1>11, Assemble DEF CallsOK

\* A call ends that has claimed nothing.
LEMMA ClaimNothingInv ==
    ASSUME ServiceInv, NEW p \in Pollers, ClaimNothing(p)
    PROVE  ServiceInv'
  <1>0. /\ UNCHANGED <<row, registry, task, lost, running, stopping, okay, escaped, faults>>
        /\ poll' = [poll EXCEPT ![p] = Idle]
    BY DEF ClaimNothing
  <1>1. RestOK /\ Monotone
    BY <1>0, Typed DEF RestOK, Monotone, Closed
  <1>2. poll' \in PollType /\ poll'[p] = Idle /\ \A q \in Pollers : q # p => poll'[q] = poll[q]
    BY <1>0, Typed DEF PollType
  <1>3. \A s \in Steps : StepOK(s)'
    BY <1>0, <1>1, StepUntouched
  <1>4. AnswersOwned'
    <2>1. Idle.at # "answered"
      BY DEF Idle
    <2>2. \A q \in Pollers : poll'[q].at = "answered" => poll'[q] = poll[q]
      BY <1>2, <2>1
    <2>3. \A q \in Pollers : poll'[q].at = "answered" => task'[poll'[q].lease] = "claimed"
      BY <1>0, <2>2 DEF ServiceInv, AnswersOwned
    <2>4. ASSUME NEW q \in Pollers, NEW r \in Pollers, poll'[q].at = "answered",
                 poll'[r].at = "answered", q # r
          PROVE  poll'[q].lease # poll'[r].lease
      <3>1. poll'[q] = poll[q] /\ poll'[r] = poll[r]
        BY <2>2, <2>4
      <3> QED
        BY <2>4, <3>1 DEF ServiceInv, AnswersOwned
    <2> QED
      BY <2>3, <2>4 DEF AnswersOwned
  <1>5. FutureLeases' /\ ResultsKnown'
    BY <1>0 DEF ServiceInv, FutureLeases, ResultsKnown
  <1>6. Occupied'
    <2>1. Active' \subseteq Active /\ Inflight' \subseteq Inflight
      BY <1>0, <1>2 DEF Active, Inflight
    <2> QED
      BY <2>1, CapacityKept
  <1> QED
    BY <1>0, <1>1, <1>2, <1>3, <1>4, <1>5, <1>6, Typed, Assemble DEF CallsOK

\* The slot of a call becomes the slot of a task.
LEMMA ClaimReturnsInv ==
    ASSUME ServiceInv, NEW p \in Pollers, ClaimReturns(p)
    PROVE  ServiceInv'
  <1> DEFINE l == poll[p].lease
  <1>0. /\ UNCHANGED <<row, registry, lost, running, stopping, okay, escaped, faults>>
        /\ poll' = [poll EXCEPT ![p] = Idle] /\ task' = [task EXCEPT ![l] = "executing"]
        /\ poll[p].at = "answered"
    BY DEF ClaimReturns
  <1>1. l \in Lease /\ task[l] = "claimed"
    BY <1>0, PollPlaces DEF ServiceInv, AnswersOwned
  <1>2. /\ poll' \in PollType /\ poll'[p] = Idle /\ \A q \in Pollers : q # p => poll'[q] = poll[q]
        /\ poll[p] # Idle
    BY <1>0, PollPlaces, Typed DEF PollType
  <1>3. \A q \in Pollers : q # p /\ poll[q].at = "answered" =>
           poll[q].lease # l /\ poll[q].lease \in Lease /\ task[poll[q].lease] = "claimed"
    <2> SUFFICES ASSUME NEW q \in Pollers, q # p, poll[q].at = "answered"
                 PROVE  poll[q].lease # l /\ poll[q].lease \in Lease /\ task[poll[q].lease] = "claimed"
      OBVIOUS
    <2>1. poll[q].lease \in Lease
      BY PollPlaces
    <2> QED
      BY <1>0, <2>1 DEF ServiceInv, AnswersOwned
  <1> HIDE DEF l
  <1>4. task' \in [Lease -> TaskStates] /\ task'[l] = "executing" /\ OnlyTask(l)
    BY <1>0, <1>1, Typed DEF TaskStates, Busy, OnlyTask
  <1>5. RestOK /\ Monotone
    BY <1>0, Typed DEF RestOK, Monotone, Closed
  <1>6. \A s \in Steps : StepOK(s)'
    <2>1. SafeMove(l)
      BY <1>1, <1>4 DEF SafeMove
    <2> QED
      BY <1>0, <1>1, <1>4, <1>5, <2>1, StepsKept
  <1>7. AnswersOwned'
    <2>1. Idle.at # "answered"
      BY DEF Idle
    <2>2. \A q \in Pollers : poll'[q].at = "answered" => q # p /\ poll'[q] = poll[q]
      BY <1>2, <2>1
    <2>3. \A q \in Pollers : poll'[q].at = "answered" => task'[poll'[q].lease] = "claimed"
      BY <1>3, <1>4, <2>2 DEF OnlyTask
    <2>4. ASSUME NEW q \in Pollers, NEW r \in Pollers, poll'[q].at = "answered",
                 poll'[r].at = "answered", q # r
          PROVE  poll'[q].lease # poll'[r].lease
      <3>1. poll'[q] = poll[q] /\ poll'[r] = poll[r]
        BY <2>2, <2>4
      <3> QED
        BY <2>4, <3>1 DEF ServiceInv, AnswersOwned
    <2> QED
      BY <2>3, <2>4 DEF AnswersOwned
  <1>8. FutureLeases' /\ ResultsKnown'
    BY <1>0, <1>1, <1>4 DEF ServiceInv, FutureLeases, ResultsKnown, OnlyTask
  <1>9. Occupied'
    <2>1. Active' = Active \cup {l} /\ l \notin Active
      BY <1>1, <1>4 DEF Active, OnlyTask, Busy
    <2>2. Inflight' = Inflight \ {p} /\ p \in Inflight
      BY <1>2 DEF Inflight
    <2>3. /\ IsFiniteSet(Active) /\ IsFiniteSet(Inflight)
          /\ Cardinality(Active) + Cardinality(Inflight) <= MaxConcurrency
      BY DEF ServiceInv, Occupied, CapacityHeld
    <2>4. IsFiniteSet(Active') /\ Cardinality(Active') = Cardinality(Active) + 1
      BY <2>1, <2>3, FS_AddElement
    <2>5. IsFiniteSet(Inflight') /\ Cardinality(Inflight') = Cardinality(Inflight) - 1
      BY <2>2, <2>3, FS_RemoveElement
    <2>6. Cardinality(Active) \in Nat /\ Cardinality(Inflight) \in Nat
      BY <2>3, FS_CardinalityType
    <2>7. Cardinality(Active') + Cardinality(Inflight') <= MaxConcurrency
      BY <2>3, <2>4, <2>5, <2>6
    <2> QED
      BY <2>4, <2>5, <2>7 DEF Occupied, CapacityHeld
  <1> QED
    BY <1>0, <1>2, <1>4, <1>5, <1>6, <1>7, <1>8, <1>9, Typed, Assemble DEF CallsOK

\* stop() raced a claim: the step is put back with the attempt it had.
LEMMA GiveBackInv ==
    ASSUME ServiceInv, NEW p \in Pollers, GiveBack(p)
    PROVE  ServiceInv'
  <1> DEFINE m == poll[p].lease
             n == row[m[1]].attempt - 1
             x == IF HoldsLive(m) THEN "returned to the queue" ELSE "gone"
  <1>0. /\ UNCHANGED <<registry, lost, running, stopping, okay, escaped, faults>>
        /\ poll[p].at = "answered" /\ ~Closed
        /\ poll' = [poll EXCEPT ![p] = Idle] /\ task' = [task EXCEPT ![m] = x]
        /\ IF HoldsLive(m)
           THEN Leave(m, IF n < MaxAttempts THEN "ready" ELSE "failed", n, "worker")
           ELSE UNCHANGED row
        /\ x \in {"gone", "returned to the queue"}
    BY DEF GiveBack
  <1>1. PICK l \in Lease : l = m
    BY <1>0, PollPlaces
  <1>2. RestOK /\ Monotone
    BY <1>0, Typed DEF RestOK, Monotone, Closed
  <1>3. poll' \in PollType
    BY <1>0, Typed DEF PollType
  <1> HIDE DEF m, x
  <1>4. CASE ~HoldsLive(l)
    <2>1. row' = row
      BY <1>0, <1>1, <1>4
    <2>2. /\ CallsOK' /\ task' \in [Lease -> TaskStates] /\ OnlyTask(l)
          /\ task'[l] = x /\ task[l] = "claimed"
      BY <1>0, <1>1, <2>1, ClaimDropped DEF ClaimsKept, m
    <2>3. SafeMove(l)
      BY <1>1, <1>4, <2>2 DEF SafeMove, x
    <2> QED
      BY <1>2, <1>3, <2>1, <2>2, <2>3, StepsKept, Typed, Assemble
  <1>5. CASE HoldsLive(l)
    <2> DEFINE s == l[1]
               r == row[s]
    <2>1. /\ s \in Steps /\ StepOK(s) /\ r.attempt \in 0 .. MaxClaims /\ r.state = "running"
          /\ registry # "superseded" /\ r.ttl > 0 /\ r.claims = l[2] /\ l = <<s, r.claims>>
      BY <1>5, LeaseParts, Parts DEF HoldsLive, Holds
    <2>2. r.attempt >= 1 /\ n \in 0 .. MaxClaims /\ n = r.attempt - 1
      BY <1>1, <2>1 DEF StepOK, AttemptsCounted
    <2>3. Leave(l, IF n < MaxAttempts THEN "ready" ELSE "failed", n, "worker")
      BY <1>0, <1>1, <1>5
    <2>4. /\ row' \in [Steps -> RowType] /\ OnlyStep(s) /\ ClaimsKept
          /\ row'[s].state = (IF n < MaxAttempts THEN "ready" ELSE "failed")
          /\ row'[s].ttl = 0 /\ row'[s].attempt = n /\ row'[s].actor = "worker"
          /\ row'[s].claims = r.claims /\ row'[s].effect = Parked(r.effect) /\ row'[s].paused = r.paused
      BY <2>2, <2>3, LeaveRow
    <2>5. /\ CallsOK' /\ task' \in [Lease -> TaskStates] /\ OnlyTask(l)
          /\ task[l] = "claimed"
      BY <1>0, <1>1, <2>4, ClaimDropped DEF m
    <2>6. AttemptsCounted(s)'
      <3>1. r.claims \in Nat /\ r.attempt <= r.claims /\ r.claims >= 1
        BY <2>1, Parts DEF StepOK, AttemptsCounted
      <3>2. n \in Nat /\ n <= r.claims
        BY <2>1, <2>2, <3>1
      <3> QED
        BY <2>4, <3>1, <3>2 DEF AttemptsCounted
    <2>7. EndJustified(s)'
      BY <2>1, <2>2, <2>4 DEF StepOK, AttemptsCounted, EndJustified
    <2>8. EffectSettled(s)'
      <3>1. Excused(s) \/ r.effect = "none"
        BY <1>0, <2>1, <2>5 DEF StepOK, EffectSettled
      <3> QED
        BY <1>2, <2>1, <2>4, <3>1, ExcusedStays DEF EffectSettled, Parked
    <2> QED
      BY <1>2, <1>3, <2>4, <2>5, <2>6, <2>7, <2>8, OtherSteps, Assemble DEF StepOK
  <1> QED
    BY <1>4, <1>5

\* A claim whose answer is lost has no task.
LEMMA ClaimThrowsInv ==
    ASSUME ServiceInv, NEW p \in Pollers, ClaimThrows(p)
    PROVE  ServiceInv'
  <1> DEFINE l == poll[p].lease
  <1>0. /\ UNCHANGED <<row, registry, lost, running, stopping, okay, escaped>>
        /\ poll[p].at = "answered" /\ Throws
        /\ poll' = [poll EXCEPT ![p] = Idle] /\ task' = [task EXCEPT ![l] = "gone"]
    BY DEF ClaimThrows
  <1>1. RestOK /\ Monotone
    BY <1>0, Typed, ThrowsTyped DEF RestOK, Monotone, Closed
  <1>2. poll' \in PollType
    BY <1>0, Typed DEF PollType
  <1>3. /\ CallsOK' /\ task' \in [Lease -> TaskStates] /\ OnlyTask(l)
        /\ task'[l] = "gone" /\ l \in Lease
    BY <1>0, ClaimDropped DEF ClaimsKept
  <1>4. SafeMove(l)
    BY <1>3 DEF SafeMove
  <1> QED
    BY <1>0, <1>1, <1>2, <1>3, <1>4, StepsKept, Typed, Assemble

\* A heartbeat renews a lease that lives, or notes that it is lost.
LEMMA HeartbeatStepInv ==
    ASSUME ServiceInv, NEW l \in Lease, HeartbeatStep(l)
    PROVE  ServiceInv'
  <1>0. UNCHANGED <<registry, poll, task, running, stopping, okay, escaped, faults>> /\ lost' \subseteq lost \cup {l}
    BY DEF HeartbeatStep
  <1>1. RestOK /\ Monotone
    BY <1>0, Typed DEF RestOK, Monotone, Closed
  <1>2. CASE row' = row
    BY <1>0, <1>1, <1>2, Bystander
  <1>3. CASE HoldsLive(l) /\ row' = [row EXCEPT ![l[1]].ttl = LeaseTTL]
    <2> DEFINE s == l[1]
    <2>1. s \in Steps /\ StepOK(s) /\ row[s].ttl > 0
      BY <1>3, LeaseParts, Parts DEF HoldsLive
    <2>2. /\ row' \in [Steps -> RowType] /\ OnlyStep(s) /\ ClaimsKept
          /\ row'[s].state = row[s].state /\ row'[s].attempt = row[s].attempt
          /\ row'[s].actor = row[s].actor /\ row'[s].claims = row[s].claims
          /\ row'[s].effect = row[s].effect /\ row'[s].paused = row[s].paused
      <3>1. LeaseTTL \in 0 .. LeaseTTL
        OBVIOUS
      <3> QED
        BY <1>3, <2>1, <3>1, TtlRow
    <2>3. AttemptsCounted(s)' /\ EndJustified(s)'
      BY <1>0, <2>1, <2>2 DEF StepOK, AttemptsCounted, EndJustified
    <2>4. EffectSettled(s)'
      BY <1>0, <1>1, <2>1, <2>2, ExcusedStays DEF StepOK, EffectSettled, Closed
    <2> QED
      BY <1>0, <1>1, <2>1, <2>2, <2>3, <2>4, CallsStill, OtherRows, Typed, Assemble DEF StepOK
  <1> QED
    BY <1>2, <1>3 DEF HeartbeatStep

\* A heartbeat that throws writes nothing.
LEMMA HeartbeatThrowsInv ==
    ASSUME ServiceInv, NEW l \in Lease, HeartbeatThrows(l)
    PROVE  ServiceInv'
  <1>0. /\ UNCHANGED <<row, registry, poll, task, running, stopping, okay, escaped>> /\ Throws
        /\ lost' = lost \cup {l}
    BY DEF HeartbeatThrows
  <1>1. RestOK /\ Monotone
    BY <1>0, Typed, ThrowsTyped DEF RestOK, Monotone, Closed
  <1> QED
    BY <1>0, <1>1, Bystander

\* An effect is admitted only for a step that is executing.
LEMMA AdmitEffectInv ==
    ASSUME ServiceInv, NEW l \in Lease, AdmitEffect(l)
    PROVE  ServiceInv'
  <1> DEFINE s == l[1]
  <1>0. /\ UNCHANGED <<registry, poll, task, lost, running, stopping, okay, escaped, faults>>
        /\ task[l] = "executing" /\ HoldsLive(l) /\ row' = [row EXCEPT ![s].effect = "admitted"]
    BY DEF AdmitEffect
  <1>1. s \in Steps /\ StepOK(s) /\ row[s].state = "running" /\ l = <<s, row[s].claims>>
    BY <1>0, LeaseParts, Parts DEF HoldsLive, Holds
  <1>2. /\ row' \in [Steps -> RowType] /\ OnlyStep(s) /\ ClaimsKept
        /\ row'[s].state = row[s].state /\ row'[s].ttl = row[s].ttl /\ row'[s].attempt = row[s].attempt
        /\ row'[s].actor = row[s].actor /\ row'[s].claims = row[s].claims
        /\ row'[s].paused = row[s].paused /\ row'[s].effect = "admitted"
    BY <1>0, <1>1, EffectRow
  <1>3. RestOK /\ Monotone
    BY <1>0, Typed DEF RestOK, Monotone, Closed
  <1>4. AttemptsCounted(s)' /\ EndJustified(s)' /\ EffectSettled(s)'
    BY <1>0, <1>1, <1>2, <1>3, ExcusedStays DEF StepOK, AttemptsCounted, EndJustified, EffectSettled
  <1> QED
    BY <1>0, <1>1, <1>2, <1>3, <1>4, CallsStill, OtherRows, Typed, Assemble DEF StepOK

\* The executor ends: its effect is settled or parked, or nobody but its broker
\* knows, or the lease it held is excused.
LEMMA ExecutorEndsInv ==
    ASSUME ServiceInv, NEW l \in Lease, NEW how \in {"returned", "retryable", "fatal", "unknown"},
           ExecutorEnds(l, how)
    PROVE  ServiceInv'
  <1> DEFINE s == l[1]
             r == row[s]
  <1>0. /\ UNCHANGED <<registry, poll, lost, running, stopping, faults>>
        /\ task[l] = "executing" /\ task' = [task EXCEPT ![l] = how]
        /\ okay' = IF how = "returned" THEN okay \cup {l} ELSE okay
    BY DEF ExecutorEnds
  <1>1. \/ row' = [row EXCEPT ![s].effect = "none"] /\ escaped' = escaped
        \/ Holds(l) /\ r.effect = "admitted" /\ Leave(l, "parked", r.attempt, "worker") /\ escaped' = escaped
        \/ /\ row' = row
           /\ escaped' = IF how # "unknown" /\ HoldsLive(l) THEN escaped \cup {l} ELSE escaped
    BY DEF ExecutorEnds
  <1>2. /\ okay \subseteq okay' /\ okay' \subseteq Lease /\ (how = "returned" => l \in okay')
        /\ escaped \subseteq escaped' /\ escaped' \subseteq Lease
    <2>1. escaped \subseteq escaped' /\ escaped' \subseteq escaped \cup {l}
      BY <1>1
    <2> QED
      BY <1>0, <2>1, Typed
  <1>3. RestOK /\ Monotone
    BY <1>0, <1>2, Typed DEF RestOK, Monotone, Closed
  <1>4. how \in Busy \cup {"gone"} /\ task[l] \in Busy
    BY <1>0 DEF Busy
  <1>5. s \in Steps /\ StepOK(s) /\ r.attempt \in 0 .. MaxClaims /\ (Holds(l) => l = <<s, r.claims>>)
    BY LeaseParts, Parts DEF Holds
  <1>6. CASE /\ row' = row
             /\ escaped' = IF how # "unknown" /\ HoldsLive(l) THEN escaped \cup {l} ELSE escaped
    <2>1. CallsOK' /\ task' \in [Lease -> TaskStates] /\ OnlyTask(l) /\ task'[l] = how
      BY <1>0, <1>2, <1>4, <1>6, TaskMoves DEF ClaimsKept
    <2>2. SafeMove(l)
      BY <1>0, <1>6, <2>1 DEF SafeMove
    <2> QED
      BY <1>0, <1>3, <1>6, <2>1, <2>2, StepsKept, Typed, Assemble
  <1>7. CASE Holds(l) /\ r.effect = "admitted" /\ Leave(l, "parked", r.attempt, "worker")
    <2>1. /\ row' \in [Steps -> RowType] /\ OnlyStep(s) /\ ClaimsKept
          /\ row'[s].state = "parked" /\ row'[s].attempt = r.attempt /\ row'[s].claims = r.claims
      BY <1>5, <1>7, LeaveRow
    <2>2. CallsOK' /\ task' \in [Lease -> TaskStates] /\ OnlyTask(l) /\ task'[l] = how
      BY <1>0, <1>2, <1>4, <2>1, TaskMoves
    <2>3. AttemptsCounted(s)' /\ EndJustified(s)' /\ EffectSettled(s)'
      BY <1>5, <1>7, <2>1 DEF StepOK, Holds, AttemptsCounted, EndJustified, EffectSettled
    <2> QED
      BY <1>0, <1>3, <2>1, <2>2, <2>3, OtherSteps, Typed, Assemble DEF StepOK
  <1>8. CASE row' = [row EXCEPT ![s].effect = "none"]
    <2>1. /\ row' \in [Steps -> RowType] /\ OnlyStep(s) /\ ClaimsKept
          /\ row'[s].state = r.state /\ row'[s].ttl = r.ttl /\ row'[s].attempt = r.attempt
          /\ row'[s].actor = r.actor /\ row'[s].claims = r.claims
          /\ row'[s].paused = r.paused /\ row'[s].effect = "none"
      BY <1>5, <1>8, EffectRow
    <2>2. CallsOK' /\ task' \in [Lease -> TaskStates] /\ OnlyTask(l) /\ task'[l] = how
      BY <1>0, <1>2, <1>4, <2>1, TaskMoves
    <2>3. AttemptsCounted(s)' /\ EffectSettled(s)'
      BY <1>5, <2>1 DEF StepOK, AttemptsCounted, EffectSettled
    <2>4. EndJustified(s)'
      <3>1. r.state # "ready" => <<s, r.claims>> \in Lease
        BY <1>5, LatestLease DEF StepOK, AttemptsCounted
      <3>2. r.state = "failed" /\ r.actor = "worker" /\ ~r.paused => l # <<s, r.claims>>
        BY <1>0, <1>5 DEF StepOK, EndJustified
      <3>3. r.state = "succeeded" => <<s, r.claims>> \in okay'
        BY <1>2, <1>5 DEF StepOK, EndJustified
      <3> QED
        BY <1>5, <2>1, <2>2, <3>1, <3>2, <3>3 DEF StepOK, EndJustified, OnlyTask
    <2> QED
      BY <1>0, <1>3, <2>1, <2>2, <2>3, <2>4, OtherSteps, Typed, Assemble DEF StepOK
  <1> QED
    BY <1>1, <1>6, <1>7, <1>8

\* completeStep under a live lease: the latest claim's result is the step's.
LEMMA SucceedInv ==
    ASSUME ServiceInv, NEW l \in Lease, task[l] = "returned", HoldsLive(l), ~Closed,
           Leave(l, "succeeded", row[l[1]].attempt, "worker"),
           NEW x \in {"gone", "fatal"}, task' = [task EXCEPT ![l] = x],
           UNCHANGED <<registry, poll, stopping, okay, escaped>>, RestOK
    PROVE  ServiceInv'
  <1> DEFINE s == l[1]
             r == row[s]
  <1>1. s \in Steps /\ StepOK(s) /\ r.attempt \in 0 .. MaxClaims /\ r.state = "running" /\ l = <<s, r.claims>>
        /\ registry # "superseded" /\ r.ttl > 0
    BY LeaseParts, Parts DEF HoldsLive, Holds
  <1>2. /\ row' \in [Steps -> RowType] /\ OnlyStep(s) /\ ClaimsKept
        /\ row'[s].state = "succeeded" /\ row'[s].attempt = r.attempt /\ row'[s].claims = r.claims
        /\ row'[s].effect = Parked(r.effect) /\ row'[s].paused = r.paused
    BY <1>1, LeaveRow
  <1>3. CallsOK' /\ task' \in [Lease -> TaskStates] /\ OnlyTask(l)
    <2>1. x \in Busy \cup {"gone"} /\ task[l] \in Busy /\ x # "returned"
      BY DEF Busy
    <2> QED
      BY <1>2, <2>1, TaskMoves
  <1>4. l \in okay
    BY DEF ServiceInv, ResultsKnown
  <1>5. AttemptsCounted(s)' /\ EndJustified(s)'
    BY <1>1, <1>2, <1>4 DEF StepOK, AttemptsCounted, EndJustified
  <1>6. Monotone
    BY DEF Monotone, Closed
  <1>7. EffectSettled(s)'
    <2>1. Excused(s) \/ r.effect = "none"
      BY <1>1 DEF StepOK, EffectSettled
    <2> QED
      BY <1>1, <1>2, <1>6, <2>1, ExcusedStays DEF EffectSettled, Parked
  <1> QED
    BY <1>2, <1>3, <1>5, <1>6, <1>7, OtherSteps, Typed, Assemble DEF StepOK

\* A task ends and no row is written.
LEMMA TaskEndsInv ==
    ASSUME ServiceInv, NEW l \in Lease, task[l] \in Busy, row' = row,
           NEW x \in {"gone", "fatal"}, task' = [task EXCEPT ![l] = x],
           x = "fatal" => task[l] = "returned",
           UNCHANGED <<registry, poll, stopping, okay, escaped>>, RestOK
    PROVE  ServiceInv'
  <1>1. CallsOK' /\ task' \in [Lease -> TaskStates] /\ OnlyTask(l) /\ task'[l] = x
    <2>1. x \in Busy \cup {"gone"} /\ x # "returned"
      BY DEF Busy
    <2> QED
      BY <2>1, TaskMoves DEF ClaimsKept
  <1>2. SafeMove(l)
    BY <1>1 DEF SafeMove
  <1>3. Monotone
    BY DEF Monotone, Closed
  <1> QED
    BY <1>1, <1>2, <1>3, StepsKept, Typed, Assemble

\* completeStep: it ends the step, is fenced, or is not called.
LEMMA CompleteStepInv ==
    ASSUME ServiceInv, NEW l \in Lease, CompleteStep(l)
    PROVE  ServiceInv'
  <1>0. /\ UNCHANGED <<registry, poll, running, stopping, okay, escaped, faults>>
        /\ task[l] = "returned" /\ task[l] \in Busy /\ (l \in lost \/ ~Closed)
        /\ task' = [task EXCEPT ![l] = "gone"] /\ lost' = lost \ {l}
    BY DEF CompleteStep, Over, Busy
  <1>1. RestOK
    BY <1>0, Typed DEF RestOK
  <1>2. CASE l \notin lost /\ HoldsLive(l)
    <2>1. Leave(l, "succeeded", row[l[1]].attempt, "worker") /\ ~Closed
      BY <1>0, <1>2 DEF CompleteStep
    <2> QED
      BY <1>0, <1>1, <1>2, <2>1, SucceedInv
  <1>3. CASE ~(l \notin lost /\ HoldsLive(l))
    <2>1. row' = row
      BY <1>3 DEF CompleteStep
    <2> QED
      BY <1>0, <1>1, <2>1, TaskEndsInv
  <1> QED
    BY <1>2, <1>3

\* completeStep throws before or after its commit.
LEMMA CompleteStepThrowsInv ==
    ASSUME ServiceInv, NEW l \in Lease, CompleteStepThrows(l)
    PROVE  ServiceInv'
  <1>0. /\ UNCHANGED <<registry, poll, lost, running, stopping, okay, escaped>> /\ Throws
        /\ task[l] = "returned" /\ task[l] \in Busy
        /\ task' = [task EXCEPT ![l] = "fatal"]
        /\ \/ row' = row
           \/ HoldsLive(l) /\ ~Closed /\ Leave(l, "succeeded", row[l[1]].attempt, "worker")
    BY DEF CompleteStepThrows, Busy
  <1>1. RestOK
    BY <1>0, Typed, ThrowsTyped DEF RestOK
  <1>2. CASE row' = row
    BY <1>0, <1>1, <1>2, TaskEndsInv
  <1>3. CASE HoldsLive(l) /\ ~Closed /\ Leave(l, "succeeded", row[l[1]].attempt, "worker")
    BY <1>0, <1>1, <1>3, SucceedInv
  <1> QED
    BY <1>0, <1>2, <1>3

\* failStep puts the step back or fails it, with its effect settled.
LEMMA FailStepInv ==
    ASSUME ServiceInv, NEW l \in Lease, FailStep(l)
    PROVE  ServiceInv'
  <1> DEFINE s == l[1]
             r == row[s]
             retry == task[l] = "retryable" /\ r.attempt < MaxAttempts
             st == IF retry THEN "ready" ELSE "failed"
  <1>0. /\ UNCHANGED <<registry, poll, running, stopping, okay, escaped, faults>>
        /\ task[l] \in {"retryable", "fatal", "unknown"} /\ task[l] \in Busy /\ (Reports(l) => ~Closed)
        /\ task' = [task EXCEPT ![l] = "gone"] /\ lost' = lost \ {l}
    BY DEF FailStep, Over, Busy
  <1>1. RestOK /\ Monotone
    BY <1>0, Typed DEF RestOK, Monotone, Closed
  <1>2. CASE Reports(l) /\ HoldsLive(l)
    <2>1. Leave(l, st, r.attempt, "worker") /\ ~Closed /\ st \in {"ready", "parked", "succeeded", "failed"}
          /\ (st = "ready" => r.attempt < MaxAttempts) /\ st \in {"ready", "failed"}
      BY <1>0, <1>2 DEF FailStep
    <2> HIDE DEF st
    <2>2. s \in Steps /\ StepOK(s) /\ r.attempt \in 0 .. MaxClaims /\ r.state = "running" /\ l = <<s, r.claims>>
          /\ registry # "superseded" /\ r.ttl > 0
      BY <1>2, LeaseParts, Parts DEF HoldsLive, Holds
    <2>3. /\ row' \in [Steps -> RowType] /\ OnlyStep(s) /\ ClaimsKept
          /\ row'[s].state = st /\ row'[s].attempt = r.attempt /\ row'[s].claims = r.claims
          /\ row'[s].effect = Parked(r.effect) /\ row'[s].paused = r.paused
      BY <2>1, <2>2, LeaveRow
    <2>4. CallsOK' /\ task' \in [Lease -> TaskStates] /\ OnlyTask(l) /\ task'[l] = "gone"
      BY <1>0, <2>3, TaskMoves DEF Busy
    <2>5. AttemptsCounted(s)' /\ EndJustified(s)'
      BY <2>1, <2>2, <2>3, <2>4 DEF StepOK, AttemptsCounted, EndJustified
    <2>6. EffectSettled(s)'
      <3>1. task[l] \in {"retryable", "fatal"}
        BY <1>0, <1>2 DEF Reports
      <3>2. Excused(s) \/ r.effect = "none"
        BY <2>1, <2>2, <3>1 DEF StepOK, EffectSettled
      <3> QED
        BY <1>1, <2>1, <2>2, <2>3, <3>2, ExcusedStays DEF EffectSettled, Parked
    <2> QED
      BY <1>0, <1>1, <2>3, <2>4, <2>5, <2>6, OtherSteps, Typed, Assemble DEF StepOK
  <1>3. CASE ~(Reports(l) /\ HoldsLive(l))
    <2>1. row' = row
      BY <1>3 DEF FailStep
    <2> QED
      BY <1>0, <1>1, <2>1, TaskEndsInv
  <1> QED
    BY <1>2, <1>3

\* failStep throws: the task is over.
LEMMA FailStepThrowsInv ==
    ASSUME ServiceInv, NEW l \in Lease, FailStepThrows(l)
    PROVE  ServiceInv'
  <1>0. /\ UNCHANGED <<row, registry, poll, running, stopping, okay, escaped>> /\ Throws
        /\ task[l] \in Busy /\ task' = [task EXCEPT ![l] = "gone"] /\ lost' = lost \ {l}
    BY DEF FailStepThrows, Over, Busy
  <1>1. RestOK
    BY <1>0, Typed, ThrowsTyped DEF RestOK
  <1> QED
    BY <1>0, <1>1, TaskEndsInv

\* A unit of time of a lease.
LEMMA ElapseInv ==
    ASSUME ServiceInv, NEW s \in Steps, Elapse(s)
    PROVE  ServiceInv'
  <1>0. /\ UNCHANGED <<registry, poll, task, lost, running, stopping, okay, escaped, faults>>
        /\ row[s].ttl > 0 /\ row' = [row EXCEPT ![s].ttl = row[s].ttl - 1]
    BY DEF Elapse
  <1>1. StepOK(s) /\ row[s].ttl - 1 \in 0 .. LeaseTTL
    BY <1>0, Parts
  <1>2. /\ row' \in [Steps -> RowType] /\ OnlyStep(s) /\ ClaimsKept
        /\ row'[s].state = row[s].state /\ row'[s].attempt = row[s].attempt
        /\ row'[s].actor = row[s].actor /\ row'[s].claims = row[s].claims
        /\ row'[s].effect = row[s].effect /\ row'[s].paused = row[s].paused
    BY <1>0, <1>1, TtlRow
  <1>3. RestOK /\ Monotone
    BY <1>0, Typed DEF RestOK, Monotone, Closed
  <1>4. AttemptsCounted(s)' /\ EndJustified(s)'
    BY <1>0, <1>1, <1>2 DEF StepOK, AttemptsCounted, EndJustified
  <1>5. EffectSettled(s)'
    BY <1>0, <1>1, <1>2, <1>3, ExcusedStays DEF StepOK, EffectSettled, Closed
  <1> QED
    BY <1>0, <1>2, <1>3, <1>4, <1>5, CallsStill, OtherRows, Typed, Assemble DEF StepOK

\* The kernel takes an expired lease back, and parks a step with an admitted effect.
LEMMA ReclaimInv ==
    ASSUME ServiceInv, NEW s \in Steps, ReclaimExpiredLeases(s)
    PROVE  ServiceInv'
  <1> DEFINE st == IF row[s].effect = "admitted" THEN "parked"
                   ELSE IF row[s].attempt < MaxAttempts THEN "ready" ELSE "failed"
  <1>0. /\ UNCHANGED <<registry, poll, task, lost, running, stopping, okay, escaped, faults>>
        /\ row[s].state = "running"
    BY DEF ReclaimExpiredLeases
  <1>1. StepOK(s)
    BY Parts
  <1>2. /\ st \in {"parked", "ready", "failed"} /\ (row[s].effect = "admitted" => st = "parked")
        /\ (st = "ready" => row[s].attempt < MaxAttempts)
    OBVIOUS
  <1>3. /\ row' \in [Steps -> RowType] /\ OnlyStep(s) /\ ClaimsKept
        /\ row'[s].state = st /\ row'[s].attempt = row[s].attempt /\ row'[s].actor = "kernel"
        /\ row'[s].claims = row[s].claims /\ row'[s].effect = Parked(row[s].effect)
        /\ row'[s].paused = row[s].paused
    BY ReclaimRow
  <1> HIDE DEF st
  <1>4. RestOK /\ Monotone
    BY <1>0, Typed DEF RestOK, Monotone, Closed
  <1>5. AttemptsCounted(s)' /\ EndJustified(s)'
    BY <1>0, <1>1, <1>2, <1>3 DEF StepOK, AttemptsCounted, EndJustified
  <1>6. EffectSettled(s)'
    <2>1. Excused(s) \/ row[s].effect \in {"none", "admitted"}
      <3>1. row[s].effect \in {"none", "admitted", "unknown"}
        BY Parts DEF RowType
      <3> QED
        BY <1>0, <1>1, <3>1 DEF StepOK, EffectSettled
    <2> QED
      BY <1>2, <1>3, <1>4, <2>1, ExcusedStays DEF EffectSettled, Parked
  <1> QED
    BY <1>0, <1>3, <1>4, <1>5, <1>6, CallsStill, OtherRows, Typed, Assemble DEF StepOK

\* An operator's pause takes a step out of what the worker answers for.
LEMMA PauseInv ==
    ASSUME ServiceInv, NEW s \in Steps, PauseStep(s)
    PROVE  ServiceInv'
  <1>0. /\ UNCHANGED <<registry, poll, task, lost, running, stopping, okay, escaped, faults>>
        /\ row[s].state = "running"
    BY DEF PauseStep
  <1>1. StepOK(s)
    BY Parts
  <1>2. /\ row' \in [Steps -> RowType] /\ OnlyStep(s) /\ ClaimsKept
        /\ row'[s].state = "ready" /\ row'[s].paused /\ row'[s].attempt = row[s].attempt
        /\ row'[s].claims = row[s].claims
    BY PauseRow
  <1>3. RestOK /\ Monotone
    BY <1>0, Typed DEF RestOK, Monotone, Closed
  <1>4. AttemptsCounted(s)' /\ EndJustified(s)' /\ EffectSettled(s)'
    BY <1>0, <1>1, <1>2 DEF StepOK, AttemptsCounted, EndJustified, EffectSettled, Excused
  <1> QED
    BY <1>0, <1>2, <1>3, <1>4, CallsStill, OtherRows, Typed, Assemble DEF StepOK

\* Registration and shutdown write no row and move no task.
LEMMA ShutdownInv ==
    ASSUME ServiceInv,
           RegistryHeartbeat \/ LoseRegistration \/ Stop \/ DrainWorker \/ DrainThrows \/ Dispose
           \/ UNCHANGED vars
    PROVE  ServiceInv'
  <1>1. ASSUME RegistryHeartbeat PROVE UNCHANGED <<row, poll, task, okay>> /\ RestOK /\ Monotone
    BY <1>1, Typed DEF RegistryHeartbeat, RestOK, Monotone, Closed
  <1>2. ASSUME LoseRegistration PROVE UNCHANGED <<row, poll, task, okay>> /\ RestOK /\ Monotone
    BY <1>2, Typed DEF LoseRegistration, RestOK, Monotone, Closed
  <1>3. ASSUME Stop PROVE UNCHANGED <<row, poll, task, okay>> /\ RestOK /\ Monotone
    BY <1>3, Typed DEF Stop, RestOK, Monotone, Closed
  <1>4. ASSUME DrainWorker PROVE UNCHANGED <<row, poll, task, okay>> /\ RestOK /\ Monotone
    BY <1>4, Typed DEF DrainWorker, RestOK, Monotone, Closed
  <1>5. ASSUME DrainThrows PROVE UNCHANGED <<row, poll, task, okay>> /\ RestOK /\ Monotone
    BY <1>5, Typed, ThrowsTyped DEF DrainThrows, RestOK, Monotone, Closed
  <1>6. ASSUME Dispose PROVE UNCHANGED <<row, poll, task, okay>> /\ RestOK /\ Monotone
    BY <1>6, Typed DEF Dispose, RestOK, Monotone, Closed
  <1>7. ASSUME UNCHANGED vars PROVE UNCHANGED <<row, poll, task, okay>> /\ RestOK /\ Monotone
    BY <1>7, Typed DEF vars, RestOK, Monotone, Closed
  <1> QED
    BY <1>1, <1>2, <1>3, <1>4, <1>5, <1>6, <1>7, Bystander

\* After start() the invariant holds.
LEMMA InitInv == Init => ServiceInv
  <1> SUFFICES ASSUME Init PROVE ServiceInv
    OBVIOUS
  <1> DEFINE r0 == [state |-> "ready", claims |-> 0, ttl |-> 0, attempt |-> 0,
                    effect |-> "none", paused |-> FALSE, actor |-> "none"]
  <1>1. /\ r0 \in RowType /\ r0.state = "ready" /\ r0.claims = 0 /\ r0.attempt = 0 /\ r0.effect = "none"
    BY DEF RowType
  <1>2. \A s \in Steps : row[s] = r0
    BY DEF Init
  <1>3. row \in [Steps -> RowType]
    BY <1>1 DEF Init
  <1> HIDE DEF r0
  <1>4. TypeOK
    BY <1>3 DEF Init, TypeOK, RowType
  <1>5. \A p \in Pollers : poll[p] = Idle /\ poll[p].at # "answered"
    BY DEF Init, Idle
  <1>6. \A l \in Lease : task[l] = "none"
    BY DEF Init
  <1>7. AnswersOwned /\ FutureLeases /\ ResultsKnown
    BY <1>5, <1>6 DEF AnswersOwned, FutureLeases, ResultsKnown
  <1>8. Occupied
    <2>1. Active = {} /\ Inflight = {}
      BY <1>5, <1>6 DEF Active, Inflight, Busy
    <2>2. IsFiniteSet({}) /\ Cardinality({}) = 0
      BY FS_EmptySet
    <2> QED
      BY <2>1, <2>2 DEF Occupied, CapacityHeld
  <1>9. \A s \in Steps : StepOK(s)
    BY <1>1, <1>2 DEF StepOK, AttemptsCounted, EndJustified, EffectSettled
  <1> QED
    BY <1>4, <1>7, <1>8, <1>9 DEF ServiceInv

\* Every step keeps it.
LEMMA NextInv == ServiceInv /\ [Next]_vars => ServiceInv'
  <1> SUFFICES ASSUME ServiceInv, [Next]_vars
               PROVE  ServiceInv'
    OBVIOUS
  <1>1. CASE \E p \in Pollers :
                \/ PollOnce(p)
                \/ \E s \in Steps : ClaimNextStep(p, s)
                \/ ClaimNothing(p) \/ ClaimReturns(p) \/ GiveBack(p) \/ ClaimThrows(p)
    BY <1>1, PollOnceInv, ClaimNextStepInv, ClaimNothingInv, ClaimReturnsInv, GiveBackInv, ClaimThrowsInv
  <1>2. CASE \E l \in Lease :
                \/ HeartbeatStep(l) \/ HeartbeatThrows(l)
                \/ AdmitEffect(l)
                \/ \E how \in {"returned", "retryable", "fatal", "unknown"} : ExecutorEnds(l, how)
                \/ CompleteStep(l) \/ CompleteStepThrows(l)
                \/ FailStep(l) \/ FailStepThrows(l)
    BY <1>2, HeartbeatStepInv, HeartbeatThrowsInv, AdmitEffectInv, ExecutorEndsInv, CompleteStepInv,
       CompleteStepThrowsInv, FailStepInv, FailStepThrowsInv
  <1>3. CASE \E s \in Steps : Elapse(s) \/ ReclaimExpiredLeases(s) \/ PauseStep(s)
    BY <1>3, ElapseInv, ReclaimInv, PauseInv
  <1>4. CASE RegistryHeartbeat \/ LoseRegistration \/ Stop \/ DrainWorker \/ DrainThrows \/ Dispose
             \/ UNCHANGED vars
    BY <1>4, ShutdownInv
  <1> QED
    BY <1>1, <1>2, <1>3, <1>4 DEF Next, ServiceNext

-----------------------------------------------------------------------------
(* The theorems.                                                           *)

(* ServiceInv is inductive: it holds in every reachable state of a worker, *)
(* its calls and its tasks.                                                *)
THEOREM ServiceInvariant == Spec => []ServiceInv
  BY InitInv, NextInv, PTL DEF Spec

(* Rows, calls, tasks and counters of the worker keep their types; attempt *)
(* never exceeds the number of claims and a refund never makes it negative.*)
THEOREM ServiceTypeCorrect == Spec => []TypeOK
  <1>1. ServiceInv => TypeOK
    BY DEF ServiceInv
  <1> QED
    BY <1>1, ServiceInvariant, PTL

(* For any number of concurrent callers of pollOnce: tasks and claims in   *)
(* flight never exceed maxConcurrency.                                     *)
THEOREM WorkerStaysWithinCapacity == Spec => []CapacityHeld
  <1>1. ServiceInv => CapacityHeld
    BY DEF ServiceInv, Occupied
  <1> QED
    BY <1>1, ServiceInvariant, PTL

(* completeStep never records the result of a task whose step was claimed  *)
(* again: the result of a succeeded step is that of its latest claim.      *)
THEOREM LatestClaimSucceeds == Spec => []SuccessIsOfLatestClaim
  <1>1. ServiceInv => SuccessIsOfLatestClaim
    BY DEF ServiceInv, StepOK, EndJustified, SuccessIsOfLatestClaim
  <1> QED
    BY <1>1, ServiceInvariant, PTL

(* A stop() that races a claim never exhausts the attempts of the step it  *)
(* gives back, for every max_attempts: refundAttempt undoes the claim's    *)
(* increment.                                                              *)
THEOREM ShutdownFailsNoStep == Spec => []FailedOnlyAfterExecution
  <1>1. ServiceInv => FailedOnlyAfterExecution
    BY DEF ServiceInv, StepOK, EndJustified, FailedOnlyAfterExecution
  <1> QED
    BY <1>1, ServiceInvariant, PTL

(* No report of the worker, late, lost or of an earlier task, puts back or *)
(* fails a step whose effect is unsettled, unless the step was paused or   *)
(* its broker swallowed that the effect could not be parked.               *)
THEOREM UnsettledStepsWait == Spec => []UnsettledIsNotRetried
  <1>1. ServiceInv => UnsettledIsNotRetried
    BY DEF ServiceInv, StepOK, EffectSettled, UnsettledIsNotRetried
  <1> QED
    BY <1>1, ServiceInvariant, PTL
=============================================================================
