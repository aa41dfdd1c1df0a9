--------------------------- MODULE ReconcileProofs --------------------------
(***************************************************************************)
(* Safety of Reconcile for all effects, daemons, policies and deadlines:   *)
(* its clocks, the fencing of its claims and its refinement of Resolution. *)
(*                                                                         *)
(* The three rest on one fact about the policy, AttemptsLeft: an effect    *)
(* that is still unknown has an attempt left, because the last one that    *)
(* finds nothing escalates.                                                *)
(***************************************************************************)
EXTENDS Reconcile, TLAPS

RowType ==
    [state : EffectStates, attempts : 0 .. MaxAttempts, wait : Nat,
     deadline : Nat, holder : Daemons \cup {None}, left : 0 .. ClaimTTL]

\* An admitted effect has no attempt behind it and waits for nothing.
Fresh == \A e \in Effects : effect[e].state = "ADMITTED" => effect[e].wait = 0 /\ effect[e].attempts = 0

\* An unknown effect has an attempt left.
AttemptsLeft == \A e \in Effects : Unknown(e) => effect[e].attempts < MaxAttempts

\* The inductive invariant.
ReconcileInv == TypeOK /\ Fresh /\ AttemptsLeft /\ NextAttemptBeforeDeadline

USE ReconcileBoundAssumption

-----------------------------------------------------------------------------
(* Rows.                                                                   *)

\* One column of a row is overwritten.
LEMMA RowField ==
    ASSUME NEW r \in RowType
    PROVE  /\ \A x \in EffectStates : [r EXCEPT !.state = x] \in RowType
           /\ \A x \in 0 .. MaxAttempts : [r EXCEPT !.attempts = x] \in RowType
           /\ \A x \in Nat : [r EXCEPT !.wait = x] \in RowType
           /\ \A x \in Nat : [r EXCEPT !.deadline = x] \in RowType
           /\ \A x \in Daemons \cup {None} : [r EXCEPT !.holder = x] \in RowType
           /\ \A x \in 0 .. ClaimTTL : [r EXCEPT !.left = x] \in RowType
  <1> USE DEF RowType
  <1>1. \A x \in EffectStates : [r EXCEPT !.state = x] \in RowType
    OBVIOUS
  <1>2. \A x \in 0 .. MaxAttempts : [r EXCEPT !.attempts = x] \in RowType
    OBVIOUS
  <1>3. \A x \in Nat : [r EXCEPT !.wait = x] \in RowType
    OBVIOUS
  <1>4. \A x \in Nat : [r EXCEPT !.deadline = x] \in RowType
    OBVIOUS
  <1>5. \A x \in Daemons \cup {None} : [r EXCEPT !.holder = x] \in RowType
    OBVIOUS
  <1>6. \A x \in 0 .. ClaimTTL : [r EXCEPT !.left = x] \in RowType
    OBVIOUS
  <1> QED
    BY <1>1, <1>2, <1>3, <1>4, <1>5, <1>6, Zenon

\* The parts of the type invariant that proofs ask for.
LEMMA Parts ==
    ASSUME ReconcileInv
    PROVE  /\ effect \in [Effects -> RowType]
           /\ \A e \in Effects :
                 /\ effect[e] \in RowType
                 /\ effect[e].attempts \in 0 .. MaxAttempts
                 /\ effect[e].wait \in Nat /\ effect[e].deadline \in Nat
                 /\ effect[e].left \in 0 .. ClaimTTL
           /\ older \subseteq Due \X Due
           /\ todo \in [Daemons -> Seq(Effects)]
  <1>1. effect \in [Effects -> RowType] /\ older \subseteq Due \X Due /\ todo \in [Daemons -> Seq(Effects)]
    BY DEF ReconcileInv, TypeOK, RowType
  <1>2. \A e \in Effects : effect[e] \in RowType
    BY <1>1
  <1>3. \A e \in Effects :
           /\ effect[e].attempts \in 0 .. MaxAttempts
           /\ effect[e].wait \in Nat /\ effect[e].deadline \in Nat
           /\ effect[e].left \in 0 .. ClaimTTL
    BY <1>2 DEF RowType
  <1> QED
    BY <1>1, <1>2, <1>3

\* What the reconciler's mutation makes of a row: the effect is decided or
\* given to a human, or one attempt is spent and the next lies before the
\* deadline.
LEMMA MutatedRow ==
    ASSUME NEW e \in Effects, effect[e] \in RowType, Unknown(e), effect[e].attempts < MaxAttempts,
           NEW outcome \in {"APPLIED", "NOT_APPLIED", "UNKNOWN", "UNSUPPORTED"}
    PROVE  LET q == Mutated(e, outcome)
               r == effect[e]
           IN  /\ q \in RowType /\ q.holder = None /\ q.left = 0
               /\ \/ /\ q.state \in {"COMPLETED", "CONFIRMED_NOT_APPLIED", "ESCALATED"}
                     /\ q.attempts = r.attempts
                  \/ /\ q.state = "ESCALATED"
                     /\ q.attempts = r.attempts + 1
                  \/ /\ q.state = "COMPLETION_UNKNOWN"
                     /\ q.attempts = r.attempts + 1 /\ q.attempts < MaxAttempts
                     /\ q.wait > 0 /\ q.wait < q.deadline
  <1> DEFINE r == effect[e]
             base == [r EXCEPT !.holder = None, !.left = 0]
             b1 == [r EXCEPT !.holder = None]
             b2 == [b1 EXCEPT !.left = 0]
             n == r.attempts + 1
  <1>0. /\ r.attempts \in Nat /\ r.deadline \in Nat /\ n \in 1 .. MaxAttempts
        /\ Delay(n) \in Nat \ {0} /\ 0 \in 0 .. ClaimTTL /\ n \in 0 .. MaxAttempts
    BY DEF RowType
  <1>1. base = b2
    OBVIOUS
  <1>2. b1 \in RowType /\ b1.state = r.state /\ b1.attempts = r.attempts /\ b1.deadline = r.deadline
        /\ b1.holder = None
    BY RowField DEF RowType
  <1> HIDE DEF b1
  <1>3. /\ b2 \in RowType /\ b2.state = r.state /\ b2.attempts = r.attempts /\ b2.deadline = r.deadline
        /\ b2.holder = None /\ b2.left = 0
    BY <1>0, <1>2, RowField DEF RowType
  <1>4. /\ base \in RowType /\ base.state = r.state /\ base.attempts = r.attempts
        /\ base.deadline = r.deadline /\ base.holder = None /\ base.left = 0
    BY <1>1, <1>3
  <1>5. Mutated(e, outcome) =
          CASE outcome = "APPLIED"     -> [base EXCEPT !.state = "COMPLETED"]
            [] outcome = "NOT_APPLIED" -> [base EXCEPT !.state = "CONFIRMED_NOT_APPLIED"]
            [] outcome = "UNSUPPORTED" -> [base EXCEPT !.state = "ESCALATED"]
            [] outcome = "UNKNOWN"     ->
                  IF Escalates(e)
                  THEN [base EXCEPT !.state = "ESCALATED", !.attempts = @ + 1]
                  ELSE [base EXCEPT !.attempts = @ + 1, !.wait = Delay(n)]
    BY DEF Mutated
  <1>6. r.state = "COMPLETION_UNKNOWN"
    BY DEF Unknown
  <1>7. ~Escalates(e) => n < MaxAttempts /\ Delay(n) < r.deadline
    BY <1>0 DEF Escalates
  <1> HIDE DEF base, b2, r, n
  <1>8. ASSUME NEW x \in {"COMPLETED", "CONFIRMED_NOT_APPLIED", "ESCALATED"}
        PROVE  LET q == [base EXCEPT !.state = x]
               IN  /\ q \in RowType /\ q.holder = None /\ q.left = 0
                   /\ q.state = x /\ q.attempts = r.attempts
    <2>1. x \in EffectStates
      BY DEF EffectStates
    <2>2. [base EXCEPT !.state = x] \in RowType
      BY <1>4, <2>1, RowField
    <2> QED
      BY <1>4, <2>2 DEF RowType
  <1>9. LET q == [base EXCEPT !.state = "ESCALATED", !.attempts = @ + 1]
        IN  /\ q \in RowType /\ q.holder = None /\ q.left = 0
            /\ q.state = "ESCALATED" /\ q.attempts = n
    <2> DEFINE q == [base EXCEPT !.state = "ESCALATED", !.attempts = @ + 1]
               q1 == [base EXCEPT !.state = "ESCALATED"]
               q2 == [q1 EXCEPT !.attempts = n]
    <2>1. /\ q1 \in RowType /\ q1.holder = None /\ q1.left = 0 /\ q1.state = "ESCALATED"
          /\ q1.attempts = r.attempts
      BY <1>4, <1>8
    <2>2. q = q2
      BY <1>4, <2>1 DEF n
    <2> HIDE DEF q, q1
    <2>3. /\ q2 \in RowType /\ q2.holder = None /\ q2.left = 0 /\ q2.state = "ESCALATED"
          /\ q2.attempts = n
      BY <1>0, <2>1, RowField DEF RowType
    <2>4. q \in RowType /\ q.holder = None /\ q.left = 0 /\ q.state = "ESCALATED" /\ q.attempts = n
      BY <2>2, <2>3
    <2> QED
      BY <2>4 DEF q
  <1>10. LET q == [base EXCEPT !.attempts = @ + 1, !.wait = Delay(n)]
         IN  /\ q \in RowType /\ q.holder = None /\ q.left = 0
             /\ q.state = "COMPLETION_UNKNOWN" /\ q.attempts = n
             /\ q.wait = Delay(n) /\ q.deadline = r.deadline
    <2> DEFINE q == [base EXCEPT !.attempts = @ + 1, !.wait = Delay(n)]
               q1 == [base EXCEPT !.attempts = n]
               q2 == [q1 EXCEPT !.wait = Delay(n)]
    <2>1. /\ q1 \in RowType /\ q1.holder = None /\ q1.left = 0 /\ q1.state = "COMPLETION_UNKNOWN"
          /\ q1.attempts = n /\ q1.deadline = r.deadline
      BY <1>0, <1>4, <1>6, RowField DEF RowType
    <2>2. q = q2
      BY <1>4 DEF n
    <2> HIDE DEF q, q1
    <2>3. /\ q2 \in RowType /\ q2.holder = None /\ q2.left = 0 /\ q2.state = "COMPLETION_UNKNOWN"
          /\ q2.attempts = n /\ q2.deadline = r.deadline /\ q2.wait = Delay(n)
      BY <1>0, <2>1, RowField DEF RowType
    <2>4. /\ q \in RowType /\ q.holder = None /\ q.left = 0 /\ q.state = "COMPLETION_UNKNOWN"
          /\ q.attempts = n /\ q.deadline = r.deadline /\ q.wait = Delay(n)
      BY <2>2, <2>3
    <2> QED
      BY <2>4 DEF q
  <1> DEFINE q == Mutated(e, outcome)
  <1>11. CASE outcome \in {"APPLIED", "NOT_APPLIED", "UNSUPPORTED"}
    <2>1. \E x \in {"COMPLETED", "CONFIRMED_NOT_APPLIED", "ESCALATED"} : q = [base EXCEPT !.state = x]
      BY <1>5, <1>11
    <2>2. /\ q \in RowType /\ q.holder = None /\ q.left = 0
          /\ q.state \in {"COMPLETED", "CONFIRMED_NOT_APPLIED", "ESCALATED"} /\ q.attempts = r.attempts
      BY <1>8, <2>1
    <2> QED
      BY <2>2 DEF r
  <1>12. CASE outcome = "UNKNOWN" /\ Escalates(e)
    <2>1. q = [base EXCEPT !.state = "ESCALATED", !.attempts = @ + 1]
      BY <1>5, <1>12
    <2>2. q \in RowType /\ q.holder = None /\ q.left = 0 /\ q.state = "ESCALATED" /\ q.attempts = n
      BY <1>9, <2>1
    <2> QED
      BY <2>2 DEF r, n
  <1>13. CASE outcome = "UNKNOWN" /\ ~Escalates(e)
    <2>1. q = [base EXCEPT !.attempts = @ + 1, !.wait = Delay(n)]
      BY <1>5, <1>13
    <2>2. /\ q \in RowType /\ q.holder = None /\ q.left = 0 /\ q.state = "COMPLETION_UNKNOWN"
          /\ q.attempts = n /\ q.deadline = r.deadline /\ q.wait = Delay(n)
      BY <1>10, <2>1
    <2>3. q.attempts < MaxAttempts /\ q.wait > 0 /\ q.wait < q.deadline
      BY <1>0, <1>7, <1>13, <2>2
    <2> QED
      BY <2>2, <2>3 DEF r, n
  <1> QED
    BY <1>11, <1>12, <1>13

-----------------------------------------------------------------------------
(* What each action does to the rows.                                      *)

\* The rows of the other effects stay.
OnlyRow(e) == \A x \in Effects : x # e => effect'[x] = effect[x]

\* State and attempts of an effect stay.
Kept(x) == effect'[x].state = effect[x].state /\ effect'[x].attempts = effect[x].attempts

\* An admitted effect is parked, due at once.
LEMMA ParkRows ==
    ASSUME ReconcileInv, NEW e \in Effects, NEW n \in Deadlines, Park(e, n)
    PROVE  /\ effect' \in [Effects -> RowType] /\ OnlyRow(e)
           /\ effect[e].state = "ADMITTED" /\ effect'[e].state = "COMPLETION_UNKNOWN"
           /\ effect'[e].attempts = effect[e].attempts /\ effect'[e].wait = effect[e].wait
           /\ effect'[e].holder = effect[e].holder
  <1> DEFINE r == effect[e]
             q1 == [r EXCEPT !.state = "COMPLETION_UNKNOWN"]
             q2 == [q1 EXCEPT !.deadline = n]
  <1>0. /\ effect \in [Effects -> RowType] /\ r \in RowType /\ n \in Nat
        /\ "COMPLETION_UNKNOWN" \in EffectStates
    BY Parts DEF EffectStates
  <1>1. /\ effect' = [effect EXCEPT ![e].state = "COMPLETION_UNKNOWN", ![e].deadline = n]
        /\ effect[e].state = "ADMITTED"
    BY DEF Park
  <1>2. effect' = [effect EXCEPT ![e] = q2]
    BY <1>0, <1>1
  <1>3. /\ q1 \in RowType /\ q1.state = "COMPLETION_UNKNOWN" /\ q1.attempts = r.attempts
        /\ q1.wait = r.wait /\ q1.holder = r.holder
    BY <1>0, RowField DEF RowType
  <1> HIDE DEF q1
  <1>4. /\ q2 \in RowType /\ q2.state = "COMPLETION_UNKNOWN" /\ q2.attempts = r.attempts
        /\ q2.wait = r.wait /\ q2.holder = r.holder
    BY <1>0, <1>3, RowField DEF RowType
  <1> HIDE DEF q2
  <1> QED
    BY <1>0, <1>1, <1>2, <1>4 DEF OnlyRow

\* An operator makes an effect due.
LEMMA RequestRows ==
    ASSUME ReconcileInv, NEW e \in Effects, RequestReconcileEffect(e)
    PROVE  /\ effect' \in [Effects -> RowType] /\ OnlyRow(e)
           /\ Unknown(e) /\ Kept(e) /\ effect'[e].wait = 0
           /\ effect'[e].holder = effect[e].holder
  <1> DEFINE q == [effect[e] EXCEPT !.wait = 0]
  <1>0. effect \in [Effects -> RowType] /\ effect[e] \in RowType
    BY Parts
  <1>1. effect' = [effect EXCEPT ![e] = q] /\ Unknown(e)
    BY DEF RequestReconcileEffect
  <1>2. /\ q \in RowType /\ q.state = effect[e].state /\ q.attempts = effect[e].attempts
        /\ q.wait = 0 /\ q.holder = effect[e].holder
    BY <1>0, RowField DEF RowType
  <1> HIDE DEF q
  <1> QED
    BY <1>0, <1>1, <1>2 DEF OnlyRow, Kept

\* The timer of a daemon fires: claims are stamped on eligible effects.
LEMMA FireRows ==
    ASSUME ReconcileInv, NEW d \in Daemons, TimerFires(d)
    PROVE  /\ effect' \in [Effects -> RowType]
           /\ \A x \in Effects : /\ Kept(x)
                                 /\ effect'[x].wait = effect[x].wait
                                 /\ effect'[x].deadline = effect[x].deadline
                                 /\ effect'[x].holder # effect[x].holder => Eligible(x)
           /\ todo' \in [Daemons -> Seq(Effects)]
           /\ budget' \in [Daemons -> 0 .. QueryBudget]
  <1>0. effect \in [Effects -> RowType] /\ todo \in [Daemons -> Seq(Effects)]
        /\ budget \in [Daemons -> 0 .. QueryBudget]
    BY Parts DEF ReconcileInv, TypeOK
  <1>1. CASE UNCHANGED <<effect, todo, budget>>
    BY <1>0, <1>1 DEF Kept
  <1>2. CASE \E batch \in Claims(d) :
               /\ todo' = [todo EXCEPT ![d] = batch]
               /\ effect' = [e \in Effects |->
                               IF e \in Range(batch)
                               THEN [effect[e] EXCEPT !.holder = d, !.left = ClaimTTL]
                               ELSE effect[e]]
               /\ budget' = [budget EXCEPT ![d] = IF batch = <<>> THEN 0 ELSE QueryBudget]
    <2>1. PICK batch \in Claims(d) :
               /\ todo' = [todo EXCEPT ![d] = batch]
               /\ effect' = [e \in Effects |->
                               IF e \in Range(batch)
                               THEN [effect[e] EXCEPT !.holder = d, !.left = ClaimTTL]
                               ELSE effect[e]]
               /\ budget' = [budget EXCEPT ![d] = IF batch = <<>> THEN 0 ELSE QueryBudget]
      BY <1>2
    <2>2. batch \in Seq(Effects) /\ \A i \in DOMAIN batch : Eligible(batch[i])
      <3>1. batch = <<>> \/ batch \in Batches
        BY DEF Claims
      <3>2. CASE batch = <<>>
        BY <3>2
      <3>3. CASE batch \in Batches
        BY <3>3 DEF Batches, BoundedSeq, SeqOf
      <3> QED
        BY <3>1, <3>2, <3>3
    <2>3. \A x \in Range(batch) : Eligible(x)
      BY <2>2 DEF Range
    <2>4. ASSUME NEW x \in Effects
          PROVE  /\ effect'[x] \in RowType /\ Kept(x)
                 /\ effect'[x].wait = effect[x].wait
                 /\ effect'[x].deadline = effect[x].deadline
                 /\ effect'[x].holder # effect[x].holder => x \in Range(batch)
      <3> DEFINE q1 == [effect[x] EXCEPT !.holder = d]
                 q2 == [q1 EXCEPT !.left = ClaimTTL]
      <3>1. effect[x] \in RowType /\ ClaimTTL \in 0 .. ClaimTTL
        BY Parts
      <3>2. CASE x \notin Range(batch)
        BY <2>1, <3>1, <3>2 DEF Kept
      <3>3. CASE x \in Range(batch)
        <4>1. effect'[x] = q2
          BY <2>1, <3>3
        <4>2. /\ q1 \in RowType /\ q1.state = effect[x].state /\ q1.attempts = effect[x].attempts
              /\ q1.wait = effect[x].wait /\ q1.deadline = effect[x].deadline
          BY <3>1, RowField DEF RowType
        <4> HIDE DEF q1
        <4>3. /\ q2 \in RowType /\ q2.state = effect[x].state /\ q2.attempts = effect[x].attempts
              /\ q2.wait = effect[x].wait /\ q2.deadline = effect[x].deadline
          BY <3>1, <4>2, RowField DEF RowType
        <4> HIDE DEF q2
        <4> QED
          BY <3>3, <4>1, <4>3 DEF Kept
      <3> QED
        BY <3>2, <3>3
    <2>5. effect' \in [Effects -> RowType]
      <3>1. effect' = [x \in Effects |-> effect'[x]]
        BY <2>1
      <3> QED
        BY <2>4, <3>1
    <2>6. todo' \in [Daemons -> Seq(Effects)]
      BY <1>0, <2>1, <2>2
    <2>7. budget' \in [Daemons -> 0 .. QueryBudget]
      <3>1. (IF batch = <<>> THEN 0 ELSE QueryBudget) \in 0 .. QueryBudget
        OBVIOUS
      <3> QED
        BY <1>0, <2>1, <3>1, Zenon
    <2> QED
      BY <2>3, <2>4, <2>5, <2>6, <2>7
  <1> QED
    BY <1>1, <1>2 DEF TimerFires

\* A daemon sends a mutation: it is rejected, or it is the holder's.
LEMMA WorkRows ==
    ASSUME ReconcileInv, NEW d \in Daemons,
           NEW outcome \in {"APPLIED", "NOT_APPLIED", "UNKNOWN", "UNSUPPORTED"},
           ReconcileClaim(d, outcome)
    PROVE  /\ todo[d] # <<>> /\ Head(todo[d]) \in Effects
           /\ todo' = [todo EXCEPT ![d] = Tail(todo[d])]
           /\ effect' \in [Effects -> RowType]
           /\ \/ UNCHANGED <<effect, older>>
              \/ LET e == Head(todo[d])
                 IN  /\ effect[e].holder = d /\ Unknown(e)
                     /\ effect'[e] = Mutated(e, outcome) /\ OnlyRow(e)
                     /\ older' = {p \in older : p[1] # e /\ p[2] # e}
  <1> DEFINE e == Head(todo[d])
  <1>0. effect \in [Effects -> RowType] /\ todo \in [Daemons -> Seq(Effects)]
    BY Parts
  <1>1. /\ todo[d] # <<>>
        /\ todo' = [todo EXCEPT ![d] = Tail(todo[d])]
        /\ \/ UNCHANGED <<effect, older>>
           \/ /\ Rejection(d, e) = "none"
              /\ effect' = [effect EXCEPT ![e] = Mutated(e, outcome)]
              /\ older' = {p \in older : p[1] # e /\ p[2] # e}
    BY DEF ReconcileClaim
  <1>2. e \in Effects
    BY <1>0, <1>1
  <1> HIDE DEF e
  <1>3. CASE UNCHANGED <<effect, older>>
    BY <1>0, <1>1, <1>2, <1>3 DEF e
  <1>4. CASE /\ Rejection(d, e) = "none"
             /\ effect' = [effect EXCEPT ![e] = Mutated(e, outcome)]
             /\ older' = {p \in older : p[1] # e /\ p[2] # e}
    <2>1. effect[e].holder = d /\ Unknown(e)
      BY <1>4 DEF Rejection
    <2>2. effect[e] \in RowType /\ effect[e].attempts < MaxAttempts
      BY <1>2, <2>1, Parts DEF ReconcileInv, AttemptsLeft
    <2>3. Mutated(e, outcome) \in RowType
      BY <1>2, <2>1, <2>2, MutatedRow
    <2>4. effect' \in [Effects -> RowType] /\ effect'[e] = Mutated(e, outcome) /\ OnlyRow(e)
      BY <1>0, <1>2, <1>4, <2>3 DEF OnlyRow
    <2> QED
      BY <1>1, <1>2, <1>4, <2>1, <2>4 DEF e
  <1> QED
    BY <1>1, <1>3, <1>4

\* A unit of time.
LEMMA TickRows ==
    ASSUME ReconcileInv, Tick
    PROVE  /\ effect' \in [Effects -> RowType]
           /\ \A x \in Effects :
                 /\ Kept(x) /\ effect'[x].holder = effect[x].holder
                 /\ effect[x].state = "ADMITTED" => effect'[x] = effect[x]
                 /\ effect[x].state # "ADMITTED" =>
                       /\ effect'[x].wait = Less(effect[x].wait)
                       /\ effect'[x].deadline = Less(effect[x].deadline)
  <1>0. effect' = [e \in Effects |->
                     IF effect[e].state # "ADMITTED"
                     THEN [effect[e] EXCEPT !.wait = Less(@), !.deadline = Less(@), !.left = Less(@)]
                     ELSE effect[e]]
    BY DEF Tick
  <1>1. ASSUME NEW x \in Effects
        PROVE  /\ effect'[x] \in RowType
               /\ Kept(x) /\ effect'[x].holder = effect[x].holder
               /\ effect[x].state = "ADMITTED" => effect'[x] = effect[x]
               /\ effect[x].state # "ADMITTED" =>
                     /\ effect'[x].wait = Less(effect[x].wait)
                     /\ effect'[x].deadline = Less(effect[x].deadline)
    <2> DEFINE r == effect[x]
               q1 == [r EXCEPT !.wait = Less(r.wait)]
               q2 == [q1 EXCEPT !.deadline = Less(r.deadline)]
               q3 == [q2 EXCEPT !.left = Less(r.left)]
    <2>0. /\ r \in RowType /\ Less(r.wait) \in Nat /\ Less(r.deadline) \in Nat
          /\ Less(r.left) \in 0 .. ClaimTTL
      BY Parts DEF Less
    <2>1. CASE r.state = "ADMITTED"
      BY <1>0, <2>0, <2>1 DEF Kept
    <2>2. CASE r.state # "ADMITTED"
      <3>1. effect'[x] = [r EXCEPT !.wait = Less(@), !.deadline = Less(@), !.left = Less(@)]
        BY <1>0, <2>2
      <3>2. effect'[x] = q3
        BY <2>0, <3>1 DEF RowType
      <3>3. /\ q1 \in RowType /\ q1.state = r.state /\ q1.attempts = r.attempts
            /\ q1.holder = r.holder /\ q1.wait = Less(r.wait)
        BY <2>0, RowField DEF RowType
      <3> HIDE DEF q1
      <3>4. /\ q2 \in RowType /\ q2.state = r.state /\ q2.attempts = r.attempts
            /\ q2.holder = r.holder /\ q2.wait = Less(r.wait) /\ q2.deadline = Less(r.deadline)
        BY <2>0, <3>3, RowField DEF RowType
      <3> HIDE DEF q2
      <3>5. /\ q3 \in RowType /\ q3.state = r.state /\ q3.attempts = r.attempts
            /\ q3.holder = r.holder /\ q3.wait = Less(r.wait) /\ q3.deadline = Less(r.deadline)
        BY <2>0, <3>4, RowField DEF RowType
      <3> HIDE DEF q3
      <3> QED
        BY <2>2, <3>2, <3>5 DEF Kept
    <2> QED
      BY <2>1, <2>2
  <1>2. effect' = [x \in Effects |-> effect'[x]]
    BY <1>0
  <1> QED
    BY <1>1, <1>2

-----------------------------------------------------------------------------
(* The invariant.                                                          *)

\* The rows an action leaves behind, judged one by one.
RowsOK ==
    /\ effect' \in [Effects -> RowType]
    /\ \A x \in Effects :
          /\ effect'[x].state = "ADMITTED" => effect'[x].wait = 0 /\ effect'[x].attempts = 0
          /\ effect'[x].state = "COMPLETION_UNKNOWN" =>
                /\ effect'[x].attempts < MaxAttempts
                /\ effect'[x].wait > 0 => effect'[x].wait < effect'[x].deadline
    /\ older' \subseteq Due' \X Due'

\* The other variables keep their types.
RestOK ==
    /\ ended' \subseteq Effects
    /\ todo' \in [Daemons -> Seq(Effects)]
    /\ budget' \in [Daemons -> 0 .. QueryBudget]
    /\ poll' \in [Daemons -> 0 .. PollInterval]
    /\ drained' \subseteq Daemons
    /\ crashes' \in 0 .. MaxCrashes

\* Judging the rows and the other variables is judging the invariant.
LEMMA Assemble ==
    ASSUME RowsOK, RestOK
    PROVE  ReconcileInv'
  <1>1. TypeOK'
    BY DEF RowsOK, RestOK, TypeOK, RowType
  <1>2. Fresh' /\ AttemptsLeft' /\ NextAttemptBeforeDeadline'
    BY DEF RowsOK, Fresh, AttemptsLeft, NextAttemptBeforeDeadline, Unknown
  <1> QED
    BY <1>1, <1>2 DEF ReconcileInv

\* What the invariant says of a row.
LEMMA RowFacts ==
    ASSUME ReconcileInv, NEW x \in Effects
    PROVE  /\ effect[x].state = "ADMITTED" => effect[x].wait = 0 /\ effect[x].attempts = 0
           /\ effect[x].state = "COMPLETION_UNKNOWN" =>
                 /\ effect[x].attempts < MaxAttempts
                 /\ effect[x].wait > 0 => effect[x].wait < effect[x].deadline
  BY DEF ReconcileInv, Fresh, AttemptsLeft, NextAttemptBeforeDeadline, Unknown

\* The order of due effects is about due effects.
LEMMA OlderGrows ==
    ASSUME ReconcileInv, NEW S \in SUBSET Effects, ComeDue(S),
           \A x \in Due \cup S : x \in Due'
    PROVE  older' \subseteq Due' \X Due'
  BY Parts DEF ComeDue

\* A parked effect has all its attempts left and is due.
LEMMA ParkInv ==
    ASSUME ReconcileInv, NEW e \in Effects, NEW n \in Deadlines, Park(e, n)
    PROVE  ReconcileInv'
  <1>1. RestOK
    BY DEF Park, daemonVars, ReconcileInv, TypeOK, RestOK
  <1>2. ASSUME NEW x \in Effects
        PROVE  /\ effect'[x].state = "ADMITTED" => effect'[x].wait = 0 /\ effect'[x].attempts = 0
               /\ effect'[x].state = "COMPLETION_UNKNOWN" =>
                     /\ effect'[x].attempts < MaxAttempts
                     /\ effect'[x].wait > 0 => effect'[x].wait < effect'[x].deadline
    BY ParkRows, RowFacts DEF OnlyRow
  <1>3. older' \subseteq Due' \X Due'
    <2>1. \A x \in Due \cup {e} : x \in Due'
      BY ParkRows, RowFacts DEF OnlyRow, Due, Unknown
    <2> QED
      BY <2>1, OlderGrows DEF Park
  <1>4. RowsOK
    BY <1>2, <1>3, ParkRows DEF RowsOK
  <1> QED
    BY <1>1, <1>4, Assemble

\* An effect made due waits for nothing.
LEMMA RequestInv ==
    ASSUME ReconcileInv, NEW e \in Effects, RequestReconcileEffect(e)
    PROVE  ReconcileInv'
  <1>1. RestOK
    BY DEF RequestReconcileEffect, daemonVars, ReconcileInv, TypeOK, RestOK
  <1>2. ASSUME NEW x \in Effects
        PROVE  /\ effect'[x].state = "ADMITTED" => effect'[x].wait = 0 /\ effect'[x].attempts = 0
               /\ effect'[x].state = "COMPLETION_UNKNOWN" =>
                     /\ effect'[x].attempts < MaxAttempts
                     /\ effect'[x].wait > 0 => effect'[x].wait < effect'[x].deadline
    BY RequestRows, RowFacts DEF OnlyRow, Kept
  <1>3. older' \subseteq Due' \X Due'
    <2>1. \A x \in Due \cup {e} : x \in Due'
      BY RequestRows DEF OnlyRow, Kept, Due, Unknown
    <2> QED
      BY <2>1, OlderGrows DEF RequestReconcileEffect
  <1>4. RowsOK
    BY <1>2, <1>3, RequestRows DEF RowsOK
  <1> QED
    BY <1>1, <1>4, Assemble

\* A claim touches neither clocks nor attempts.
LEMMA FireInv ==
    ASSUME ReconcileInv, NEW d \in Daemons, TimerFires(d)
    PROVE  ReconcileInv'
  <1>1. UNCHANGED <<ended, older, drained, crashes>> /\ poll' = [poll EXCEPT ![d] = PollInterval]
    BY DEF TimerFires
  <1>2. RestOK
    <2>1. poll' \in [Daemons -> 0 .. PollInterval]
      BY <1>1 DEF ReconcileInv, TypeOK
    <2>2. ended' \subseteq Effects /\ drained' \subseteq Daemons /\ crashes' \in 0 .. MaxCrashes
      BY <1>1 DEF ReconcileInv, TypeOK
    <2> QED
      BY <2>1, <2>2, FireRows DEF RestOK
  <1>3. ASSUME NEW x \in Effects
        PROVE  /\ effect'[x].state = "ADMITTED" => effect'[x].wait = 0 /\ effect'[x].attempts = 0
               /\ effect'[x].state = "COMPLETION_UNKNOWN" =>
                     /\ effect'[x].attempts < MaxAttempts
                     /\ effect'[x].wait > 0 => effect'[x].wait < effect'[x].deadline
    BY FireRows, RowFacts DEF Kept
  <1>4. older' \subseteq Due' \X Due'
    <2>1. Due' = Due
      BY FireRows DEF Kept, Due, Unknown
    <2> QED
      BY <1>1, <2>1, Parts
  <1>5. RowsOK
    BY <1>3, <1>4, FireRows DEF RowsOK
  <1> QED
    BY <1>2, <1>5, Assemble

\* A mutation decides or spends an attempt that was left.
LEMMA WorkInv ==
    ASSUME ReconcileInv, NEW d \in Daemons,
           NEW outcome \in {"APPLIED", "NOT_APPLIED", "UNKNOWN", "UNSUPPORTED"},
           ReconcileClaim(d, outcome)
    PROVE  ReconcileInv'
  <1> DEFINE e == Head(todo[d])
  <1>0. e \in Effects /\ todo[d] \in Seq(Effects) /\ todo[d] # <<>>
    BY WorkRows, Parts
  <1>1. UNCHANGED <<ended, poll, drained, crashes>> /\ todo' = [todo EXCEPT ![d] = Tail(todo[d])]
    BY WorkRows DEF ReconcileClaim
  <1>2. todo' \in [Daemons -> Seq(Effects)]
    <2>1. Tail(todo[d]) \in Seq(Effects)
      BY <1>0
    <2> QED
      BY <1>1, <2>1, Parts
  <1>3. budget' \in [Daemons -> 0 .. QueryBudget]
    <2>1. budget' = [budget EXCEPT ![d] = IF Tail(todo[d]) = <<>> THEN 0 ELSE QueryBudget]
      BY DEF ReconcileClaim
    <2>2. (IF Tail(todo[d]) = <<>> THEN 0 ELSE QueryBudget) \in 0 .. QueryBudget
      OBVIOUS
    <2>3. budget \in [Daemons -> 0 .. QueryBudget]
      BY DEF ReconcileInv, TypeOK
    <2> QED
      BY <2>1, <2>2, <2>3, Zenon
  <1>4. RestOK
    BY <1>1, <1>2, <1>3 DEF ReconcileInv, TypeOK, RestOK
  <1>5. CASE UNCHANGED <<effect, older>>
    <2>1. RowsOK
      BY <1>5, Parts, RowFacts DEF RowsOK, Due, Unknown
    <2> QED
      BY <1>4, <2>1, Assemble
  <1>6. CASE /\ effect[e].holder = d /\ Unknown(e)
             /\ effect'[e] = Mutated(e, outcome) /\ OnlyRow(e)
             /\ older' = {p \in older : p[1] # e /\ p[2] # e}
    <2>1. effect[e] \in RowType /\ effect[e].attempts < MaxAttempts
      BY <1>0, <1>6, Parts, RowFacts DEF Unknown
    <2>2. effect'[e].state # "ADMITTED"
      BY <1>0, <1>6, <2>1, MutatedRow
    <2>3. effect'[e].state = "COMPLETION_UNKNOWN" =>
             effect'[e].attempts < MaxAttempts /\ effect'[e].wait < effect'[e].deadline
      BY <1>0, <1>6, <2>1, MutatedRow
    <2> HIDE DEF e
    <2>4. ASSUME NEW x \in Effects
          PROVE  /\ effect'[x].state = "ADMITTED" => effect'[x].wait = 0 /\ effect'[x].attempts = 0
                 /\ effect'[x].state = "COMPLETION_UNKNOWN" =>
                       /\ effect'[x].attempts < MaxAttempts
                       /\ effect'[x].wait > 0 => effect'[x].wait < effect'[x].deadline
      BY <1>6, <2>2, <2>3, RowFacts DEF OnlyRow
    <2>5. older' \subseteq Due' \X Due'
      <3>1. \A x \in Due : x # e => x \in Due'
        BY <1>6 DEF OnlyRow, Due, Unknown
      <3>2. older \subseteq Due \X Due
        BY Parts
      <3> QED
        BY <1>6, <3>1, <3>2
    <2>6. RowsOK
      BY <2>4, <2>5, WorkRows DEF RowsOK
    <2> QED
      BY <1>4, <2>6, Assemble
  <1> QED
    BY <1>5, <1>6, WorkRows

\* Wait and deadline run down together.
LEMMA TickInv ==
    ASSUME ReconcileInv, Tick
    PROVE  ReconcileInv'
  <1> DEFINE ripe == {x \in Effects : Unknown(x) /\ effect[x].wait = 1}
  <1>1. /\ ComeDue(ripe) /\ UNCHANGED <<ended, todo, drained, crashes>>
        /\ poll' = [d \in Daemons |-> Less(poll[d])]
        /\ budget' = [d \in Daemons |-> Less(budget[d])]
    BY DEF Tick
  <1>2. RestOK
    <2>1. poll' \in [Daemons -> 0 .. PollInterval]
      BY <1>1 DEF ReconcileInv, TypeOK, Less
    <2>2. budget' \in [Daemons -> 0 .. QueryBudget]
      BY <1>1 DEF ReconcileInv, TypeOK, Less
    <2> QED
      BY <1>1, <2>1, <2>2 DEF ReconcileInv, TypeOK, RestOK
  <1>3. ASSUME NEW x \in Effects
        PROVE  /\ effect'[x].state = "ADMITTED" => effect'[x].wait = 0 /\ effect'[x].attempts = 0
               /\ effect'[x].state = "COMPLETION_UNKNOWN" =>
                     /\ effect'[x].attempts < MaxAttempts
                     /\ effect'[x].wait > 0 => effect'[x].wait < effect'[x].deadline
    <2>1. effect[x].wait \in Nat /\ effect[x].deadline \in Nat
      BY Parts
    <2> QED
      BY <2>1, TickRows, RowFacts DEF Kept, Less
  <1>4. older' \subseteq Due' \X Due'
    <2>1. \A x \in Due \cup ripe : x \in Due'
      BY TickRows DEF Kept, Due, Unknown, Less
    <2> QED
      BY <1>1, <2>1, OlderGrows
  <1>5. RowsOK
    BY <1>3, <1>4, TickRows DEF RowsOK
  <1> QED
    BY <1>2, <1>5, Assemble

\* What leaves rows and order alone.
LEMMA StillInv ==
    ASSUME ReconcileInv, RestOK, UNCHANGED <<effect, older>>
    PROVE  ReconcileInv'
  <1>1. RowsOK
    BY Parts, RowFacts DEF RowsOK, Due, Unknown
  <1> QED
    BY <1>1, Assemble

\* Before anything is parked the invariant holds.
LEMMA InitInv == Init => ReconcileInv
  <1> SUFFICES ASSUME Init PROVE ReconcileInv
    OBVIOUS
  <1>1. NewEffect \in RowType /\ NewEffect.state = "ADMITTED" /\ NewEffect.wait = 0 /\ NewEffect.attempts = 0
    BY DEF NewEffect, RowType, EffectStates
  <1>2. effect \in [Effects -> RowType] /\ \A e \in Effects : effect[e] = NewEffect
    BY <1>1 DEF Init
  <1>3. TypeOK
    BY <1>2 DEF Init, TypeOK, RowType
  <1>4. Fresh /\ AttemptsLeft /\ NextAttemptBeforeDeadline
    BY <1>1, <1>2 DEF Fresh, AttemptsLeft, NextAttemptBeforeDeadline, Unknown
  <1> QED
    BY <1>3, <1>4 DEF ReconcileInv

\* Every step keeps it.
LEMMA NextInv == ReconcileInv /\ [Next]_vars => ReconcileInv'
  <1> SUFFICES ASSUME ReconcileInv, [Next]_vars
               PROVE  ReconcileInv'
    OBVIOUS
  <1>1. ASSUME NEW e \in Effects, EndStep(e)
        PROVE  ReconcileInv'
    <2>1. RestOK
      BY <1>1 DEF EndStep, daemonVars, ReconcileInv, TypeOK, RestOK
    <2> QED
      BY <1>1, <2>1, StillInv DEF EndStep
  <1>2. ASSUME NEW d \in Daemons, DaemonCrash(d)
        PROVE  ReconcileInv'
    <2>1. RestOK
      BY <1>2 DEF DaemonCrash, ReconcileInv, TypeOK, RestOK
    <2> QED
      BY <1>2, <2>1, StillInv DEF DaemonCrash
  <1>3. CASE UNCHANGED vars
    <2>1. RestOK
      BY <1>3 DEF vars, ReconcileInv, TypeOK, RestOK
    <2> QED
      BY <1>3, <2>1, StillInv DEF vars
  <1>4. ASSUME NEW d \in Daemons, Work(d)
        PROVE  ReconcileInv'
    BY <1>4, WorkInv DEF Work
  <1>5. ASSUME NEW d \in Daemons, DrainAuthority(d)
        PROVE  ReconcileInv'
    <2>1. RestOK
      BY <1>5 DEF DrainAuthority, ReconcileInv, TypeOK, RestOK
    <2> QED
      BY <1>5, <2>1, StillInv DEF DrainAuthority
  <1> QED
    BY <1>1, <1>2, <1>3, <1>4, <1>5, ParkInv, RequestInv, FireInv, TickInv DEF Next

(* ReconcileInv is inductive: it holds in every reachable state of         *)
(* commander_effects and of the reconciliation daemons.                    *)
THEOREM ReconcileInvariant == Spec => []ReconcileInv
  BY InitInv, NextInv, PTL DEF Spec

(* The reconcile columns and the local variables of the daemons keep their *)
(* types; attempts never exceed reconcile_max_attempts.                    *)
THEOREM ReconcileTypeCorrect == Spec => []TypeOK
  <1>1. ReconcileInv => TypeOK
    BY DEF ReconcileInv
  <1> QED
    BY <1>1, ReconcileInvariant, PTL

(* For every policy of delays and every deadline, whatever is late: the    *)
(* reschedule never puts the next attempt at or after the deadline.        *)
THEOREM AttemptsLieBeforeDeadline == Spec => []NextAttemptBeforeDeadline
  <1>1. ReconcileInv => NextAttemptBeforeDeadline
    BY DEF ReconcileInv
  <1> QED
    BY <1>1, ReconcileInvariant, PTL

-----------------------------------------------------------------------------
(* Claims.                                                                 *)

\* A step takes a live claim from its holder only when the effect is overdue,
\* or the holder itself gives it up with its mutation.
LEMMA ClaimStep ==
    ASSUME ReconcileInv, [Next]_vars, NEW e \in Effects, NEW d \in Daemons,
           effect[e].holder = d, effect[e].left > 0, effect'[e].holder # d
    PROVE  \/ effect[e].deadline = 0
           \/ todo[d] # <<>> /\ Head(todo[d]) = e /\ todo'[d] = Tail(todo[d])
  <1>1. ASSUME NEW c \in Daemons, TimerFires(c)
        PROVE  effect[e].deadline = 0
    <2>1. Eligible(e)
      BY <1>1, FireRows
    <2>2. effect[e].attempts < MaxAttempts /\ effect[e].attempts \in Nat
      BY <2>1, Parts DEF Eligible, ReconcileInv, AttemptsLeft
    <2> QED
      BY <2>1, <2>2 DEF Eligible
  <1>2. ASSUME NEW c \in Daemons, Work(c)
        PROVE  todo[d] # <<>> /\ Head(todo[d]) = e /\ todo'[d] = Tail(todo[d])
    <2>1. PICK outcome \in {"APPLIED", "NOT_APPLIED", "UNKNOWN", "UNSUPPORTED"} : ReconcileClaim(c, outcome)
      BY <1>2 DEF Work
    <2> DEFINE x == Head(todo[c])
    <2>2. /\ todo[c] # <<>> /\ todo' = [todo EXCEPT ![c] = Tail(todo[c])]
          /\ \/ UNCHANGED effect
             \/ effect[x].holder = c /\ OnlyRow(x)
      BY <2>1, WorkRows
    <2>3. x = e /\ c = d
      BY <2>2 DEF OnlyRow
    <2>4. todo \in [Daemons -> Seq(Effects)]
      BY Parts
    <2> QED
      BY <2>2, <2>3, <2>4
  <1>3. ASSUME NEW x \in Effects, NEW n \in Deadlines, Park(x, n)
        PROVE  FALSE
    BY <1>3, ParkRows DEF OnlyRow
  <1>4. ASSUME NEW x \in Effects, RequestReconcileEffect(x)
        PROVE  FALSE
    BY <1>4, RequestRows DEF OnlyRow
  <1>5. ASSUME Tick
        PROVE  FALSE
    BY <1>5, TickRows
  <1>6. ASSUME effect' = effect
        PROVE  FALSE
    BY <1>6
  <1> QED
    BY <1>1, <1>2, <1>3, <1>4, <1>5, <1>6 DEF Next, EndStep, DrainAuthority, DaemonCrash, vars

(* The claim of claim_reconcile_effects fences for every number of daemons *)
(* and every timing: until it lapses or the effect is overdue, only its    *)
(* holder's own mutation takes it away.                                    *)
THEOREM LiveClaimsRespected == Spec => ClaimsAreRespected
  <1>1. ReconcileInv /\ [Next]_vars =>
           [\A e \in Effects : \A d \in Daemons :
               (effect[e].holder = d /\ effect[e].left > 0 /\ effect'[e].holder # d)
                  => \/ effect[e].deadline = 0
                     \/ todo[d] # <<>> /\ Head(todo[d]) = e /\ todo'[d] = Tail(todo[d])]_vars
    BY ClaimStep
  <1> QED
    BY <1>1, ReconcileInvariant, PTL DEF Spec, ClaimsAreRespected

-----------------------------------------------------------------------------
(* The bounded look-up.                                                    *)

\* The refinement mapping: the verdict and the look-ups an effect has left.
Verdict == [e \in Effects |-> effect[e].state]
LookUpsLeft == [e \in Effects |-> MaxAttempts - effect[e].attempts]

\* A step that keeps states and attempts is a stutter of the look-up.
LEMMA KeptStutters ==
    ASSUME \A x \in Effects : Kept(x)
    PROVE  Verdict' = Verdict /\ LookUpsLeft' = LookUpsLeft
  BY DEF Kept, Verdict, LookUpsLeft

\* A step on one row is a step on one entry of the mapped variables.
LEMMA OneEntry ==
    ASSUME NEW e \in Effects, OnlyRow(e)
    PROVE  /\ Verdict' = [Verdict EXCEPT ![e] = effect'[e].state]
           /\ LookUpsLeft' = [LookUpsLeft EXCEPT ![e] = MaxAttempts - effect'[e].attempts]
  BY DEF OnlyRow, Verdict, LookUpsLeft

\* An accepted mutation is a verdict, an escalation or a look-up spent.
LEMMA MutationResolves ==
    ASSUME ReconcileInv, NEW e \in Effects, Unknown(e), OnlyRow(e),
           NEW outcome \in {"APPLIED", "NOT_APPLIED", "UNKNOWN", "UNSUPPORTED"},
           effect'[e] = Mutated(e, outcome)
    PROVE  R!Next
  <1> DEFINE q == effect'[e]
             r == effect[e]
  <1>1. r \in RowType /\ r.attempts < MaxAttempts /\ r.attempts \in Nat /\ r.state = "COMPLETION_UNKNOWN"
    BY Parts, RowFacts DEF Unknown
  <1>2. /\ Verdict' = [Verdict EXCEPT ![e] = q.state] /\ Verdict[e] = "COMPLETION_UNKNOWN"
        /\ LookUpsLeft' = [LookUpsLeft EXCEPT ![e] = MaxAttempts - q.attempts]
        /\ LookUpsLeft[e] = MaxAttempts - r.attempts
        /\ DOMAIN LookUpsLeft = Effects /\ DOMAIN Verdict = Effects
        /\ LookUpsLeft = [x \in Effects |-> LookUpsLeft[x]] /\ Verdict = [x \in Effects |-> Verdict[x]]
    BY <1>1, OneEntry DEF Verdict, LookUpsLeft
  <1> USE DEF Verdict, LookUpsLeft
  <1>3. CASE q.state \in {"COMPLETED", "CONFIRMED_NOT_APPLIED"} /\ q.attempts = r.attempts
    <2>1. LookUpsLeft' = LookUpsLeft
      BY <1>2, <1>3
    <2>2. \A v \in R!Verdicts : q.state = v => R!Decide(e, v)
      BY <1>2, <2>1 DEF R!Decide
    <2>3. q.state \in R!Verdicts
      BY <1>3 DEF R!Verdicts
    <2>4. \E v \in R!Verdicts : R!Decide(e, v)
      BY <2>2, <2>3
    <2> QED
      BY <2>4, Zenon DEF R!Next
  <1>4. CASE q.state = "ESCALATED" /\ q.attempts = r.attempts
    <2>1. LookUpsLeft' = LookUpsLeft
      BY <1>2, <1>4
    <2>2. R!Escalate(e)
      BY <1>2, <1>4, <2>1 DEF R!Escalate
    <2> QED
      BY <2>2 DEF R!Next
  <1>5. CASE q.state = "ESCALATED" /\ q.attempts = r.attempts + 1
    <2>1. LookUpsLeft[e] > 0 /\ MaxAttempts - q.attempts = LookUpsLeft[e] - 1
      BY <1>1, <1>2, <1>5
    <2>2. LookUpsLeft' = [LookUpsLeft EXCEPT ![e] = @ - 1]
      BY <1>2, <2>1
    <2>3. R!Escalate(e)
      BY <1>2, <1>5, <2>1, <2>2 DEF R!Escalate
    <2> QED
      BY <2>3 DEF R!Next
  <1>6. CASE q.state = "COMPLETION_UNKNOWN" /\ q.attempts = r.attempts + 1 /\ q.attempts < MaxAttempts
    <2>1. LookUpsLeft[e] > 1 /\ MaxAttempts - q.attempts = LookUpsLeft[e] - 1
      BY <1>1, <1>2, <1>6
    <2>2. LookUpsLeft' = [LookUpsLeft EXCEPT ![e] = @ - 1]
      BY <1>2, <2>1
    <2>3. Verdict' = Verdict
      BY <1>1, <1>6 DEF OnlyRow
    <2>4. R!Spend(e)
      BY <1>2, <2>1, <2>2, <2>3 DEF R!Spend
    <2> QED
      BY <2>4 DEF R!Next
  <1> QED
    BY <1>1, <1>3, <1>4, <1>5, <1>6, MutatedRow

\* Every step of claims, clocks and daemons is a look-up or none.
LEMMA ResolutionStep ==
    ASSUME ReconcileInv, [Next]_vars
    PROVE  [R!Next]_(R!resolutionVars)
  <1>1. ASSUME \A x \in Effects : Kept(x)
        PROVE  UNCHANGED R!resolutionVars
    BY <1>1, KeptStutters DEF R!resolutionVars, Verdict, LookUpsLeft
  <1>2. ASSUME effect' = effect
        PROVE  UNCHANGED R!resolutionVars
    BY <1>1, <1>2 DEF Kept
  <1>3. ASSUME NEW e \in Effects, NEW n \in Deadlines, Park(e, n)
        PROVE  R!Next
    <2>1. /\ Verdict' = [Verdict EXCEPT ![e] = "COMPLETION_UNKNOWN"] /\ Verdict[e] = "ADMITTED"
          /\ LookUpsLeft' = LookUpsLeft
      <3>1. OnlyRow(e) /\ effect'[e].attempts = effect[e].attempts /\ effect[e].state = "ADMITTED"
            /\ effect'[e].state = "COMPLETION_UNKNOWN"
        BY <1>3, ParkRows
      <3>2. LookUpsLeft' = LookUpsLeft
        BY <3>1 DEF LookUpsLeft, OnlyRow
      <3> QED
        BY <3>1, <3>2, OneEntry DEF Verdict
    <2>2. R!Lose(e)
      BY <2>1 DEF R!Lose, Verdict, LookUpsLeft
    <2> QED
      BY <2>2 DEF R!Next
  <1>4. ASSUME NEW e \in Effects, RequestReconcileEffect(e)
        PROVE  UNCHANGED R!resolutionVars
    <2>1. \A x \in Effects : Kept(x)
      BY <1>4, RequestRows DEF OnlyRow, Kept
    <2> QED
      BY <1>1, <2>1
  <1>5. ASSUME NEW d \in Daemons, TimerFires(d)
        PROVE  UNCHANGED R!resolutionVars
    BY <1>1, <1>5, FireRows
  <1>6. ASSUME Tick
        PROVE  UNCHANGED R!resolutionVars
    BY <1>1, <1>6, TickRows
  <1>7. ASSUME NEW d \in Daemons, Work(d)
        PROVE  [R!Next]_(R!resolutionVars)
    <2>1. PICK outcome \in {"APPLIED", "NOT_APPLIED", "UNKNOWN", "UNSUPPORTED"} : ReconcileClaim(d, outcome)
      BY <1>7 DEF Work
    <2> DEFINE e == Head(todo[d])
    <2>2. e \in Effects
      BY <2>1, WorkRows
    <2>3. CASE effect' = effect
      BY <1>2, <2>3
    <2>4. CASE Unknown(e) /\ effect'[e] = Mutated(e, outcome) /\ OnlyRow(e)
      <3> HIDE DEF e
      <3> QED
        BY <2>2, <2>4, MutationResolves
    <2> QED
      BY <2>1, <2>3, <2>4, WorkRows
  <1> QED
    BY <1>2, <1>3, <1>4, <1>5, <1>6, <1>7 DEF Next, EndStep, DrainAuthority, DaemonCrash, vars

(* Claims, clocks, crashes and any number of daemons implement the bounded *)
(* look-up of Resolution: an effect is decided once, by at most            *)
(* reconcile_max_attempts look-ups, and the last fruitless one escalates.  *)
THEOREM ReconcileImplementsResolution == Spec => ImplementsResolution
  <1>1. Init => R!Init
    <2>1. NewEffect.state = "ADMITTED" /\ NewEffect.attempts = 0
      BY DEF NewEffect
    <2>2. MaxAttempts - 0 = MaxAttempts
      OBVIOUS
    <2> QED
      BY <2>1, <2>2 DEF Init, R!Init
  <1>2. ReconcileInv /\ [Next]_vars => [R!Next]_(R!resolutionVars)
    BY ResolutionStep
  <1> QED
    BY <1>1, <1>2, ReconcileInvariant, PTL DEF Spec, ImplementsResolution, R!Spec
=============================================================================
