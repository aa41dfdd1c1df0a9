---------------------------- MODULE OutboxProofs ----------------------------
(***************************************************************************)
(* Safety of Outbox for every set of messages, publishers and consumers    *)
(* and every setting of its limits: no event is lost between the tables,   *)
(* and the outbox implements the relay.                                    *)
(*                                                                         *)
(* The argument needs what publishers have in hand (InHand): a batch holds *)
(* only events that were written, and the message a publisher is about to  *)
(* mark is one it has delivered, which no crash and no other publisher     *)
(* takes back.  Claimed counts the attempt a claim costs, so that the      *)
(* backoff after it is defined.  EndedIsFree adds that nobody holds a      *)
(* delivery that has ended.                                                *)
(***************************************************************************)
EXTENDS Outbox, TLAPS

RowType ==
    [attempts : 0 .. MaxAttempts, wait : Nat, age : 0 .. AgeCap,
     token : Publishers \cup {None}, published : BOOLEAN, moved : BOOLEAN]

DeliveryType ==
    [attempts : 0 .. MaxDeliveries + 1, wait : Nat, age : 0 .. AgeCap,
     token : Consumers \cup {None}, inserted : BOOLEAN, acked : BOOLEAN, moved : BOOLEAN]

\* A claim has cost an attempt.
Claimed ==
    \A m \in Messages :
        /\ row[m].token # None => row[m].attempts >= 1
        /\ delivery[m].token # None => delivery[m].attempts >= 1

\* What publishers have in hand.
InHand ==
    \A p \in Publishers :
        /\ batch[p] \subseteq events
        /\ handed[p] # None => delivery[handed[p]].inserted

\* The tables agree.
TablesAgree ==
    /\ dlq \subseteq events
    /\ \A m \in Messages :
          /\ row[m].published => delivery[m].inserted
          /\ row[m].moved <=> m \in dlq

\* The inductive invariant.
OutboxInv == TypeOK /\ Claimed /\ InHand /\ TablesAgree

USE OutboxBoundAssumption
-----------------------------------------------------------------------------
\* Before anything is written the invariant holds.
LEMMA InitInv == Init => OutboxInv
  <1> SUFFICES ASSUME Init PROVE OutboxInv
    OBVIOUS
  <1> USE DEF Init
  <1>1. NewRow \in RowType /\ NewDelivery \in DeliveryType
    BY DEF NewRow, NewDelivery, RowType, DeliveryType
  <1>2. TypeOK
    <2> HIDE DEF NewRow, NewDelivery
    <2>1. row \in [Messages -> RowType] /\ delivery \in [Messages -> DeliveryType]
      BY <1>1
    <2> QED
      BY <2>1 DEF TypeOK, RowType, DeliveryType
  <1>3. Claimed /\ InHand /\ TablesAgree
    BY DEF Claimed, InHand, TablesAgree, NewRow, NewDelivery
  <1> QED
    BY <1>2, <1>3 DEF OutboxInv

\* One field of a row is overwritten.
LEMMA RowField ==
    ASSUME NEW r \in RowType
    PROVE  /\ \A x \in 0 .. MaxAttempts : [r EXCEPT !.attempts = x] \in RowType
           /\ \A x \in Nat : [r EXCEPT !.wait = x] \in RowType
           /\ \A x \in 0 .. AgeCap : [r EXCEPT !.age = x] \in RowType
           /\ \A x \in Publishers \cup {None} : [r EXCEPT !.token = x] \in RowType
           /\ [r EXCEPT !.published = TRUE] \in RowType
           /\ [r EXCEPT !.moved = TRUE] \in RowType
  <1> USE DEF RowType
  <1>1. \A x \in 0 .. MaxAttempts : [r EXCEPT !.attempts = x] \in RowType
    OBVIOUS
  <1>2. \A x \in Nat : [r EXCEPT !.wait = x] \in RowType
    OBVIOUS
  <1>3. \A x \in 0 .. AgeCap : [r EXCEPT !.age = x] \in RowType
    OBVIOUS
  <1>4. \A x \in Publishers \cup {None} : [r EXCEPT !.token = x] \in RowType
    OBVIOUS
  <1>5. [r EXCEPT !.published = TRUE] \in RowType
    OBVIOUS
  <1>6. [r EXCEPT !.moved = TRUE] \in RowType
    OBVIOUS
  <1> QED
    BY <1>1, <1>2, <1>3, <1>4, <1>5, <1>6, Zenon

\* One field of a delivery is overwritten.
LEMMA DeliveryField ==
    ASSUME NEW d \in DeliveryType
    PROVE  /\ \A x \in 0 .. MaxDeliveries + 1 : [d EXCEPT !.attempts = x] \in DeliveryType
           /\ \A x \in Nat : [d EXCEPT !.wait = x] \in DeliveryType
           /\ \A x \in 0 .. AgeCap : [d EXCEPT !.age = x] \in DeliveryType
           /\ \A x \in Consumers \cup {None} : [d EXCEPT !.token = x] \in DeliveryType
           /\ [d EXCEPT !.inserted = TRUE] \in DeliveryType
           /\ [d EXCEPT !.acked = TRUE] \in DeliveryType
           /\ [d EXCEPT !.moved = TRUE] \in DeliveryType
  <1> USE DEF DeliveryType
  <1>1. \A x \in 0 .. MaxDeliveries + 1 : [d EXCEPT !.attempts = x] \in DeliveryType
    OBVIOUS
  <1>2. \A x \in Nat : [d EXCEPT !.wait = x] \in DeliveryType
    OBVIOUS
  <1>3. \A x \in 0 .. AgeCap : [d EXCEPT !.age = x] \in DeliveryType
    OBVIOUS
  <1>4. \A x \in Consumers \cup {None} : [d EXCEPT !.token = x] \in DeliveryType
    OBVIOUS
  <1>5. [d EXCEPT !.inserted = TRUE] \in DeliveryType
    OBVIOUS
  <1>6. [d EXCEPT !.acked = TRUE] \in DeliveryType
    OBVIOUS
  <1>7. [d EXCEPT !.moved = TRUE] \in DeliveryType
    OBVIOUS
  <1> QED
    BY <1>1, <1>2, <1>3, <1>4, <1>5, <1>6, <1>7, Zenon

\* What the transactions and the clock make of a row.
LEMMA RowTyped ==
    ASSUME NEW r \in RowType
    PROVE  /\ r.attempts < MaxAttempts => \A p \in Publishers :
                [r EXCEPT !.attempts = @ + 1, !.age = 0, !.token = p] \in RowType
           /\ [r EXCEPT !.published = TRUE, !.token = None, !.age = 0] \in RowType
           /\ \A n \in Nat : [r EXCEPT !.wait = n, !.token = None, !.age = 0] \in RowType
           /\ [r EXCEPT !.moved = TRUE] \in RowType
           /\ Older(r) \in RowType
  <1>a. r.attempts \in 0 .. MaxAttempts /\ r.wait \in Nat /\ r.age \in 0 .. AgeCap
    BY DEF RowType
  <1>b. 0 \in 0 .. AgeCap
    OBVIOUS
  <1>1. ASSUME r.attempts < MaxAttempts, NEW p \in Publishers
        PROVE  [r EXCEPT !.attempts = @ + 1, !.age = 0, !.token = p] \in RowType
    <2> DEFINE n == r.attempts + 1
    <2>1. n \in 0 .. MaxAttempts
      BY <1>a, <1>1
    <2>2. [r EXCEPT !.attempts = @ + 1, !.age = 0, !.token = p]
             = [[[r EXCEPT !.attempts = n] EXCEPT !.age = 0] EXCEPT !.token = p]
      OBVIOUS
    <2> HIDE DEF n
    <2>3. [r EXCEPT !.attempts = n] \in RowType
      BY <2>1, RowField
    <2>4. [[r EXCEPT !.attempts = n] EXCEPT !.age = 0] \in RowType
      BY <2>3, <1>b, RowField, Zenon
    <2>5. [[[r EXCEPT !.attempts = n] EXCEPT !.age = 0] EXCEPT !.token = p] \in RowType
      BY <2>4, RowField
    <2> QED
      BY <2>2, <2>5
  <1>2. ASSUME NEW q \in RowType
        PROVE  [q EXCEPT !.token = None, !.age = 0] \in RowType
    <2>1. [q EXCEPT !.token = None] \in RowType
      BY RowField
    <2>2. [[q EXCEPT !.token = None] EXCEPT !.age = 0] \in RowType
      BY <2>1, <1>b, RowField, Zenon
    <2> QED
      BY <2>2
  <1>3. [r EXCEPT !.published = TRUE, !.token = None, !.age = 0] \in RowType
    <2>1. [[r EXCEPT !.published = TRUE] EXCEPT !.token = None, !.age = 0] \in RowType
      BY RowField, <1>2
    <2> QED
      BY <2>1
  <1>4. ASSUME NEW n \in Nat
        PROVE  [r EXCEPT !.wait = n, !.token = None, !.age = 0] \in RowType
    <2>1. [[r EXCEPT !.wait = n] EXCEPT !.token = None, !.age = 0] \in RowType
      BY RowField, <1>2
    <2> QED
      BY <2>1
  <1>5. Older(r) \in RowType
    <2> DEFINE w == Positive(r.wait - 1)
               a == IF r.token = None \/ r.age = AgeCap THEN r.age ELSE r.age + 1
    <2>1. w \in Nat /\ a \in 0 .. AgeCap
      BY <1>a DEF Positive
    <2>2. Older(r) = [[r EXCEPT !.wait = w] EXCEPT !.age = a]
      BY DEF Older
    <2> HIDE DEF w, a
    <2>3. [r EXCEPT !.wait = w] \in RowType
      BY <2>1, RowField
    <2> QED
      BY <2>1, <2>2, <2>3, RowField
  <1> QED
    BY <1>1, <1>3, <1>4, <1>5, RowField, Zenon

\* What the transactions and the clock make of a delivery.
LEMMA DeliveryTyped ==
    ASSUME NEW d \in DeliveryType
    PROVE  /\ \A c \in Consumers :
                [d EXCEPT !.attempts = IF @ > MaxDeliveries THEN @ ELSE @ + 1,
                          !.age = 0, !.token = c] \in DeliveryType
           /\ [d EXCEPT !.inserted = TRUE] \in DeliveryType
           /\ [d EXCEPT !.acked = TRUE, !.token = None, !.age = 0] \in DeliveryType
           /\ [d EXCEPT !.moved = TRUE, !.token = None, !.age = 0] \in DeliveryType
           /\ \A n \in Nat : [d EXCEPT !.wait = n, !.token = None, !.age = 0] \in DeliveryType
           /\ Older(d) \in DeliveryType
  <1>a. d.attempts \in 0 .. MaxDeliveries + 1 /\ d.wait \in Nat /\ d.age \in 0 .. AgeCap
    BY DEF DeliveryType
  <1>b. 0 \in 0 .. AgeCap
    OBVIOUS
  <1>1. ASSUME NEW c \in Consumers
        PROVE  [d EXCEPT !.attempts = IF @ > MaxDeliveries THEN @ ELSE @ + 1,
                         !.age = 0, !.token = c] \in DeliveryType
    <2> DEFINE n == IF d.attempts > MaxDeliveries THEN d.attempts ELSE d.attempts + 1
    <2>1. n \in 0 .. MaxDeliveries + 1
      BY <1>a
    <2>2. [d EXCEPT !.attempts = IF @ > MaxDeliveries THEN @ ELSE @ + 1, !.age = 0, !.token = c]
             = [[[d EXCEPT !.attempts = n] EXCEPT !.age = 0] EXCEPT !.token = c]
      OBVIOUS
    <2> HIDE DEF n
    <2>3. [d EXCEPT !.attempts = n] \in DeliveryType
      BY <2>1, DeliveryField
    <2>4. [[d EXCEPT !.attempts = n] EXCEPT !.age = 0] \in DeliveryType
      BY <2>3, <1>b, DeliveryField, Zenon
    <2>5. [[[d EXCEPT !.attempts = n] EXCEPT !.age = 0] EXCEPT !.token = c] \in DeliveryType
      BY <2>4, DeliveryField
    <2> QED
      BY <2>2, <2>5
  <1>2. ASSUME NEW q \in DeliveryType
        PROVE  [q EXCEPT !.token = None, !.age = 0] \in DeliveryType
    <2>1. [q EXCEPT !.token = None] \in DeliveryType
      BY DeliveryField
    <2>2. [[q EXCEPT !.token = None] EXCEPT !.age = 0] \in DeliveryType
      BY <2>1, <1>b, DeliveryField, Zenon
    <2> QED
      BY <2>2
  <1>3. [d EXCEPT !.acked = TRUE, !.token = None, !.age = 0] \in DeliveryType
    <2>1. [[d EXCEPT !.acked = TRUE] EXCEPT !.token = None, !.age = 0] \in DeliveryType
      BY DeliveryField, <1>2
    <2> QED
      BY <2>1
  <1>4. [d EXCEPT !.moved = TRUE, !.token = None, !.age = 0] \in DeliveryType
    <2>1. [[d EXCEPT !.moved = TRUE] EXCEPT !.token = None, !.age = 0] \in DeliveryType
      BY DeliveryField, <1>2
    <2> QED
      BY <2>1
  <1>5. ASSUME NEW n \in Nat
        PROVE  [d EXCEPT !.wait = n, !.token = None, !.age = 0] \in DeliveryType
    <2>1. [[d EXCEPT !.wait = n] EXCEPT !.token = None, !.age = 0] \in DeliveryType
      BY DeliveryField, <1>2
    <2> QED
      BY <2>1
  <1>6. Older(d) \in DeliveryType
    <2> DEFINE w == Positive(d.wait - 1)
               a == IF d.token = None \/ d.age = AgeCap THEN d.age ELSE d.age + 1
    <2>1. w \in Nat /\ a \in 0 .. AgeCap
      BY <1>a DEF Positive
    <2>2. Older(d) = [[d EXCEPT !.wait = w] EXCEPT !.age = a]
      BY DEF Older
    <2> HIDE DEF w, a
    <2>3. [d EXCEPT !.wait = w] \in DeliveryType
      BY <2>1, DeliveryField
    <2> QED
      BY <2>1, <2>2, <2>3, DeliveryField
  <1> QED
    BY <1>1, <1>3, <1>4, <1>5, <1>6, DeliveryField, Zenon

\* The rows and deliveries, one by one.
LEMMA Entries ==
    ASSUME TypeOK
    PROVE  /\ row \in [Messages -> RowType] /\ delivery \in [Messages -> DeliveryType]
           /\ \A m \in Messages : row[m] \in RowType /\ delivery[m] \in DeliveryType
  BY DEF TypeOK, RowType, DeliveryType

\* The fields that a change of a row leaves alone.
LEMMA RowKeeps ==
    ASSUME NEW r \in RowType
    PROVE  /\ \A p \in Publishers :
                LET q == [r EXCEPT !.attempts = @ + 1, !.age = 0, !.token = p]
                IN  q.published = r.published /\ q.moved = r.moved /\ q.attempts = r.attempts + 1
           /\ LET q == [r EXCEPT !.published = TRUE, !.token = None, !.age = 0]
              IN  q.published /\ q.moved = r.moved /\ q.token = None
           /\ \A n \in Nat :
                LET q == [r EXCEPT !.wait = n, !.token = None, !.age = 0]
                IN  q.published = r.published /\ q.moved = r.moved /\ q.token = None
           /\ LET q == [r EXCEPT !.moved = TRUE]
              IN  q.published = r.published /\ q.moved /\ q.token = r.token /\ q.attempts = r.attempts
           /\ LET q == Older(r)
              IN  /\ q.published = r.published /\ q.moved = r.moved
                  /\ q.token = r.token /\ q.attempts = r.attempts
  <1> USE DEF RowType
  <1>1. ASSUME NEW p \in Publishers
        PROVE  LET q == [r EXCEPT !.attempts = @ + 1, !.age = 0, !.token = p]
               IN  q.published = r.published /\ q.moved = r.moved /\ q.attempts = r.attempts + 1
    OBVIOUS
  <1>2. LET q == [r EXCEPT !.published = TRUE, !.token = None, !.age = 0]
        IN  q.published /\ q.moved = r.moved /\ q.token = None
    OBVIOUS
  <1>3. ASSUME NEW n \in Nat
        PROVE  LET q == [r EXCEPT !.wait = n, !.token = None, !.age = 0]
               IN  q.published = r.published /\ q.moved = r.moved /\ q.token = None
    OBVIOUS
  <1>4. LET q == [r EXCEPT !.moved = TRUE]
        IN  q.published = r.published /\ q.moved /\ q.token = r.token /\ q.attempts = r.attempts
    OBVIOUS
  <1>5. LET q == Older(r)
        IN  /\ q.published = r.published /\ q.moved = r.moved
            /\ q.token = r.token /\ q.attempts = r.attempts
    BY DEF Older
  <1> QED
    BY <1>1, <1>2, <1>3, <1>4, <1>5, Zenon

\* The fields that a change of a delivery leaves alone.
LEMMA DeliveryKeeps ==
    ASSUME NEW d \in DeliveryType
    PROVE  /\ \A c \in Consumers :
                LET q == [d EXCEPT !.attempts = IF @ > MaxDeliveries THEN @ ELSE @ + 1,
                                   !.age = 0, !.token = c]
                IN  q.inserted = d.inserted /\ q.attempts >= 1
           /\ LET q == [d EXCEPT !.inserted = TRUE]
              IN  q.inserted /\ q.token = d.token /\ q.attempts = d.attempts
           /\ LET q == [d EXCEPT !.acked = TRUE, !.token = None, !.age = 0]
              IN  q.inserted = d.inserted /\ q.token = None
           /\ LET q == [d EXCEPT !.moved = TRUE, !.token = None, !.age = 0]
              IN  q.inserted = d.inserted /\ q.token = None
           /\ \A n \in Nat :
                LET q == [d EXCEPT !.wait = n, !.token = None, !.age = 0]
                IN  q.inserted = d.inserted /\ q.token = None
           /\ LET q == Older(d)
              IN  q.inserted = d.inserted /\ q.token = d.token /\ q.attempts = d.attempts
  <1> USE DEF DeliveryType
  <1>1. ASSUME NEW c \in Consumers
        PROVE  LET q == [d EXCEPT !.attempts = IF @ > MaxDeliveries THEN @ ELSE @ + 1,
                                  !.age = 0, !.token = c]
               IN  q.inserted = d.inserted /\ q.attempts >= 1
    OBVIOUS
  <1>2. LET q == [d EXCEPT !.inserted = TRUE]
        IN  q.inserted /\ q.token = d.token /\ q.attempts = d.attempts
    OBVIOUS
  <1>3. LET q == [d EXCEPT !.acked = TRUE, !.token = None, !.age = 0]
        IN  q.inserted = d.inserted /\ q.token = None
    OBVIOUS
  <1>4. LET q == [d EXCEPT !.moved = TRUE, !.token = None, !.age = 0]
        IN  q.inserted = d.inserted /\ q.token = None
    OBVIOUS
  <1>5. ASSUME NEW n \in Nat
        PROVE  LET q == [d EXCEPT !.wait = n, !.token = None, !.age = 0]
               IN  q.inserted = d.inserted /\ q.token = None
    OBVIOUS
  <1>6. LET q == Older(d)
        IN  q.inserted = d.inserted /\ q.token = d.token /\ q.attempts = d.attempts
    BY DEF Older
  <1> QED
    BY <1>1, <1>2, <1>3, <1>4, <1>5, <1>6, Zenon

-----------------------------------------------------------------------------
(* A quiet step: claims, retries, acknowledgements, crashes and the clock  *)
(* move waits, ages, tokens and attempts, and leave what was written,      *)
(* delivered, published or buried as it is.                                *)
RowsStay ==
    /\ row' \in [Messages -> RowType]
    /\ \A m \in Messages :
          /\ row'[m].published = row[m].published
          /\ row'[m].moved = row[m].moved
          /\ row'[m].token # None => row'[m].attempts >= 1

DeliveriesStay ==
    /\ delivery' \in [Messages -> DeliveryType]
    /\ \A m \in Messages :
          /\ delivery'[m].inserted = delivery[m].inserted
          /\ delivery'[m].token # None => delivery'[m].attempts >= 1

HandsStay ==
    /\ batch' \in [Publishers -> SUBSET Messages]
    /\ \A p \in Publishers : batch'[p] \subseteq events
    /\ handed' \in [Publishers -> Messages \cup {None}]
    /\ \A p \in Publishers : handed'[p] \in {None, handed[p]}

Quiet ==
    /\ events' = events /\ dlq' = dlq
    /\ RowsStay /\ DeliveriesStay /\ HandsStay
    /\ held' \in [Consumers -> SUBSET Messages]

\* A quiet step preserves the invariant.
LEMMA QuietInv ==
    ASSUME OutboxInv, Quiet
    PROVE  OutboxInv'
  <1> USE DEF OutboxInv, Quiet
  <1>1. TypeOK'
    BY DEF TypeOK, RowsStay, DeliveriesStay, HandsStay, RowType, DeliveryType
  <1>2. Claimed'
    BY DEF Claimed, RowsStay, DeliveriesStay
  <1>3. InHand'
    BY DEF InHand, HandsStay, DeliveriesStay, TypeOK
  <1>4. TablesAgree'
    BY DEF TablesAgree, RowsStay, DeliveriesStay
  <1> QED
    BY <1>1, <1>2, <1>3, <1>4

\* What does not touch the tables or the hands of publishers leaves them as they were.
LEMMA Untouched ==
    ASSUME OutboxInv
    PROVE  /\ row' = row => RowsStay
           /\ delivery' = delivery => DeliveriesStay
           /\ batch' = batch /\ handed' = handed => HandsStay
  <1>1. row' = row => RowsStay
    BY Entries DEF OutboxInv, Claimed, RowsStay
  <1>2. delivery' = delivery => DeliveriesStay
    BY Entries DEF OutboxInv, Claimed, DeliveriesStay
  <1>3. batch' = batch /\ handed' = handed => HandsStay
    BY DEF OutboxInv, TypeOK, InHand, HandsStay
  <1> QED
    BY <1>1, <1>2, <1>3

\* The publishers' quiet steps.
LEMMA PublisherQuiet ==
    ASSUME OutboxInv, NEW p \in Publishers,
           \/ \E B \in SUBSET Messages : ClaimOutbox(p, B)
           \/ \E m \in Messages : RetryOutbox(p, m)
           \/ PublisherCrash(p)
    PROVE  Quiet
  <1>0. TypeOK
    BY DEF OutboxInv
  <1>1. ASSUME NEW B \in SUBSET Messages, ClaimOutbox(p, B)
        PROVE  Quiet
    <2>a. \A m \in B : row[m].attempts < MaxAttempts /\ m \in events
      BY <1>1 DEF ClaimOutbox, Claimable
    <2>b. UNCHANGED <<events, dlq, delivery, handed, held>> /\ batch' = [batch EXCEPT ![p] = B]
      BY <1>1 DEF ClaimOutbox
    <2> DEFINE new(m) == IF m \in B
                         THEN [row[m] EXCEPT !.attempts = @ + 1, !.age = 0, !.token = p]
                         ELSE row[m]
    <2>1. ASSUME NEW m \in Messages
          PROVE  /\ new(m) \in RowType /\ new(m).published = row[m].published
                 /\ new(m).moved = row[m].moved
                 /\ new(m).token # None => new(m).attempts >= 1
      <3>1. row[m] \in RowType
        BY <1>0, Entries
      <3>2. CASE m \notin B
        BY <3>1, <3>2 DEF OutboxInv, Claimed
      <3>3. CASE m \in B
        <4>1. row[m].attempts \in Nat /\ row[m].attempts < MaxAttempts
          BY <2>a, <3>1, <3>3 DEF RowType
        <4>2. new(m) = [row[m] EXCEPT !.attempts = @ + 1, !.age = 0, !.token = p]
          BY <3>3
        <4>3. new(m) \in RowType
          BY <3>1, <4>1, <4>2, RowTyped, Zenon
        <4>4. /\ new(m).published = row[m].published /\ new(m).moved = row[m].moved
              /\ new(m).attempts = row[m].attempts + 1
          <5> DEFINE q == [row[m] EXCEPT !.attempts = @ + 1, !.age = 0, !.token = p]
          <5>1. /\ q.published = row[m].published /\ q.moved = row[m].moved
                /\ q.attempts = row[m].attempts + 1
            BY <3>1, RowKeeps
          <5> QED
            BY <4>2, <5>1, Zenon
        <4> HIDE DEF new
        <4> QED
          BY <4>1, <4>3, <4>4
      <3> QED
        BY <3>2, <3>3
    <2>2. RowsStay
      <3>1. row' = [m \in Messages |-> new(m)]
        BY <1>1 DEF ClaimOutbox
      <3> HIDE DEF new
      <3> QED
        BY <2>1, <3>1, Zenon DEF RowsStay
    <2>3. HandsStay
      BY <1>0, <2>a, <2>b DEF OutboxInv, TypeOK, InHand, HandsStay
    <2> QED
      BY <1>0, <2>b, <2>2, <2>3, Untouched DEF Quiet, TypeOK
  <1>2. ASSUME NEW m \in Messages, RetryOutbox(p, m)
        PROVE  Quiet
    <2>a. /\ UNCHANGED <<events, dlq, delivery, held>>
          /\ batch' = [batch EXCEPT ![p] = @ \ {m}]
          /\ handed' = [handed EXCEPT ![p] = None]
      BY <1>2 DEF RetryOutbox
    <2>1. RowsStay
      <3>1. CASE ~HoldsRow(p, m)
        BY <1>2, <3>1, Untouched DEF RetryOutbox
      <3>2. CASE HoldsRow(p, m)
        <4> DEFINE n == Positive(Backoff(row[m].attempts - 1) - row[m].age)
                   q == [row[m] EXCEPT !.wait = n, !.token = None, !.age = 0]
        <4>1. row[m] \in RowType
          BY <1>0, Entries
        <4>a. row[m].token # None
          BY <3>2, NoneAssumption DEF HoldsRow
        <4>b. row[m].attempts \in 0 .. MaxAttempts /\ row[m].age \in Nat
          BY <4>1 DEF RowType
        <4>2. row[m].attempts \in 1 .. MaxAttempts /\ row[m].age \in Nat
          BY <4>a, <4>b DEF OutboxInv, Claimed
        <4>3. Backoff(row[m].attempts - 1) \in Nat
          <5>1. row[m].attempts - 1 \in 0 .. MaxAttempts + MaxDeliveries
            BY <4>2
          <5> QED
            BY <5>1, BackoffAssumption, Zenon
        <4>4. n \in Nat
          BY <4>2, <4>3 DEF Positive
        <4>5. row' = [row EXCEPT ![m] = q]
          BY <1>2, <3>2 DEF RetryOutbox
        <4> HIDE DEF n
        <4>6. /\ q \in RowType /\ q.published = row[m].published
              /\ q.moved = row[m].moved /\ q.token = None
          BY <4>1, <4>4, RowTyped, RowKeeps
        <4>7. row \in [Messages -> RowType]
          BY <1>0, Entries
        <4> HIDE DEF q
        <4> QED
          BY <4>5, <4>6, <4>7 DEF RowsStay, OutboxInv, Claimed
      <3> QED
        BY <3>1, <3>2
    <2>2. HandsStay
      BY <1>0, <2>a DEF OutboxInv, TypeOK, InHand, HandsStay
    <2> QED
      BY <1>0, <2>a, <2>1, <2>2, Untouched DEF Quiet, TypeOK
  <1>3. CASE PublisherCrash(p)
    <2> USE <1>3 DEF PublisherCrash
    <2>1. HandsStay
      BY <1>0 DEF OutboxInv, TypeOK, InHand, HandsStay
    <2> QED
      BY <1>0, <2>1, Untouched DEF Quiet, TypeOK
  <1> QED
    BY <1>1, <1>2, <1>3

\* The consumers' steps are quiet: none of them touches the outbox.
LEMMA ConsumerQuiet ==
    ASSUME OutboxInv, NEW c \in Consumers,
           \/ \E B \in SUBSET Messages : ClaimDeliveries(c, B)
           \/ ConsumerStep(c)
           \/ ConsumerCrash(c)
    PROVE  Quiet
  <1>0. TypeOK /\ delivery \in [Messages -> DeliveryType]
    BY Entries DEF OutboxInv
  <1>1. ASSUME NEW B \in SUBSET Messages, ClaimDeliveries(c, B)
        PROVE  Quiet
    <2>a. UNCHANGED <<events, row, dlq, batch, handed>> /\ held' = [held EXCEPT ![c] = B]
      BY <1>1 DEF ClaimDeliveries
    <2> DEFINE new(m) == IF m \in B
                         THEN [delivery[m] EXCEPT
                                 !.attempts = IF @ > MaxDeliveries THEN @ ELSE @ + 1,
                                 !.age = 0, !.token = c]
                         ELSE delivery[m]
    <2>1. ASSUME NEW m \in Messages
          PROVE  /\ new(m) \in DeliveryType /\ new(m).inserted = delivery[m].inserted
                 /\ new(m).token # None => new(m).attempts >= 1
      <3>1. delivery[m] \in DeliveryType
        BY <1>0
      <3>2. CASE m \notin B
        BY <3>1, <3>2 DEF OutboxInv, Claimed
      <3>3. CASE m \in B
        <4>1. new(m) = [delivery[m] EXCEPT
                          !.attempts = IF @ > MaxDeliveries THEN @ ELSE @ + 1,
                          !.age = 0, !.token = c]
          BY <3>3
        <4>2. new(m) \in DeliveryType
          BY <3>1, <4>1, DeliveryTyped, Zenon
        <4>3. new(m).inserted = delivery[m].inserted /\ new(m).attempts >= 1
          BY <3>1, <4>1, DeliveryKeeps, Zenon
        <4> QED
          BY <4>2, <4>3, Zenon
      <3> QED
        BY <3>2, <3>3
    <2>2. DeliveriesStay
      <3>1. delivery' = [m \in Messages |-> new(m)]
        BY <1>1 DEF ClaimDeliveries
      <3> HIDE DEF new
      <3> QED
        BY <2>1, <3>1, Zenon DEF DeliveriesStay
    <2> QED
      BY <1>0, <2>a, <2>2, Untouched DEF Quiet, TypeOK
  <1>2. ASSUME NEW m \in Messages, AcknowledgeDelivery(c, m) \/ RetryDelivery(c, m)
        PROVE  Quiet
    <2>1. \/ delivery' = delivery
          \/ \E q \in DeliveryType : /\ delivery' = [delivery EXCEPT ![m] = q]
                                     /\ q.inserted = delivery[m].inserted /\ q.token = None
      <3>0. delivery[m] \in DeliveryType
        BY <1>0
      <3>1. CASE AcknowledgeDelivery(c, m)
        <4> DEFINE q == [delivery[m] EXCEPT !.acked = TRUE, !.token = None, !.age = 0]
        <4>1. delivery' = delivery \/ delivery' = [delivery EXCEPT ![m] = q]
          BY <3>1 DEF AcknowledgeDelivery
        <4>2. q \in DeliveryType /\ q.inserted = delivery[m].inserted /\ q.token = None
          BY <3>0, DeliveryTyped, DeliveryKeeps
        <4> HIDE DEF q
        <4> QED
          BY <4>1, <4>2
      <3>2. CASE RetryDelivery(c, m)
        <4> DEFINE n == Backoff(delivery[m].attempts - 1)
                   q1 == [delivery[m] EXCEPT !.moved = TRUE, !.token = None, !.age = 0]
                   q2 == [delivery[m] EXCEPT !.wait = n, !.token = None, !.age = 0]
        <4>1. CASE ~HoldsDelivery(c, m)
          BY <3>2, <4>1 DEF RetryDelivery
        <4>2. CASE HoldsDelivery(c, m) /\ delivery[m].attempts >= MaxDeliveries
          <5>1. delivery' = [delivery EXCEPT ![m] = q1]
            BY <3>2, <4>2 DEF RetryDelivery
          <5>2. q1 \in DeliveryType /\ q1.inserted = delivery[m].inserted /\ q1.token = None
            BY <3>0, DeliveryTyped, DeliveryKeeps
          <5> HIDE DEF q1
          <5> QED
            BY <5>1, <5>2
        <4>3. CASE HoldsDelivery(c, m) /\ ~(delivery[m].attempts >= MaxDeliveries)
          <5>1. delivery' = [delivery EXCEPT ![m] = q2]
            BY <3>2, <4>3 DEF RetryDelivery
          <5>2. delivery[m].attempts \in 1 .. MaxDeliveries
            BY <3>0, <4>3, NoneAssumption DEF OutboxInv, Claimed, HoldsDelivery, DeliveryType
          <5>3. n \in Nat
            BY <5>2, BackoffAssumption
          <5> HIDE DEF n
          <5>4. q2 \in DeliveryType /\ q2.inserted = delivery[m].inserted /\ q2.token = None
            BY <3>0, <5>3, DeliveryTyped, DeliveryKeeps
          <5> HIDE DEF q2
          <5> QED
            BY <5>1, <5>4
        <4> QED
          BY <4>1, <4>2, <4>3
      <3> QED
        BY <1>2, <3>1, <3>2
    <2>2. DeliveriesStay
      <3>1. CASE delivery' = delivery
        BY <3>1, Untouched
      <3>2. ASSUME NEW q \in DeliveryType, delivery' = [delivery EXCEPT ![m] = q],
                   q.inserted = delivery[m].inserted, q.token = None
            PROVE  DeliveriesStay
        BY <1>0, <3>2 DEF DeliveriesStay, OutboxInv, Claimed
      <3> QED
        BY <2>1, <3>1, <3>2
    <2>3. /\ UNCHANGED <<events, row, dlq, batch, handed>>
          /\ held' = [held EXCEPT ![c] = @ \ {m}]
      BY <1>2 DEF AcknowledgeDelivery, RetryDelivery
    <2> QED
      BY <1>0, <2>2, <2>3, Untouched DEF Quiet, TypeOK
  <1>3. CASE ConsumerCrash(c)
    BY <1>0, <1>3, Untouched DEF Quiet, TypeOK, ConsumerCrash
  <1> QED
    BY <1>1, <1>2, <1>3 DEF ConsumerStep

\* The clock is quiet, and so is a replay, which the UNIQUE event_id undoes.
LEMMA ClockQuiet ==
    ASSUME OutboxInv, Tick \/ \E m \in Messages : ReplayDlqEntry(m)
    PROVE  Quiet
  <1>0. TypeOK /\ \A m \in Messages : row[m] \in RowType /\ delivery[m] \in DeliveryType
    BY Entries DEF OutboxInv
  <1>1. CASE Tick
    <2>a. /\ row' = [m \in Messages |-> Older(row[m])]
          /\ delivery' = [m \in Messages |-> Older(delivery[m])]
          /\ UNCHANGED <<events, dlq, batch, handed, held>>
      BY <1>1 DEF Tick
    <2>1. ASSUME NEW m \in Messages
          PROVE  /\ Older(row[m]) \in RowType
                 /\ Older(row[m]).published = row[m].published
                 /\ Older(row[m]).moved = row[m].moved
                 /\ Older(row[m]).token = row[m].token
                 /\ Older(row[m]).attempts = row[m].attempts
      BY <1>0, RowTyped, RowKeeps
    <2>2. ASSUME NEW m \in Messages
          PROVE  /\ Older(delivery[m]) \in DeliveryType
                 /\ Older(delivery[m]).inserted = delivery[m].inserted
                 /\ Older(delivery[m]).token = delivery[m].token
                 /\ Older(delivery[m]).attempts = delivery[m].attempts
      BY <1>0, DeliveryTyped, DeliveryKeeps
    <2>3. RowsStay
      BY <2>a, <2>1 DEF RowsStay, OutboxInv, Claimed
    <2>4. DeliveriesStay
      BY <2>a, <2>2 DEF DeliveriesStay, OutboxInv, Claimed
    <2> QED
      BY <1>0, <2>a, <2>3, <2>4, Untouched DEF Quiet, TypeOK
  <1>2. ASSUME NEW m \in Messages, ReplayDlqEntry(m)
        PROVE  Quiet
    <2>1. UNCHANGED vars
      BY <1>2 DEF ReplayDlqEntry, OutboxInv, TablesAgree, vars
    <2> QED
      BY <1>0, <2>1, Untouched DEF Quiet, TypeOK, vars
  <1> QED
    BY <1>1, <1>2

-----------------------------------------------------------------------------
(* The four steps that are not quiet, and what they are for the relay.     *)

\* An event is written.
LEMMA WriteStep ==
    ASSUME OutboxInv, NEW m \in Messages, WriteEvent(m)
    PROVE  OutboxInv' /\ R!Send(m)
  <1> USE DEF WriteEvent, OutboxInv
  <1>1. TypeOK'
    BY DEF TypeOK
  <1>2. Claimed' /\ InHand' /\ TablesAgree'
    BY DEF Claimed, InHand, TablesAgree
  <1>3. R!Send(m)
    BY DEF R!Send
  <1> QED
    BY <1>1, <1>2, <1>3

\* A publisher hands a message over; the ON CONFLICT makes a second time harmless.
LEMMA DeliverStep ==
    ASSUME OutboxInv, NEW p \in Publishers, NEW m \in Messages, PublishDelivery(p, m)
    PROVE  OutboxInv' /\ R!Deliver(m)
  <1> DEFINE q == [delivery[m] EXCEPT !.inserted = TRUE]
  <1>0. /\ TypeOK /\ delivery[m] \in DeliveryType /\ delivery \in [Messages -> DeliveryType]
    BY Entries DEF OutboxInv
  <1>1. /\ delivery' = [delivery EXCEPT ![m] = q]
        /\ handed' = [handed EXCEPT ![p] = m]
        /\ UNCHANGED <<events, row, dlq, batch, held>>
        /\ m \in batch[p]
    BY DEF PublishDelivery
  <1>2. q \in DeliveryType /\ q.inserted /\ q.token = delivery[m].token /\ q.attempts = delivery[m].attempts
    BY <1>0, DeliveryTyped, DeliveryKeeps
  <1> HIDE DEF q
  <1>3. delivery' \in [Messages -> DeliveryType]
    BY <1>0, <1>1, <1>2
  <1>4. \A n \in Messages : /\ delivery'[n].inserted <=> (delivery[n].inserted \/ n = m)
                            /\ delivery'[n].token = delivery[n].token
                            /\ delivery'[n].attempts = delivery[n].attempts
    BY <1>0, <1>1, <1>2
  <1>5. TypeOK'
    BY <1>0, <1>1, <1>3 DEF TypeOK, DeliveryType
  <1>6. Claimed'
    BY <1>1, <1>4 DEF OutboxInv, Claimed
  <1>7. InHand'
    <2> SUFFICES ASSUME NEW pp \in Publishers
                 PROVE  /\ batch[pp] \subseteq events
                        /\ handed'[pp] # None => delivery'[handed'[pp]].inserted
      BY <1>1 DEF InHand
    <2>1. handed'[pp] = IF pp = p THEN m ELSE handed[pp]
      BY <1>0, <1>1 DEF TypeOK
    <2>2. handed[pp] \in Messages \cup {None}
      BY <1>0 DEF TypeOK
    <2> QED
      BY <1>4, <2>1, <2>2 DEF OutboxInv, InHand
  <1>8. TablesAgree'
    BY <1>1, <1>4 DEF OutboxInv, TablesAgree
  <1>9. R!Deliver(m)
    <2>1. m \in events
      BY <1>1 DEF OutboxInv, InHand
    <2>2. {n \in Messages : delivery'[n].inserted} = {n \in Messages : delivery[n].inserted} \cup {m}
      BY <1>4
    <2> QED
      BY <1>1, <2>1, <2>2 DEF R!Deliver
  <1> QED
    BY <1>5, <1>6, <1>7, <1>8, <1>9 DEF OutboxInv

\* A publisher marks the message it has handed over, or finds its claim gone.
LEMMA ConfirmStep ==
    ASSUME OutboxInv, NEW p \in Publishers, MarkOutboxPublished(p)
    PROVE  OutboxInv' /\ (Quiet \/ \E m \in Messages : R!Confirm(m))
  <1>0. TypeOK /\ row \in [Messages -> RowType]
    BY Entries DEF OutboxInv
  <1>1. PICK m \in batch[p] :
            /\ handed[p] = m
            /\ row' = IF HoldsRow(p, m)
                      THEN [row EXCEPT ![m].published = TRUE, ![m].token = None, ![m].age = 0]
                      ELSE row
            /\ batch' = [batch EXCEPT ![p] = @ \ {m}]
            /\ handed' = [handed EXCEPT ![p] = None]
            /\ UNCHANGED <<events, dlq, delivery, held>>
    BY DEF MarkOutboxPublished
  <1>2. m \in Messages /\ m # None /\ delivery[m].inserted
    BY <1>0, <1>1, NoneAssumption DEF TypeOK, OutboxInv, InHand
  <1>3. HandsStay
    BY <1>0, <1>1 DEF OutboxInv, TypeOK, InHand, HandsStay
  <1>4. CASE ~HoldsRow(p, m)
    <2>1. Quiet
      BY <1>0, <1>1, <1>3, <1>4, Untouched DEF Quiet, TypeOK
    <2> QED
      BY <2>1, QuietInv
  <1>5. CASE HoldsRow(p, m)
    <2> DEFINE q == [row[m] EXCEPT !.published = TRUE, !.token = None, !.age = 0]
    <2>1. row' = [row EXCEPT ![m] = q]
      BY <1>1, <1>5
    <2>2. q \in RowType /\ q.published /\ q.moved = row[m].moved /\ q.token = None
      BY <1>0, <1>2, RowTyped, RowKeeps
    <2> HIDE DEF q
    <2>3. row' \in [Messages -> RowType]
      BY <1>0, <2>1, <2>2
    <2>4. \A n \in Messages : /\ row'[n].published <=> (row[n].published \/ n = m)
                              /\ row'[n].moved = row[n].moved
                              /\ row'[n].token # None => row'[n].attempts >= 1
      BY <1>0, <2>1, <2>2 DEF OutboxInv, Claimed
    <2>5. TypeOK'
      BY <1>0, <1>1, <1>3, <2>3 DEF TypeOK, RowType, HandsStay
    <2>6. Claimed'
      BY <1>1, <2>4 DEF OutboxInv, Claimed
    <2>7. InHand'
      BY <1>0, <1>1, <1>3 DEF OutboxInv, InHand, HandsStay
    <2>8. TablesAgree'
      BY <1>1, <1>2, <2>4 DEF OutboxInv, TablesAgree
    <2>9. R!Confirm(m)
      <3>1. {n \in Messages : row'[n].published} = {n \in Messages : row[n].published} \cup {m}
        BY <1>2, <2>4
      <3>2. ~row[m].published
        BY <1>5 DEF HoldsRow
      <3> QED
        BY <1>1, <1>2, <3>1, <3>2 DEF R!Confirm
    <2> QED
      BY <1>2, <2>5, <2>6, <2>7, <2>8, <2>9 DEF OutboxInv
  <1> QED
    BY <1>4, <1>5

\* The sweep buries what has used up its attempts and nobody has published.
LEMMA BuryStep ==
    ASSUME OutboxInv, SweepOutboxDlq
    PROVE  OutboxInv' /\ \E S \in SUBSET Messages : R!Bury(S)
  <1> DEFINE S == {m \in Messages : Exhausted(m)}
             new(m) == IF Exhausted(m) THEN [row[m] EXCEPT !.moved = TRUE]
                       ELSE IF NeedsBackoff(m)
                       THEN [row[m] EXCEPT !.wait = Backoff(row[m].attempts), !.token = None, !.age = 0]
                       ELSE row[m]
  <1>0. TypeOK /\ \A m \in Messages : row[m] \in RowType
    BY Entries DEF OutboxInv
  <1>1. /\ row' = [m \in Messages |-> new(m)]
        /\ dlq' = dlq \cup S
        /\ UNCHANGED <<events, delivery, batch, handed, held>>
    BY DEF SweepOutboxDlq
  <1>2. ASSUME NEW m \in Messages
        PROVE  /\ new(m) \in RowType
               /\ new(m).published = row[m].published
               /\ new(m).moved <=> (row[m].moved \/ m \in S)
               /\ new(m).token # None => new(m).attempts >= 1
    <2>0. row[m] \in RowType
      BY <1>0
    <2>1. CASE Exhausted(m)
      <3>1. new(m) = [row[m] EXCEPT !.moved = TRUE]
        BY <2>1
      <3> DEFINE q == [row[m] EXCEPT !.moved = TRUE]
      <3>2. /\ q \in RowType /\ q.published = row[m].published /\ q.moved
            /\ q.token = row[m].token /\ q.attempts = row[m].attempts
        BY <2>0, RowTyped, RowKeeps
      <3>3. row[m].token # None => row[m].attempts >= 1
        BY DEF OutboxInv, Claimed
      <3>4. m \in S
        BY <2>1
      <3>5. new(m) = q
        BY <3>1
      <3> HIDE DEF new, q, S
      <3> QED
        BY <3>2, <3>3, <3>4, <3>5
    <2>2. CASE ~Exhausted(m) /\ NeedsBackoff(m)
      <3> DEFINE n == Backoff(row[m].attempts)
      <3>1. new(m) = [row[m] EXCEPT !.wait = n, !.token = None, !.age = 0]
        BY <2>2
      <3>2. row[m].attempts \in 0 .. MaxAttempts + MaxDeliveries
        BY <2>2 DEF NeedsBackoff
      <3>3. n \in Nat
        BY <3>2, BackoffAssumption
      <3> HIDE DEF n
      <3> DEFINE q == [row[m] EXCEPT !.wait = n, !.token = None, !.age = 0]
      <3>4. /\ q \in RowType /\ q.published = row[m].published
            /\ q.moved = row[m].moved /\ q.token = None
        BY <2>0, <3>3, RowTyped, RowKeeps
      <3>5. m \notin S
        BY <2>2
      <3>6. new(m) = q
        BY <3>1
      <3> HIDE DEF new, q, S
      <3> QED
        BY <3>4, <3>5, <3>6
    <2>3. CASE ~Exhausted(m) /\ ~NeedsBackoff(m)
      BY <2>0, <2>3 DEF OutboxInv, Claimed
    <2> QED
      BY <2>1, <2>2, <2>3
  <1>3. S \subseteq events /\ \A m \in S : ~row[m].published /\ ~row[m].moved
    BY DEF Exhausted
  <1> HIDE DEF new, S
  <1>4. row' \in [Messages -> RowType]
    BY <1>1, <1>2
  <1>5. \A m \in Messages : /\ row'[m].published = row[m].published
                            /\ row'[m].moved <=> (row[m].moved \/ m \in S)
                            /\ row'[m].token # None => row'[m].attempts >= 1
    BY <1>1, <1>2
  <1>6. TypeOK'
    BY <1>0, <1>1, <1>3, <1>4 DEF TypeOK, RowType
  <1>7. Claimed' /\ InHand'
    BY <1>1, <1>5 DEF OutboxInv, Claimed, InHand
  <1>8. TablesAgree'
    BY <1>1, <1>3, <1>5 DEF OutboxInv, TablesAgree
  <1>9. R!Bury(S)
    <2>1. {m \in Messages : row'[m].published} = {m \in Messages : row[m].published}
      BY <1>5
    <2>2. S \subseteq events \ ({m \in Messages : row[m].published} \cup dlq)
      BY <1>0, <1>3 DEF TypeOK, OutboxInv, TablesAgree
    <2> QED
      BY <1>1, <2>1, <2>2 DEF R!Bury
  <1> QED
    BY <1>0, <1>3, <1>6, <1>7, <1>8, <1>9 DEF OutboxInv, TypeOK

-----------------------------------------------------------------------------
\* A quiet step is a stuttering step of the relay.
LEMMA QuietIsStutter ==
    ASSUME Quiet
    PROVE  UNCHANGED R!relayVars
  <1>1. {m \in Messages : delivery'[m].inserted} = {m \in Messages : delivery[m].inserted}
    BY DEF Quiet, DeliveriesStay
  <1>2. {m \in Messages : row'[m].published} = {m \in Messages : row[m].published}
    BY DEF Quiet, RowsStay
  <1> QED
    BY <1>1, <1>2 DEF Quiet, R!relayVars

\* Every step preserves the invariant and is a step of the relay or a stutter.
LEMMA OutboxStep ==
    ASSUME OutboxInv, [Next]_vars
    PROVE  OutboxInv' /\ [R!Next]_(R!relayVars)
  <1>q. ASSUME Quiet PROVE OutboxInv' /\ [R!Next]_(R!relayVars)
    BY <1>q, QuietInv, QuietIsStutter
  <1>1. ASSUME NEW m \in Messages, WriteEvent(m) \/ ReplayDlqEntry(m)
        PROVE  OutboxInv' /\ [R!Next]_(R!relayVars)
    BY <1>1, <1>q, WriteStep, ClockQuiet DEF R!Next
  <1>2. ASSUME NEW p \in Publishers,
               \/ \E B \in SUBSET Messages : ClaimOutbox(p, B)
               \/ PublisherStep(p)
               \/ PublisherCrash(p)
        PROVE  OutboxInv' /\ [R!Next]_(R!relayVars)
    <2>1. ASSUME NEW m \in Messages, PublishDelivery(p, m)
          PROVE  OutboxInv' /\ [R!Next]_(R!relayVars)
      BY <2>1, DeliverStep DEF R!Next
    <2>2. CASE MarkOutboxPublished(p)
      BY <2>2, <1>q, ConfirmStep DEF R!Next
    <2> QED
      BY <1>2, <1>q, <2>1, <2>2, PublisherQuiet DEF PublisherStep
  <1>3. ASSUME NEW c \in Consumers,
               \/ \E B \in SUBSET Messages : ClaimDeliveries(c, B)
               \/ ConsumerStep(c)
               \/ ConsumerCrash(c)
        PROVE  OutboxInv' /\ [R!Next]_(R!relayVars)
    BY <1>3, <1>q, ConsumerQuiet
  <1>4. CASE SweepOutboxDlq
    BY <1>4, BuryStep DEF R!Next
  <1>5. CASE Tick
    BY <1>5, <1>q, ClockQuiet
  <1>6. CASE UNCHANGED vars
    <2>1. Quiet
      BY <1>6, Untouched DEF Quiet, OutboxInv, TypeOK, vars
    <2> QED
      BY <2>1, <1>q
  <1> QED
    BY <1>1, <1>2, <1>3, <1>4, <1>5, <1>6 DEF Next

(* The inductive invariant of the outbox holds in every reachable state,   *)
(* whatever publishers and consumers crash, overtake each other or time    *)
(* out.                                                                    *)
THEOREM OutboxInvariant == Spec => []OutboxInv
  <1>1. OutboxInv /\ [Next]_vars => OutboxInv'
    BY OutboxStep
  <1> QED
    BY <1>1, InitInv, PTL DEF Spec

\* Every row, delivery and local variable keeps its type: commander_outbox,
\* its deliveries and its dead letters never hold a malformed row.
THEOREM OutboxTypeCorrect == Spec => []TypeOK
  <1>1. OutboxInv => TypeOK
    BY DEF OutboxInv
  <1> QED
    BY <1>1, OutboxInvariant, PTL

(* No event is lost between the outbox, its delivery table and the         *)
(* dead-letter queue: published rows have their delivery, rows given up    *)
(* have their DLQ entry, the others stay with the claim or the sweep.      *)
THEOREM EventsAreNotLost == Spec => []NoEventLost
  <1>1. OutboxInv => NoEventLost
    <2> SUFFICES ASSUME OutboxInv, NEW m \in events
                 PROVE  /\ row[m].published => delivery[m].inserted
                        /\ row[m].moved <=> m \in dlq
                        /\ (row[m].attempts = MaxAttempts /\ row[m].token = None)
                              => row[m].published \/ row[m].moved \/ Exhausted(m)
      BY DEF NoEventLost
    <2>1. m \in Messages
      BY DEF OutboxInv, TypeOK
    <2> QED
      BY <2>1 DEF OutboxInv, TablesAgree, Exhausted, Idle
  <1> QED
    BY <1>1, OutboxInvariant, PTL

(* The outbox with its claims, timeouts, sweeps and crashes implements the *)
(* relay: confirmed only after delivered, buried only while unconfirmed,   *)
(* nothing taken back.                                                     *)
THEOREM OutboxImplementsRelay == Spec => ImplementsRelay
  <1>1. Init => R!Init
    <2>1. Init => {m \in Messages : delivery[m].inserted} = {} /\ {m \in Messages : row[m].published} = {}
      BY DEF Init, NewRow, NewDelivery
    <2> QED
      BY <2>1 DEF Init, R!Init
  <1>2. OutboxInv /\ [Next]_vars => [R!Next]_(R!relayVars)
    BY OutboxStep
  <1> QED
    BY <1>1, <1>2, OutboxInvariant, PTL DEF Spec, ImplementsRelay, R!Spec

-----------------------------------------------------------------------------
(* Claims are fenced.                                                      *)

\* While a claim is young no step but its holder's touches the row.
LEMMA LiveClaimStep ==
    ASSUME OutboxInv, [Next]_vars, NEW m \in Messages, NEW p \in Publishers,
           row[m].token = p, row[m].age < ClaimTTL
    PROVE  /\ row'[m].token # p => m \in batch[p] \ batch'[p]
           /\ row'[m].moved = row[m].moved
  <1>0. /\ TypeOK /\ row \in [Messages -> RowType] /\ row[m] \in RowType
        /\ row[m].token # None /\ row[m].age \in Nat
    <2>1. row \in [Messages -> RowType] /\ row[m] \in RowType
      BY Entries DEF OutboxInv
    <2>2. row[m].age \in Nat
      BY <2>1 DEF RowType
    <2> QED
      BY <2>1, <2>2, NoneAssumption DEF OutboxInv
  <1>1. CASE row' = row
    BY <1>1
  <1>2. ASSUME NEW q \in Publishers, NEW B \in SUBSET Messages, ClaimOutbox(q, B)
        PROVE  row'[m] = row[m]
    <2>a. \A n \in B : Claimable(n)
      BY <1>2 DEF ClaimOutbox
    <2>b. ~Claimable(m)
      BY <1>0 DEF Claimable
    <2>1. m \notin B
      BY <2>a, <2>b
    <2> QED
      BY <1>2, <2>1 DEF ClaimOutbox
  <1>3. ASSUME NEW q \in Publishers, NEW n \in Messages, HoldsRow(q, n),
               batch' = [batch EXCEPT ![q] = @ \ {n}], n \in batch[q],
               NEW new \in RowType, row' = [row EXCEPT ![n] = new], new.moved = row[n].moved
        PROVE  /\ row'[m].token # p => m \in batch[p] \ batch'[p]
               /\ row'[m].moved = row[m].moved
    <2>1. CASE n # m
      BY <1>0, <1>3, <2>1
    <2>2. CASE n = m
      <3>1. q = p
        BY <1>3, <2>2 DEF HoldsRow
      <3> QED
        BY <1>0, <1>3, <2>2, <3>1 DEF TypeOK
    <2> QED
      BY <2>1, <2>2
  <1>4. ASSUME NEW q \in Publishers, NEW n \in Messages, RetryOutbox(q, n)
        PROVE  /\ row'[m].token # p => m \in batch[p] \ batch'[p]
               /\ row'[m].moved = row[m].moved
    <2>1. CASE ~HoldsRow(q, n)
      BY <1>1, <1>4, <2>1 DEF RetryOutbox
    <2>2. CASE HoldsRow(q, n)
      <3> DEFINE w == Positive(Backoff(row[n].attempts - 1) - row[n].age)
                 new == [row[n] EXCEPT !.wait = w, !.token = None, !.age = 0]
      <3>1. row[n] \in RowType
        BY <1>0
      <3>2. row' = [row EXCEPT ![n] = new] /\ n \in batch[q] /\ batch' = [batch EXCEPT ![q] = @ \ {n}]
        BY <1>4, <2>2 DEF RetryOutbox
      <3>3. RowsStay
        BY <1>4, PublisherQuiet DEF Quiet
      <3>4. row'[n] = new
        BY <1>0, <3>2
      <3>5. new \in RowType /\ new.moved = row[n].moved
        <4> HIDE DEF new
        <4> QED
          BY <3>3, <3>4 DEF RowsStay
      <3> HIDE DEF new
      <3> QED
        BY <1>3, <2>2, <3>2, <3>5
    <2> QED
      BY <2>1, <2>2
  <1>5. ASSUME NEW q \in Publishers, MarkOutboxPublished(q)
        PROVE  /\ row'[m].token # p => m \in batch[p] \ batch'[p]
               /\ row'[m].moved = row[m].moved
    <2>1. PICK n \in batch[q] :
            /\ row' = IF HoldsRow(q, n)
                      THEN [row EXCEPT ![n].published = TRUE, ![n].token = None, ![n].age = 0]
                      ELSE row
            /\ batch' = [batch EXCEPT ![q] = @ \ {n}]
      BY <1>5 DEF MarkOutboxPublished
    <2>2. CASE ~HoldsRow(q, n)
      BY <1>1, <2>1, <2>2
    <2>3. CASE HoldsRow(q, n)
      <3> DEFINE new == [row[n] EXCEPT !.published = TRUE, !.token = None, !.age = 0]
      <3>1. n \in Messages /\ row[n] \in RowType
        BY <1>0, <2>1 DEF TypeOK
      <3>2. row' = [row EXCEPT ![n] = new]
        BY <2>1, <2>3
      <3>3. new \in RowType /\ new.moved = row[n].moved
        BY <3>1, RowTyped, RowKeeps
      <3> HIDE DEF new
      <3> QED
        BY <1>3, <2>1, <2>3, <3>1, <3>2, <3>3
    <2> QED
      BY <2>2, <2>3
  <1>6. ASSUME SweepOutboxDlq
        PROVE  row'[m] = row[m]
    <2>1. ~Exhausted(m) /\ ~NeedsBackoff(m)
      BY <1>0 DEF Exhausted, NeedsBackoff, Idle
    <2> QED
      BY <1>6, <2>1 DEF SweepOutboxDlq
  <1>7. ASSUME Tick
        PROVE  row'[m].token = row[m].token /\ row'[m].moved = row[m].moved
    BY <1>0, <1>7, RowKeeps DEF Tick
  <1>8. ASSUME NEW n \in Messages, WriteEvent(n) \/ ReplayDlqEntry(n)
        PROVE  row' = row
    BY <1>8 DEF WriteEvent, ReplayDlqEntry, OutboxInv, TablesAgree
  <1>9. ASSUME NEW q \in Publishers, \/ \E n \in Messages : PublishDelivery(q, n)
                                     \/ PublisherCrash(q)
        PROVE  row' = row
    BY <1>9 DEF PublishDelivery, PublisherCrash
  <1>10. ASSUME NEW c \in Consumers, \/ \E B \in SUBSET Messages : ClaimDeliveries(c, B)
                                     \/ ConsumerStep(c)
                                     \/ ConsumerCrash(c)
         PROVE  row' = row
    BY <1>10 DEF ClaimDeliveries, ConsumerStep, AcknowledgeDelivery, RetryDelivery, ConsumerCrash
  <1> QED
    BY <1>1, <1>2, <1>4, <1>5, <1>6, <1>7, <1>8, <1>9, <1>10 DEF Next, PublisherStep, vars

(* A claim younger than the 60 s is only ended by its holder: neither the  *)
(* sweep nor a publisher with an older token takes the row away or buries  *)
(* it.                                                                     *)
THEOREM LiveClaimsAreFenced == Spec => LiveClaimUntouched
  <1> DEFINE A == \A m \in Messages : \A p \in Publishers :
                    (row[m].token = p /\ row[m].age < ClaimTTL)
                       => /\ row'[m].token # p => m \in batch[p] \ batch'[p]
                          /\ row'[m].moved = row[m].moved
  <1>1. OutboxInv /\ [Next]_vars => A
    BY LiveClaimStep
  <1>2. OutboxInv /\ [Next]_vars => [A]_vars
    BY <1>1
  <1>3. LiveClaimUntouched <=> [][A]_vars
    BY DEF LiveClaimUntouched
  <1> HIDE DEF A
  <1> QED
    BY <1>2, <1>3, OutboxInvariant, PTL DEF Spec

\* A delivery that has ended is claimed by nobody.
EndedIsFree == \A m \in Messages : delivery[m].acked \/ delivery[m].moved => delivery[m].token = None

\* What a step does to a delivery, and to who holds it.
DeliveryEnds(m) ==
    /\ (delivery'[m].acked \/ delivery'[m].moved) /\ ~delivery[m].acked /\ ~delivery[m].moved
          => \E c \in Consumers : /\ delivery[m].token = c
                                  /\ m \in held[c] \ held'[c]
    /\ delivery[m].acked \/ delivery[m].moved
          => delivery'[m].acked = delivery[m].acked /\ delivery'[m].token = None
    /\ delivery'[m].acked \/ delivery'[m].moved => delivery'[m].token = None

\* The fields of a delivery that the steps of DeliveryEnds write.
LEMMA DeliveryEndKeeps ==
    ASSUME NEW d \in DeliveryType
    PROVE  /\ \A c \in Consumers :
                LET q == [d EXCEPT !.attempts = IF @ > MaxDeliveries THEN @ ELSE @ + 1,
                                   !.age = 0, !.token = c]
                IN  q.acked = d.acked /\ q.moved = d.moved
           /\ LET q == [d EXCEPT !.inserted = TRUE]
              IN  q.acked = d.acked /\ q.moved = d.moved /\ q.token = d.token
           /\ LET q == Older(d)
              IN  q.acked = d.acked /\ q.moved = d.moved /\ q.token = d.token
  <1> USE DEF DeliveryType
  <1>1. ASSUME NEW c \in Consumers
        PROVE  LET q == [d EXCEPT !.attempts = IF @ > MaxDeliveries THEN @ ELSE @ + 1,
                                  !.age = 0, !.token = c]
               IN  q.acked = d.acked /\ q.moved = d.moved
    OBVIOUS
  <1>2. LET q == [d EXCEPT !.inserted = TRUE]
        IN  q.acked = d.acked /\ q.moved = d.moved /\ q.token = d.token
    OBVIOUS
  <1>3. LET q == Older(d)
        IN  q.acked = d.acked /\ q.moved = d.moved /\ q.token = d.token
    BY DEF Older
  <1> QED
    BY <1>1, <1>2, <1>3, Zenon

\* A step ends a delivery only for the consumer that claimed it last.
LEMMA DeliveryEndStep ==
    ASSUME OutboxInv, EndedIsFree, [Next]_vars, NEW m \in Messages
    PROVE  DeliveryEnds(m)
  <1>0. TypeOK /\ delivery \in [Messages -> DeliveryType] /\ delivery[m] \in DeliveryType
    BY Entries DEF OutboxInv
  <1>1. ASSUME /\ delivery'[m].acked = delivery[m].acked
               /\ delivery'[m].moved = delivery[m].moved
               /\ delivery'[m].token = delivery[m].token
        PROVE  DeliveryEnds(m)
    BY <1>1 DEF DeliveryEnds, EndedIsFree
  <1>2. ASSUME NEW c \in Consumers, NEW B \in SUBSET Messages, ClaimDeliveries(c, B)
        PROVE  DeliveryEnds(m)
    <2>1. CASE m \notin B
      <3>1. delivery'[m] = delivery[m]
        BY <1>2, <2>1 DEF ClaimDeliveries
      <3> QED
        BY <1>1, <3>1
    <2>2. CASE m \in B
      <3> DEFINE q == [delivery[m] EXCEPT !.attempts = IF @ > MaxDeliveries THEN @ ELSE @ + 1,
                                          !.age = 0, !.token = c]
      <3>1. delivery'[m] = q
        BY <1>2, <2>2 DEF ClaimDeliveries
      <3>2. q.acked = delivery[m].acked /\ q.moved = delivery[m].moved
        BY <1>0, DeliveryEndKeeps
      <3>3. ~delivery[m].acked /\ ~delivery[m].moved
        BY <1>2, <2>2 DEF ClaimDeliveries, DeliveryClaimable
      <3> HIDE DEF q
      <3> QED
        BY <3>1, <3>2, <3>3 DEF DeliveryEnds
    <2> QED
      BY <2>1, <2>2
  <1>3. ASSUME NEW c \in Consumers, NEW n \in Messages,
               AcknowledgeDelivery(c, n) \/ RetryDelivery(c, n)
        PROVE  DeliveryEnds(m)
    <2>1. CASE n # m \/ ~HoldsDelivery(c, n)
      <3>1. delivery'[m] = delivery[m]
        BY <1>0, <1>3, <2>1 DEF AcknowledgeDelivery, RetryDelivery
      <3> QED
        BY <1>1, <3>1
    <2>2. CASE n = m /\ HoldsDelivery(c, n)
      <3>1. delivery'[m].token = None
        BY <1>0, <1>3, <2>2 DEF AcknowledgeDelivery, RetryDelivery, DeliveryType
      <3>2. delivery[m].token = c /\ ~delivery[m].acked /\ ~delivery[m].moved
        BY <2>2 DEF HoldsDelivery
      <3>3. m \in held[c] /\ held' = [held EXCEPT ![c] = @ \ {m}]
        BY <1>3, <2>2 DEF AcknowledgeDelivery, RetryDelivery
      <3>4. m \in held[c] \ held'[c]
        BY <1>0, <3>3 DEF TypeOK
      <3> QED
        BY <3>1, <3>2, <3>4 DEF DeliveryEnds
    <2> QED
      BY <2>1, <2>2
  <1>4. ASSUME NEW p \in Publishers, NEW n \in Messages, PublishDelivery(p, n)
        PROVE  DeliveryEnds(m)
    <2> DEFINE q == [delivery[n] EXCEPT !.inserted = TRUE]
    <2>1. delivery' = [delivery EXCEPT ![n] = q]
      BY <1>4 DEF PublishDelivery
    <2>2. q.acked = delivery[n].acked /\ q.moved = delivery[n].moved /\ q.token = delivery[n].token
      <3>1. delivery[n] \in DeliveryType
        BY <1>0
      <3> QED
        BY <3>1, DeliveryEndKeeps
    <2> HIDE DEF q
    <2> QED
      BY <1>0, <1>1, <2>1, <2>2
  <1>5. ASSUME Tick
        PROVE  DeliveryEnds(m)
    <2> DEFINE q == Older(delivery[m])
    <2>1. delivery'[m] = q
      BY <1>5 DEF Tick
    <2>2. q.acked = delivery[m].acked /\ q.moved = delivery[m].moved /\ q.token = delivery[m].token
      BY <1>0, DeliveryEndKeeps
    <2> HIDE DEF q
    <2> QED
      BY <1>1, <2>1, <2>2
  <1>6. ASSUME \/ \E n \in Messages : WriteEvent(n) \/ ReplayDlqEntry(n)
               \/ SweepOutboxDlq
               \/ UNCHANGED vars
        PROVE  delivery' = delivery
    BY <1>6 DEF WriteEvent, ReplayDlqEntry, SweepOutboxDlq, vars
  <1>7. ASSUME NEW p \in Publishers,
               \/ \E B \in SUBSET Messages : ClaimOutbox(p, B)
               \/ \E n \in Messages : RetryOutbox(p, n)
               \/ MarkOutboxPublished(p)
               \/ PublisherCrash(p)
        PROVE  delivery' = delivery
    BY <1>7 DEF ClaimOutbox, RetryOutbox, MarkOutboxPublished, PublisherCrash
  <1>8. ASSUME NEW c \in Consumers, ConsumerCrash(c)
        PROVE  delivery' = delivery
    BY <1>8 DEF ConsumerCrash
  <1> QED
    BY <1>1, <1>2, <1>3, <1>4, <1>5, <1>6, <1>7, <1>8 DEF Next, PublisherStep, ConsumerStep

(* A delivery ends once, for the consumer that claimed it last; a consumer *)
(* whose claim timed out cannot acknowledge it, and it is never handed out *)
(* again.                                                                  *)
THEOREM DeliveriesEndOnce == Spec => DeliveryEndsOnce
  <1> DEFINE A == \A m \in Messages :
                    /\ (delivery'[m].acked \/ delivery'[m].moved)
                             /\ ~delivery[m].acked /\ ~delivery[m].moved
                          => \E c \in Consumers : /\ delivery[m].token = c
                                                  /\ m \in held[c] \ held'[c]
                    /\ delivery[m].acked \/ delivery[m].moved
                          => delivery'[m].acked = delivery[m].acked /\ delivery'[m].token = None
  <1>1. Init => EndedIsFree
    BY DEF Init, NewDelivery, EndedIsFree
  <1>2. OutboxInv /\ EndedIsFree /\ [Next]_vars => EndedIsFree' /\ [A]_vars
    <2> SUFFICES ASSUME OutboxInv, EndedIsFree, [Next]_vars PROVE EndedIsFree' /\ A
      OBVIOUS
    <2>1. \A m \in Messages : DeliveryEnds(m)
      BY DeliveryEndStep
    <2>2. EndedIsFree'
      BY <2>1 DEF EndedIsFree, DeliveryEnds
    <2>3. A
      BY <2>1 DEF DeliveryEnds
    <2> QED
      BY <2>2, <2>3
  <1>3. DeliveryEndsOnce <=> [][A]_vars
    BY DEF DeliveryEndsOnce
  <1> HIDE DEF A
  <1> QED
    BY <1>1, <1>2, <1>3, OutboxInvariant, PTL DEF Spec
=============================================================================
