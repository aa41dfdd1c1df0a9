------------------------------- MODULE Outbox -------------------------------
(***************************************************************************)
(* The transactional outbox: rows of commander_outbox written with every   *)
(* kernel event, the publishers that move them to the delivery table, the  *)
(* consumers of that table, the sweep and the dead-letter queue.           *)
(*                                                                         *)
(* A publisher claims a batch under one token and works through it message *)
(* by message; the claim is never renewed, so it can go stale while an     *)
(* earlier message of the batch is slow, and a publisher can die anywhere. *)
(* Every action is one committed transaction and the local step around it. *)
(*                                                                         *)
(* Time is relative: wait is what is left until available_at, age is how   *)
(* long ago a claim was taken (up to AgeCap), and Tick lets one unit pass. *)
(* A claim token is the identity of the claiming process: a process claims *)
(* again only when its batch is done or it has restarted, and then it      *)
(* holds no message under an older token.                                  *)
(* A row belongs to one event (event_id is UNIQUE), so rows are indexed by *)
(* the event.  ORDER BY and SKIP LOCKED become any choice of eligible      *)
(* rows.  Topics, payloads and error texts are left out; so are the        *)
(* compensation topics, which claimOutbox leaves to another consumer.      *)
(***************************************************************************)
EXTENDS Integers, FiniteSets

CONSTANTS
    Messages,      \* the events that may be written
    Publishers,    \* processes running KernelOutboxPublisher
    Consumers,     \* consumers of the delivery port (not part of the repository)
    None,          \* NULL
    BatchSize,     \* limit of a claim
    MaxAttempts,   \* max_attempts of a row
    MaxDeliveries, \* maxAttempts of the delivery port
    Backoff(_),    \* the delay after n attempts: 2^n seconds
    ClaimTTL,      \* the 60 s a claim is respected
    AgeCap         \* bound of the model: ages are counted up to here

ASSUME OutboxBoundAssumption ==
    /\ BatchSize \in Nat \ {0}
    /\ MaxAttempts \in Nat \ {0}
    /\ MaxDeliveries \in Nat \ {0}
    /\ ClaimTTL \in Nat
    /\ AgeCap \in Nat
    /\ AgeCap > ClaimTTL

ASSUME BackoffAssumption ==
    /\ \A n \in 0 .. MaxAttempts + MaxDeliveries : Backoff(n) \in Nat
    /\ \A n \in 0 .. MaxAttempts - 1 : Backoff(n) <= AgeCap

ASSUME NoneAssumption == None \notin Publishers \cup Consumers \cup Messages

VARIABLES
    events,      \* the events written so far
    row,         \* commander_outbox, by event
    dlq,         \* commander_outbox_dlq, by event
    delivery,    \* commander_outbox_deliveries, by event
    batch,       \* the messages a publisher still has to work through
    handed,      \* the message it has delivered but not yet marked
    held         \* the deliveries a consumer is working on

vars == <<events, row, dlq, delivery, batch, handed, held>>

\* A new row: no attempt, available at once, not claimed.
NewRow == [attempts |-> 0, wait |-> 0, age |-> 0, token |-> None,
           published |-> FALSE, moved |-> FALSE]

NewDelivery == [attempts |-> 0, wait |-> 0, age |-> 0, token |-> None,
                inserted |-> FALSE, acked |-> FALSE, moved |-> FALSE]

Init ==
    /\ events = {}
    /\ row = [m \in Messages |-> NewRow]
    /\ dlq = {}
    /\ delivery = [m \in Messages |-> NewDelivery]
    /\ batch = [p \in Publishers |-> {}]
    /\ handed = [p \in Publishers |-> None]
    /\ held = [c \in Consumers |-> {}]

-----------------------------------------------------------------------------
(* The kernel writes an event and its outbox row in one transaction.       *)
WriteEvent(m) ==
    /\ m \notin events
    /\ events' = events \cup {m}
    /\ UNCHANGED <<row, dlq, delivery, batch, handed, held>>

\* The rows claimOutbox may take.
Claimable(m) ==
    /\ m \in events
    /\ ~row[m].published
    /\ ~row[m].moved
    /\ row[m].attempts < MaxAttempts
    /\ row[m].wait = 0
    /\ row[m].token = None \/ row[m].age > ClaimTTL

ClaimOutbox(p, B) ==
    /\ batch[p] = {}
    /\ B # {}
    /\ Cardinality(B) <= BatchSize
    /\ \A m \in B : Claimable(m)
    /\ row' = [m \in Messages |->
                 IF m \in B
                 THEN [row[m] EXCEPT !.attempts = @ + 1, !.age = 0, !.token = p]
                 ELSE row[m]]
    /\ batch' = [batch EXCEPT ![p] = B]
    /\ UNCHANGED <<events, dlq, delivery, handed, held>>

\* delivery.publish: INSERT ... ON CONFLICT (event_id) DO NOTHING.
PublishDelivery(p, m) ==
    /\ m \in batch[p]
    /\ handed[p] = None
    /\ delivery' = [delivery EXCEPT ![m].inserted = TRUE]
    /\ handed' = [handed EXCEPT ![p] = m]
    /\ UNCHANGED <<events, row, dlq, batch, held>>

\* Fault: the token of the claim is not compared.
HoldsRowUnfenced(p, m) == ~row[m].published

\* The token is still on the row and nobody has published it.
HoldsRow(p, m) == row[m].token = p /\ ~row[m].published

MarkOutboxPublished(p) ==
    \E m \in batch[p] :
        /\ handed[p] = m
        /\ row' = IF HoldsRow(p, m)
                  THEN [row EXCEPT ![m].published = TRUE, ![m].token = None, ![m].age = 0]
                  ELSE row
        /\ batch' = [batch EXCEPT ![p] = @ \ {m}]
        /\ handed' = [handed EXCEPT ![p] = None]
        /\ UNCHANGED <<events, dlq, delivery, held>>

Positive(n) == IF n > 0 THEN n ELSE 0

(* publish or markOutboxPublished threw.  The backoff starts at the        *)
(* instant the batch was claimed, not at the failure.                      *)
RetryOutbox(p, m) ==
    /\ m \in batch[p]
    /\ handed[p] \in {None, m}
    /\ row' = IF HoldsRow(p, m)
              THEN [row EXCEPT ![m].wait = Positive(Backoff(row[m].attempts - 1) - row[m].age),
                               ![m].token = None, ![m].age = 0]
              ELSE row
    /\ batch' = [batch EXCEPT ![p] = @ \ {m}]
    /\ handed' = [handed EXCEPT ![p] = None]
    /\ UNCHANGED <<events, dlq, delivery, held>>

\* The process dies, or the retry throws as well and the batch is abandoned.
PublisherCrash(p) ==
    /\ batch[p] # {}
    /\ batch' = [batch EXCEPT ![p] = {}]
    /\ handed' = [handed EXCEPT ![p] = None]
    /\ UNCHANGED <<events, row, dlq, delivery, held>>

-----------------------------------------------------------------------------
(* The sweep, run by the timer worker and by the compensation probe.       *)

\* The claim on the row is gone or stale.
Idle(m) == row[m].token = None \/ row[m].age >= ClaimTTL

\* Fault: the sweep waits for one attempt more than the claim allows.
ExhaustedTooLate(m) ==
    /\ m \in events
    /\ ~row[m].published
    /\ ~row[m].moved
    /\ row[m].attempts > MaxAttempts
    /\ Idle(m)

\* Fault: the sweep does not ask whether the row was published.
ExhaustedOrPublished(m) ==
    /\ m \in events
    /\ ~row[m].moved
    /\ row[m].attempts >= MaxAttempts
    /\ Idle(m)

Exhausted(m) ==
    /\ m \in events
    /\ ~row[m].published
    /\ ~row[m].moved
    /\ row[m].attempts >= MaxAttempts
    /\ Idle(m)

NeedsBackoff(m) ==
    /\ m \in events
    /\ ~row[m].published
    /\ ~row[m].moved
    /\ row[m].attempts \in 1 .. MaxAttempts - 1
    /\ row[m].wait = 0
    /\ Idle(m)

\* Fault: the sweep forgets the rows whose claim went stale on the last attempt.
SweepSkipsExhausted ==
    /\ \E m \in Messages : NeedsBackoff(m)
    /\ row' = [m \in Messages |->
                 IF NeedsBackoff(m)
                 THEN [row[m] EXCEPT !.wait = Backoff(row[m].attempts), !.token = None, !.age = 0]
                 ELSE row[m]]
    /\ UNCHANGED <<events, dlq, delivery, batch, handed, held>>

\* Moving a row to the DLQ leaves its claim token on it.
SweepOutboxDlq ==
    /\ \E m \in Messages : Exhausted(m) \/ NeedsBackoff(m)
    /\ dlq' = dlq \cup {m \in Messages : Exhausted(m)}
    /\ row' = [m \in Messages |->
                 IF Exhausted(m) THEN [row[m] EXCEPT !.moved = TRUE]
                 ELSE IF NeedsBackoff(m)
                 THEN [row[m] EXCEPT !.wait = Backoff(row[m].attempts), !.token = None, !.age = 0]
                 ELSE row[m]]
    /\ UNCHANGED <<events, delivery, batch, handed, held>>

(* An operator replays a DLQ entry: INSERT of a second outbox row for the  *)
(* same event, then DELETE of the entry.  While the event has its row,     *)
(* which nothing ever deletes, event_id UNIQUE makes the INSERT throw and  *)
(* the transaction rolls back.                                             *)
ReplayDlqEntry(m) ==
    /\ m \in dlq
    /\ row' = IF m \in events THEN row ELSE [row EXCEPT ![m] = NewRow]
    /\ dlq' = IF m \in events THEN dlq ELSE dlq \ {m}
    /\ UNCHANGED <<events, delivery, batch, handed, held>>

-----------------------------------------------------------------------------
(* The delivery port.                                                      *)
DeliveryClaimable(m) ==
    /\ delivery[m].inserted
    /\ ~delivery[m].acked
    /\ ~delivery[m].moved
    /\ delivery[m].wait = 0
    /\ delivery[m].token = None \/ delivery[m].age >= ClaimTTL

\* The port does not compare attempts with its maximum here; counting stops
\* one above the maximum because nothing tells larger numbers apart.
ClaimDeliveries(c, B) ==
    /\ held[c] = {}
    /\ B # {}
    /\ Cardinality(B) <= BatchSize
    /\ \A m \in B : DeliveryClaimable(m)
    /\ delivery' = [m \in Messages |->
                      IF m \in B
                      THEN [delivery[m] EXCEPT
                              !.attempts = IF @ > MaxDeliveries THEN @ ELSE @ + 1,
                              !.age = 0, !.token = c]
                      ELSE delivery[m]]
    /\ held' = [held EXCEPT ![c] = B]
    /\ UNCHANGED <<events, row, dlq, batch, handed>>

\* Fault: the token of the claim is not compared.
HoldsDeliveryUnfenced(c, m) == ~delivery[m].acked /\ ~delivery[m].moved

HoldsDelivery(c, m) ==
    delivery[m].token = c /\ ~delivery[m].acked /\ ~delivery[m].moved

AcknowledgeDelivery(c, m) ==
    /\ m \in held[c]
    /\ delivery' = IF HoldsDelivery(c, m)
                   THEN [delivery EXCEPT ![m].acked = TRUE, ![m].token = None, ![m].age = 0]
                   ELSE delivery
    /\ held' = [held EXCEPT ![c] = @ \ {m}]
    /\ UNCHANGED <<events, row, dlq, batch, handed>>

RetryDelivery(c, m) ==
    /\ m \in held[c]
    /\ delivery' = IF ~HoldsDelivery(c, m) THEN delivery
                   ELSE IF delivery[m].attempts >= MaxDeliveries
                   THEN [delivery EXCEPT ![m].moved = TRUE, ![m].token = None, ![m].age = 0]
                   ELSE [delivery EXCEPT ![m].wait = Backoff(delivery[m].attempts - 1),
                                         ![m].token = None, ![m].age = 0]
    /\ held' = [held EXCEPT ![c] = @ \ {m}]
    /\ UNCHANGED <<events, row, dlq, batch, handed>>

ConsumerCrash(c) ==
    /\ held[c] # {}
    /\ held' = [held EXCEPT ![c] = {}]
    /\ UNCHANGED <<events, row, dlq, delivery, batch, handed>>

-----------------------------------------------------------------------------
\* One unit of time: waits run down, claims grow older.
Older(r) ==
    [r EXCEPT !.wait = Positive(@ - 1),
              !.age = IF r.token = None \/ @ = AgeCap THEN @ ELSE @ + 1]

Tick ==
    /\ row' = [m \in Messages |-> Older(row[m])]
    /\ delivery' = [m \in Messages |-> Older(delivery[m])]
    /\ <<row, delivery>>' # <<row, delivery>>
    /\ UNCHANGED <<events, dlq, batch, handed, held>>

PublisherStep(p) ==
    \/ \E m \in Messages : PublishDelivery(p, m) \/ RetryOutbox(p, m)
    \/ MarkOutboxPublished(p)

ConsumerStep(c) ==
    \E m \in Messages : AcknowledgeDelivery(c, m) \/ RetryDelivery(c, m)

Next ==
    \/ \E m \in Messages : WriteEvent(m) \/ ReplayDlqEntry(m)
    \/ \E p \in Publishers :
          \/ \E B \in SUBSET Messages : ClaimOutbox(p, B)
          \/ PublisherStep(p)
          \/ PublisherCrash(p)
    \/ \E c \in Consumers :
          \/ \E B \in SUBSET Messages : ClaimDeliveries(c, B)
          \/ ConsumerStep(c)
          \/ ConsumerCrash(c)
    \/ SweepOutboxDlq
    \/ Tick

Spec == Init /\ [][Next]_vars

ClaimOf(m) == \E p \in Publishers, B \in SUBSET Messages : m \in B /\ ClaimOutbox(p, B)

(* Time passes, live publishers work through their batches and the sweep   *)
(* is repeated.  A row that is due again and again is claimed in the end:  *)
(* the publisher polls every second and takes the oldest rows first, the   *)
(* sweep that pushes due rows back runs every five seconds.  Nothing keeps *)
(* a publisher from crashing in every batch.                               *)
FairSpec ==
    /\ Spec
    /\ WF_vars(Tick)
    /\ WF_vars(SweepOutboxDlq)
    /\ \A p \in Publishers : WF_vars(PublisherStep(p))
    /\ \A m \in Messages : SF_vars(ClaimOf(m))

-----------------------------------------------------------------------------
(* Properties.                                                             *)

\* Every row, delivery and local variable has its type.
TypeOK ==
    /\ events \subseteq Messages
    /\ row \in [Messages ->
                  [attempts : 0 .. MaxAttempts, wait : Nat, age : 0 .. AgeCap,
                   token : Publishers \cup {None}, published : BOOLEAN, moved : BOOLEAN]]
    /\ dlq \subseteq Messages
    /\ delivery \in [Messages ->
                       [attempts : 0 .. MaxDeliveries + 1, wait : Nat, age : 0 .. AgeCap,
                        token : Consumers \cup {None},
                        inserted : BOOLEAN, acked : BOOLEAN, moved : BOOLEAN]]
    /\ batch \in [Publishers -> SUBSET Messages]
    /\ handed \in [Publishers -> Messages \cup {None}]
    /\ held \in [Consumers -> SUBSET Messages]

(* No event is lost between the two tables: whatever publishers died or    *)
(* overtook each other, a row marked published has its delivery, a row the *)
(* sweep gave up on has its DLQ entry, and every other row can still be    *)
(* claimed or is waiting for the sweep.                                    *)
NoEventLost ==
    \A m \in events :
        /\ row[m].published => delivery[m].inserted
        /\ row[m].moved <=> m \in dlq
        /\ (row[m].attempts = MaxAttempts /\ row[m].token = None)
              => row[m].published \/ row[m].moved \/ Exhausted(m)

(* A claim that is younger than the 60 s is only ended by its holder: no   *)
(* publisher working under an older token, and no sweep, takes the row     *)
(* away or declares it dead while its holder may be delivering it.         *)
LiveClaimUntouched ==
    [][\A m \in Messages : \A p \in Publishers :
          (row[m].token = p /\ row[m].age < ClaimTTL)
             => /\ row'[m].token # p => m \in batch[p] \ batch'[p]
                /\ row'[m].moved = row[m].moved]_vars

(* A delivery ends once: when it is acknowledged or given up, it is by the *)
(* consumer that claimed it last, and from then on nothing about it        *)
(* changes and nobody is handed it again.                                  *)
DeliveryEndsOnce ==
    [][\A m \in Messages :
          /\ (delivery'[m].acked \/ delivery'[m].moved) /\ ~delivery[m].acked /\ ~delivery[m].moved
                => \E c \in Consumers : /\ delivery[m].token = c
                                        /\ m \in held[c] \ held'[c]
          /\ delivery[m].acked \/ delivery[m].moved
                => delivery'[m].acked = delivery[m].acked /\ delivery'[m].token = None]_vars

R == INSTANCE Relay WITH
        sent <- events,
        delivered <- {m \in Messages : delivery[m].inserted},
        confirmed <- {m \in Messages : row[m].published},
        buried <- dlq

(* The outbox with its claims, timeouts and crashes implements the relay:  *)
(* confirmed only after delivered, buried only while unconfirmed, nothing  *)
(* taken back.                                                             *)
ImplementsRelay == R!Spec

(* Every event the kernel writes is in the end published or in the         *)
(* dead-letter queue, even if publishers crash in every batch: attempts    *)
(* are counted when a row is claimed, so a poison message cannot keep      *)
(* publishers busy for ever.                                               *)
EventuallySettled ==
    \A m \in Messages : m \in events ~> (row[m].published \/ m \in dlq)
=============================================================================
