------------------------------- MODULE Relay --------------------------------
(***************************************************************************)
(* What the transactional outbox promises, without claims, tokens, clocks  *)
(* or dead processes: a message that was sent may be handed to the         *)
(* delivery table again and again, but it is confirmed only after it was   *)
(* handed over, it is buried only while nobody confirmed it, and nothing   *)
(* that happened to it is ever taken back.                                 *)
(***************************************************************************)
CONSTANT Messages

VARIABLES sent, delivered, confirmed, buried

relayVars == <<sent, delivered, confirmed, buried>>

Init ==
    /\ sent = {}
    /\ delivered = {}
    /\ confirmed = {}
    /\ buried = {}

Send(m) ==
    /\ m \notin sent
    /\ sent' = sent \cup {m}
    /\ UNCHANGED <<delivered, confirmed, buried>>

Deliver(m) ==
    /\ m \in sent
    /\ delivered' = delivered \cup {m}
    /\ UNCHANGED <<sent, confirmed, buried>>

Confirm(m) ==
    /\ m \in delivered \ confirmed
    /\ confirmed' = confirmed \cup {m}
    /\ UNCHANGED <<sent, delivered, buried>>

Bury(S) ==
    /\ S \subseteq sent \ (confirmed \cup buried)
    /\ buried' = buried \cup S
    /\ UNCHANGED <<sent, delivered, confirmed>>

Next ==
    \/ \E m \in Messages : Send(m) \/ Deliver(m) \/ Confirm(m)
    \/ \E S \in SUBSET Messages : Bury(S)

Spec == Init /\ [][Next]_relayVars
=============================================================================
