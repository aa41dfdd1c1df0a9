----------------------------- MODULE Resolution -----------------------------
(***************************************************************************)
(* What reconciliation promises for an effect whose outcome is unknown,    *)
(* without claims, clocks or daemons: the outcome is looked up a bounded   *)
(* number of times; a look-up decides, spends one of the attempts or, when *)
(* it is the last one, hands the effect to a human; whatever was decided   *)
(* is never decided again.                                                 *)
(***************************************************************************)
EXTENDS Naturals

CONSTANTS Effects, Attempts

VARIABLES
    verdict,   \* what is known of the effect
    left       \* the look-ups it has left

resolutionVars == <<verdict, left>>

Verdicts == {"COMPLETED", "CONFIRMED_NOT_APPLIED"}

Init ==
    /\ verdict = [e \in Effects |-> "ADMITTED"]
    /\ left = [e \in Effects |-> Attempts]

Lose(e) ==
    /\ verdict[e] = "ADMITTED"
    /\ verdict' = [verdict EXCEPT ![e] = "COMPLETION_UNKNOWN"]
    /\ UNCHANGED left

Decide(e, v) ==
    /\ verdict[e] = "COMPLETION_UNKNOWN"
    /\ verdict' = [verdict EXCEPT ![e] = v]
    /\ UNCHANGED left

Spend(e) ==
    /\ verdict[e] = "COMPLETION_UNKNOWN"
    /\ left[e] > 1
    /\ left' = [left EXCEPT ![e] = @ - 1]
    /\ UNCHANGED verdict

\* With or without a look-up that failed just before.
Escalate(e) ==
    /\ verdict[e] = "COMPLETION_UNKNOWN"
    /\ verdict' = [verdict EXCEPT ![e] = "ESCALATED"]
    /\ \/ UNCHANGED left
       \/ left[e] > 0 /\ left' = [left EXCEPT ![e] = @ - 1]

Next ==
    \E e \in Effects :
        \/ Lose(e) \/ Spend(e) \/ Escalate(e)
        \/ \E v \in Verdicts : Decide(e, v)

Spec == Init /\ [][Next]_resolutionVars
=============================================================================
