------------------------------ MODULE MCTimers ------------------------------
(* Instances of Timers for TLC.                                            *)
EXTENDS Timers, TLC

CONSTANTS t1, s1, w1, w2

\* A timer for one step.
OneStepOf == t1 :> s1
OneRunOf == s1 :> 1
=============================================================================
