---------------------------- MODULE MCReconcile -----------------------------
(* Instances of Reconcile for TLC.                                         *)
EXTENDS Reconcile, TLC

CONSTANTS e1, e2, d1, d2

\* One unit after every attempt.
FlatDelay(n) == 1
\* The policy's delays in units of 5 s: 30 s, then 60 s.
PolicyDelay(n) == IF n = 1 THEN 6 ELSE 12
=============================================================================
