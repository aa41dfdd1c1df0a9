------------------------------ MODULE MCOutbox ------------------------------
(* Instances of Outbox for TLC.                                            *)
EXTENDS Outbox, TLC

CONSTANTS m1, m2, p1, p2, c1, c2

Doubling(n) == 2^n

OutboxSymmetry == Permutations(Messages) \cup Permutations(Publishers)
=============================================================================
