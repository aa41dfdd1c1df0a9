--------------------------- MODULE MCEffectBroker ---------------------------
(* Instances of EffectBroker for TLC.                                      *)
EXTENDS EffectBroker, TLC

CONSTANTS r1, a, w1, w2

\* One run of one step.
OneRunOf == a :> r1
OneDeps == a :> {}

WorkerSymmetry == Permutations(Workers)
=============================================================================
