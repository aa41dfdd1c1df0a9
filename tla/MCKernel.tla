------------------------------ MODULE MCKernel ------------------------------
(* Instances of Kernel for TLC.                                            *)
EXTENDS Kernel, TLC

CONSTANTS r1, r2, a, b, c, w1, w2

\* One run of one step.
OneRunOf == a :> r1
OneDeps == a :> {}
\* One run, two independent steps.
FlatRunOf == (a :> r1) @@ (b :> r1)
FlatDeps == (a :> {}) @@ (b :> {})
\* One run, b after a.
ChainDeps == (a :> {}) @@ (b :> {a})
\* Two runs of one step each.
TwoRunOf == (a :> r1) @@ (b :> r2)
=============================================================================
