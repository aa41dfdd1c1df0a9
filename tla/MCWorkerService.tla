-------------------------- MODULE MCWorkerService ---------------------------
(* Instances of WorkerService for TLC.                                     *)
EXTENDS WorkerService, TLC

CONSTANTS a, p1, p2
=============================================================================
