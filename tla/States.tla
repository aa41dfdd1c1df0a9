------------------------------- MODULE States -------------------------------
(***************************************************************************)
(* The canonical state machines of runs and steps                          *)
(* (packages/contracts/src/states.ts), which every other module uses.      *)
(***************************************************************************)

RunStates == {"PENDING", "RUNNING", "PAUSED", "SUCCEEDED", "FAILED",
              "CANCELLED", "COMPENSATING", "COMPENSATED"}

RunTerminal == {"SUCCEEDED", "FAILED", "CANCELLED", "COMPENSATED"}

StepStates == {"PENDING", "RUNNING", "WAITING_FOR_HUMAN",
               "WAITING_FOR_RECONCILIATION", "RETRY_WAIT",
               "SUCCEEDED", "FAILED", "CANCELLED", "SKIPPED"}

StepTerminal == {"SUCCEEDED", "FAILED", "CANCELLED", "SKIPPED"}

\* RUN_TRANSITIONS: assertRunTransition(from, to) throws outside this relation.
RunTransition(from, to) ==
    \/ from = "PENDING" /\ to \in {"RUNNING", "PAUSED", "FAILED", "CANCELLED", "COMPENSATING"}
    \/ from = "RUNNING" /\ to \in {"PAUSED", "SUCCEEDED", "FAILED", "CANCELLED", "COMPENSATING"}
    \/ from = "PAUSED" /\ to \in {"RUNNING", "FAILED", "CANCELLED", "COMPENSATING"}
    \/ from = "COMPENSATING" /\ to \in {"COMPENSATED", "FAILED"}

\* STEP_TRANSITIONS: assertStepTransition(from, to) throws outside this relation.
StepTransition(from, to) ==
    \/ from = "PENDING" /\ to \in {"RUNNING", "SKIPPED", "FAILED", "CANCELLED"}
    \/ from = "RUNNING" /\ to \in {"WAITING_FOR_HUMAN", "WAITING_FOR_RECONCILIATION",
                                   "RETRY_WAIT", "SUCCEEDED", "FAILED", "CANCELLED"}
    \/ from = "WAITING_FOR_HUMAN" /\ to \in {"RUNNING", "RETRY_WAIT", "FAILED", "CANCELLED"}
    \/ from = "WAITING_FOR_RECONCILIATION" /\ to \in {"SUCCEEDED", "FAILED", "CANCELLED"}
    \/ from = "RETRY_WAIT" /\ to \in {"RUNNING", "FAILED", "CANCELLED"}
=============================================================================
