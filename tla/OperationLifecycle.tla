------------------------- MODULE OperationLifecycle -------------------------
(***************************************************************************)
(* The pure part of server/internal/domain/operation.go: the statuses of   *)
(* an operation and of its items, the table of permitted transitions, and  *)
(* the classification of a finished operation.  Timestamps, counters and   *)
(* messages are left out; a status keeps the spelling it has in the code.  *)
(***************************************************************************)

OperationTypes == {"PRECHECK", "START", "SHUTDOWN", "RESTORE"}

OperationStatuses ==
    {"QUEUED", "VALIDATING", "RUNNING", "WAITING_PVE", "VERIFYING",
     "SUCCEEDED", "PARTIALLY_SUCCEEDED", "FAILED",
     "CANCEL_REQUESTED", "CANCELLED"}

ItemStatuses ==
    {"QUEUED", "RUNNING", "WAITING_PVE", "VERIFYING",
     "SUCCEEDED", "FAILED", "SKIPPED", "UNKNOWN"}

\* Operation statuses the lifecycle never leaves.
TerminalStatuses == {"SUCCEEDED", "PARTIALLY_SUCCEEDED", "FAILED", "CANCELLED"}

\* Item statuses for which there is nothing left to do in the current wave.
SettledStatuses == {"SUCCEEDED", "FAILED", "SKIPPED", "UNKNOWN"}

\* Item statuses of work that is still open.
OpenStatuses == {"QUEUED", "RUNNING", "WAITING_PVE", "VERIFYING"}

OperationTransitions ==
    [s \in OperationStatuses |->
        CASE s = "QUEUED" ->
                {"VALIDATING", "CANCEL_REQUESTED", "FAILED"}
          [] s = "VALIDATING" ->
                {"RUNNING", "CANCEL_REQUESTED", "FAILED"}
          [] s = "RUNNING" ->
                {"WAITING_PVE", "VERIFYING", "SUCCEEDED",
                 "PARTIALLY_SUCCEEDED", "CANCEL_REQUESTED", "FAILED"}
          [] s = "WAITING_PVE" ->
                {"RUNNING", "VERIFYING", "CANCEL_REQUESTED", "FAILED"}
          [] s = "VERIFYING" ->
                {"SUCCEEDED", "PARTIALLY_SUCCEEDED", "FAILED",
                 "CANCEL_REQUESTED"}
          [] s = "CANCEL_REQUESTED" ->
                {"CANCELLED", "SUCCEEDED", "PARTIALLY_SUCCEEDED", "FAILED"}
          [] OTHER -> {}]

\* Operation.Transition accepts a move to the same status, or one in the table.
CanTransition(from, to) == from = to \/ to \in OperationTransitions[from]

\* The terminal status that finalize picks from the set of item statuses: the
\* code compares the counters of RefreshCounts with zero.
FinalStatus(statuses) ==
    IF statuses \cap {"FAILED", "UNKNOWN"} = {}
    THEN "SUCCEEDED"
    ELSE IF statuses \cap {"SUCCEEDED", "SKIPPED"} = {}
         THEN "FAILED"
         ELSE "PARTIALLY_SUCCEEDED"
=============================================================================
