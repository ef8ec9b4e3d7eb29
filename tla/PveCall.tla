------------------------------- MODULE PveCall -------------------------------
(***************************************************************************)
(* What the runner relies on when it asks PVE for something: one Submit    *)
(* and one Wait for one item.  These are the steps Accepted, NotAccepted,  *)
(* TaskEnded and Unresolved of OperationRunner, for a single request.      *)
(***************************************************************************)
VARIABLES
    state,  \* of the request: sent, refused (for good), running, ok, failed
    item    \* OperationItem.Status

callVars == <<state, item>>

CallInit == state = "sent" /\ item = "RUNNING"

\* PVE takes a request at any time, or refuses it, and its task ends.
PveAnswers ==
    /\ \/ state = "sent" /\ state' \in {"running", "refused"}
       \/ state = "running" /\ state' \in {"ok", "failed"}
    /\ UNCHANGED item

\* The UPID is that of a task.
Accepted ==
    /\ item = "RUNNING"
    /\ state # "refused"
    /\ state' = IF state = "sent" THEN "running" ELSE state
    /\ item' = "WAITING_PVE"

\* FAILED without a UPID: PVE has not taken the request and never will.
Rejected ==
    /\ item = "RUNNING"
    /\ state \in {"sent", "refused"}
    /\ state' = "refused"
    /\ item' = "FAILED"

\* The result is that of the task.
Ended ==
    /\ item = "WAITING_PVE"
    /\ \/ state = "running" /\ state' \in {"ok", "failed"}
       \/ state \in {"ok", "failed"} /\ UNCHANGED state
    /\ item' = IF state' = "ok" THEN "SUCCEEDED" ELSE "FAILED"

\* Nobody knows, which may be said at any time.
Uncertain ==
    /\ item \in {"RUNNING", "WAITING_PVE"}
    /\ item' = "UNKNOWN"
    /\ UNCHANGED state

CallNext == PveAnswers \/ Accepted \/ Rejected \/ Ended \/ Uncertain

CallSpec == CallInit /\ [][CallNext]_callVars
=============================================================================
