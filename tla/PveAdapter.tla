------------------------------ MODULE PveAdapter ------------------------------
(***************************************************************************)
(* HTTPAdapter of server/internal/pve: the Submit and the Wait of one      *)
(* item, the classification of everything that may go wrong on the way,    *)
(* and what Runner.execute makes of it.                                    *)
(*                                                                         *)
(* A mutation that has left the adapter may be taken by PVE at any later   *)
(* time, whether the adapter still listens or not, until PVE has refused   *)
(* it.  An HTTP request ends by the request timeout at the latest.         *)
(***************************************************************************)
EXTENDS Naturals

CONSTANTS
    Requests,    \* what the runner asks for: records as in RequestRecords
    Places,      \* what the managed pool may say of the virtual machine
    Statuses,    \* HTTP statuses other than 2xx that PVE may answer with
    MaxCancels   \* bound: how often a waiting worker process ends

NoNode == "no node"
BadNode == "bad node"
NotQemu == "not qemu"
Outside == "outside"
NoPlace == {NoNode, BadNode, NotQemu, Outside}

RequestRecords ==
    [type : {"PRECHECK", "START", "SHUTDOWN", "RESTORE"}, vmid : {"valid", "invalid"},
     cluster : {"own", "other"}, snapshot : {"valid", "invalid"}, node : STRING]

ASSUME PveAssumption ==
    /\ Requests \subseteq RequestRecords
    /\ Places \subseteq STRING
    /\ Statuses \subseteq 300 .. 599
    /\ MaxCancels \in Nat

VARIABLES
    request,  \* pve.Request
    place,    \* where the pool has the machine
    at,       \* how far the calls are
    ctx,      \* the context of the call: live, expired or cancelled
    wire,     \* the mutation: none, sent, or gone when PVE will never take it
    task,     \* the task PVE made of it
    upid,     \* whether the caller was given a UPID
    error,    \* the error returned last
    item,     \* OperationItem.Status
    cancels   \* how many waiting workers have ended

server == <<wire, task>>
vars == <<request, place, at, ctx, wire, task, upid, error, item, cancels>>
-----------------------------------------------------------------------------
(* Errors: the purpose of a request is preflight, mutation or poll.          *)

\* deadline: the cause is context.DeadlineExceeded.
Error(code, retryable, certain, deadline) ==
    [code |-> code, retryable |-> retryable, certain |-> certain, deadline |-> deadline]
NoError == Error("none", FALSE, FALSE, FALSE)

NewCertainError(code, retryable) == Error(code, retryable, TRUE, FALSE)
UncertainError == Error("OUTCOME_UNCERTAIN", FALSE, FALSE, FALSE)

ContextError(certain, retryable) ==
    IF ctx = "expired" THEN Error("TIMEOUT", retryable, certain, TRUE)
                       ELSE Error("CANCELLED", FALSE, certain, FALSE)

\* Mutation: what timed out may be tried again, whatever it was.
Mut_TimeoutRetryable(trouble, purpose) ==
    CASE trouble = "tls"       -> Error("TLS", FALSE, TRUE, FALSE)
      [] trouble = "timeout"   -> Error("TIMEOUT", TRUE, purpose = "preflight", TRUE)
      [] trouble = "cancelled" -> Error("CANCELLED", FALSE, purpose = "preflight", FALSE)
      [] trouble = "broken"    -> Error("UNAVAILABLE", purpose # "mutation",
                                        purpose = "preflight", FALSE)

TransportError(trouble, purpose) ==
    CASE trouble = "tls"       -> Error("TLS", FALSE, TRUE, FALSE)
      [] trouble = "timeout"   -> Error("TIMEOUT", purpose # "mutation",
                                        purpose = "preflight", TRUE)
      [] trouble = "cancelled" -> Error("CANCELLED", FALSE, purpose = "preflight", FALSE)
      [] trouble = "broken"    -> Error("UNAVAILABLE", purpose # "mutation",
                                        purpose = "preflight", FALSE)

\* Statuses with a meaning of their own, and their error codes.
Explicit == {400, 401, 403, 404, 405, 409, 422}
ExplicitCode(status, purpose) ==
    CASE status = 401 -> "AUTHENTICATION"
      [] status = 403 -> "PERMISSION"
      [] status = 404 -> IF purpose = "poll" THEN "UNKNOWN_TASK" ELSE "NOT_FOUND"
      [] OTHER        -> "INVALID"

Transient(status) == status \in {408, 429} \/ status >= 500

\* Mutation: every status is an explicit rejection.
Mut_AnyStatusCertain(status, purpose) ==
    IF status \in Explicit
    THEN Error(ExplicitCode(status, purpose), FALSE, purpose # "poll", FALSE)
    ELSE Error(IF status = 408 THEN "TIMEOUT" ELSE "UNAVAILABLE",
               purpose # "mutation" /\ Transient(status), purpose # "poll", FALSE)

HttpStatusError(status, purpose) ==
    IF status \in Explicit
    THEN Error(ExplicitCode(status, purpose), FALSE, purpose # "poll", FALSE)
    ELSE Error(IF status = 408 THEN "TIMEOUT" ELSE "UNAVAILABLE",
               purpose # "mutation" /\ Transient(status), purpose = "preflight", FALSE)

\* A 2xx answer that is too large, no JSON, without data or cut off, the last perhaps
\* by the deadline of the call, which is then the cause of the error.
UnusableAnswers(purpose) ==
    LET err == IF purpose = "mutation" THEN UncertainError
               ELSE Error("UNAVAILABLE", TRUE, purpose = "preflight", FALSE)
    IN {[err EXCEPT !.deadline = expired] : expired \in BOOLEAN}

\* Without an answer; a cancellation takes a cancelled context.
Troubles == {"timeout", "broken"} \cup (IF ctx = "cancelled" THEN {"cancelled"} ELSE {})

\* Every way in which reading from PVE may fail.
ReadErrors(purpose) ==
    {TransportError(trouble, purpose) : trouble \in Troubles \cup {"tls"}}
        \cup {HttpStatusError(status, purpose) : status \in Statuses}
        \cup UnusableAnswers(purpose)

OutcomeUncertain(err) ==
    /\ ~err.certain
    /\ err.code \in {"UNAVAILABLE", "TIMEOUT", "CANCELLED", "UNKNOWN_TASK",
                     "OUTCOME_UNCERTAIN"}
-----------------------------------------------------------------------------
(* Submit.                                                                   *)

\* Mutation: the runner tells a timeout from a refusal, but not a lost answer.
Mut_OnlyTimeoutUnknown(err) ==
    /\ error' = err
    /\ at' = "done"
    /\ item' = IF ctx = "cancelled" THEN item ELSE
               IF err.deadline THEN "UNKNOWN" ELSE "FAILED"

\* Submit returns an error: the runner stops when its own context is cancelled,
\* or else the item is UNKNOWN or FAILED.
NotSubmitted(err) ==
    /\ error' = err
    /\ at' = "done"
    /\ item' = IF ctx = "cancelled" THEN item ELSE
               IF err.deadline \/ OutcomeUncertain(err) THEN "UNKNOWN" ELSE "FAILED"

\* Mutation: the UPID is not saved with the state.
Mut_UpidNotSaved ==
    /\ IF ctx = "cancelled"
       THEN at' = "done" /\ UNCHANGED <<ctx, item>>
       ELSE at' = "known" /\ ctx' = "live" /\ item' = "WAITING_PVE"
    /\ UNCHANGED <<error, upid>>

\* Submit returns a UPID; the runner saves it, unless its context is cancelled,
\* and waits with a new deadline.
Submitted ==
    /\ IF ctx = "cancelled"
       THEN at' = "done" /\ UNCHANGED <<ctx, upid, item>>
       ELSE at' = "known" /\ ctx' = "live" /\ upid' = TRUE /\ item' = "WAITING_PVE"
    /\ UNCHANGED error

Malformed ==
    \/ request.type = "RESTORE" /\ request.snapshot = "invalid"
    \/ request.node = BadNode

\* What is wrong before PVE is asked anything.
CheckError ==
    IF ctx # "live" THEN ContextError(TRUE, FALSE)
    ELSE IF request.vmid = "invalid" THEN NewCertainError("INVALID", FALSE)
    ELSE IF request.cluster = "other" THEN NewCertainError("OUT_OF_SCOPE", FALSE)
    ELSE IF Malformed THEN NewCertainError("INVALID", FALSE)
    ELSE NoError

\* The checks, after which the pool is asked for.
Check ==
    /\ at = "submit"
    /\ IF CheckError = NoError THEN at' = "pool" /\ UNCHANGED <<error, item>>
                               ELSE NotSubmitted(CheckError)
    /\ UNCHANGED <<request, place, ctx, server, upid, cancels>>

PoolFails ==
    /\ at = "pool"
    /\ \E err \in ReadErrors("preflight") : NotSubmitted(err)
    /\ UNCHANGED <<request, place, ctx, server, upid, cancels>>

\* Mutation: the node of the request is not compared with the pool.
Mut_NodeNotCompared == place \notin NoPlace

\* resolveManagedVMNode finds the machine, where the request has it.
Managed == place \notin NoPlace /\ request.node \in {NoNode, place}

\* The pool answers.
Resolve ==
    /\ at = "pool"
    /\ \/ ~Managed /\ place = BadNode /\ NotSubmitted(NewCertainError("UNAVAILABLE", TRUE))
       \/ ~Managed /\ place # BadNode
            /\ NotSubmitted(NewCertainError("OUT_OF_SCOPE", FALSE))
       \/ Managed /\ at' = "ready" /\ UNCHANGED <<error, item>>
    /\ UNCHANGED <<request, place, ctx, server, upid, cancels>>

\* A precheck is a task that only Wait performs.
Precheck ==
    /\ at = "ready"
    /\ request.type = "PRECHECK"
    /\ Submitted
    /\ UNCHANGED <<request, place, server, cancels>>

\* submitTask: the mutation leaves the adapter, if its time is not over.
Post ==
    /\ at = "ready"
    /\ request.type # "PRECHECK"
    /\ IF ctx = "live"
       THEN at' = "post" /\ wire' = "sent" /\ UNCHANGED <<error, item>>
       ELSE NotSubmitted(ContextError(FALSE, FALSE)) /\ UNCHANGED wire
    /\ UNCHANGED <<request, place, ctx, task, upid, cancels>>

\* No answer, or one that says nothing certain; PVE may have the request or not.
PostLost ==
    /\ at = "post"
    /\ \E err \in
            {TransportError(trouble, "mutation") : trouble \in Troubles}
            \cup {HttpStatusError(status, "mutation") : status \in Statuses \ Explicit}
            \cup UnusableAnswers("mutation") :
        NotSubmitted(err)
    /\ UNCHANGED <<request, place, ctx, server, upid, cancels>>

\* PVE refuses explicitly, or the connection was never made.
PostRefused ==
    /\ at = "post"
    /\ task = "none"
    /\ wire' = "gone"
    /\ \E err \in {HttpStatusError(status, "mutation") : status \in Statuses \cap Explicit}
                  \cup {TransportError("tls", "mutation")} :
        NotSubmitted(err)
    /\ UNCHANGED <<request, place, ctx, task, upid, cancels>>

\* A 2xx answer with data: a UPID, or something else.
PostAnswered ==
    /\ at = "post"
    /\ \/ task # "none" /\ Submitted
       \/ NotSubmitted(UncertainError) /\ UNCHANGED <<ctx, upid>>
    /\ UNCHANGED <<request, place, server, cancels>>
-----------------------------------------------------------------------------
(* Wait.                                                                     *)

\* Wait returns an error.  A worker whose context is cancelled ends, and another
\* one waits for the saved UPID; otherwise the item is UNKNOWN.
NotKnown(err) ==
    /\ error' = err
    /\ IF ctx = "cancelled"
       THEN at' = "known" /\ ctx' = "live" /\ UNCHANGED item
       ELSE at' = "done" /\ item' = "UNKNOWN" /\ UNCHANGED ctx

\* Wait returns a result, which a worker with a cancelled context cannot save.
Known(result) ==
    /\ IF ctx = "cancelled"
       THEN at' = "known" /\ ctx' = "live" /\ UNCHANGED item
       ELSE at' = "done" /\ item' = result /\ UNCHANGED ctx
    /\ UNCHANGED error

\* Mutation: a poll does not look at the deadline of the call.
Mut_DeadlineIgnored ==
    /\ at = "known"
    /\ at' = "poll"
    /\ UNCHANGED <<request, place, ctx, server, upid, error, item, cancels>>

\* The status of the task, or of the machine for a precheck, is asked for.
Ask ==
    /\ at = "known"
    /\ IF ctx = "live" THEN at' = "poll" /\ UNCHANGED <<error, item, ctx>>
                       ELSE NotKnown(ContextError(FALSE, TRUE))
    /\ UNCHANGED <<request, place, server, upid, cancels>>

\* Wait tries again until the deadline if the error allows it, waitPrecheck never.
PollFails ==
    /\ at = "poll"
    /\ \E err \in ReadErrors("poll") :
        IF ctx = "live" /\ err.retryable /\ request.type # "PRECHECK"
        THEN at' = "sleep" /\ UNCHANGED <<error, item, ctx>>
        ELSE NotKnown(IF ctx = "live" THEN err ELSE ContextError(FALSE, TRUE))
    /\ UNCHANGED <<request, place, server, upid, cancels>>

\* Mutation: a task that has stopped counts as done.
Mut_StoppedIsDone ==
    /\ at = "poll"
    /\ \/ request.type = "PRECHECK" /\ Known("SUCCEEDED")
       \/ request.type # "PRECHECK" /\ at' = "sleep" /\ UNCHANGED <<error, item, ctx>>
       \/ request.type # "PRECHECK" /\ task \in {"ok", "failed"} /\ Known("SUCCEEDED")
       \/ NotKnown(UncertainError)
    /\ UNCHANGED <<request, place, server, upid, cancels>>

\* A machine with a status passes the precheck.  A task is still running, when it
\* was asked, or stopped with its exit status; an answer may lack that, or the
\* status, or have one nobody knows.
PollAnswered ==
    /\ at = "poll"
    /\ \/ request.type = "PRECHECK" /\ Known("SUCCEEDED")
       \/ request.type # "PRECHECK" /\ at' = "sleep" /\ UNCHANGED <<error, item, ctx>>
       \/ request.type # "PRECHECK" /\ task = "ok" /\ Known("SUCCEEDED")
       \/ request.type # "PRECHECK" /\ task = "failed" /\ Known("FAILED")
       \/ NotKnown(UncertainError)
    /\ UNCHANGED <<request, place, server, upid, cancels>>

\* sleepContext; when the deadline passes as the sleep ends, either may win.
Sleep ==
    /\ at = "sleep"
    /\ \/ at' = "known" /\ UNCHANGED <<error, item, ctx>>
       \/ ctx # "live" /\ NotKnown(ContextError(FALSE, TRUE))
    /\ UNCHANGED <<request, place, server, upid, cancels>>
-----------------------------------------------------------------------------
(* The world around the adapter.                                             *)

\* The deadline of the call passes, SubmitTimeout or TaskTimeout.
Expire ==
    /\ at # "done" /\ ctx = "live"
    /\ ctx' = "expired"
    /\ UNCHANGED <<request, place, at, server, upid, error, item, cancels>>

\* The worker process shuts down.
Cancel ==
    /\ at # "done" /\ ctx = "live"
    /\ cancels < MaxCancels
    /\ cancels' = cancels + 1
    /\ ctx' = "cancelled"
    /\ UNCHANGED <<request, place, at, server, upid, error, item>>

\* PVE takes the mutation, however late, or refuses it; its task ends.
PveTakes ==
    /\ wire = "sent" /\ task = "none"
    /\ \/ task' = "running" /\ UNCHANGED wire
       \/ wire' = "gone" /\ UNCHANGED task
    /\ UNCHANGED <<request, place, at, ctx, upid, error, item, cancels>>

PveEnds ==
    /\ task = "running"
    /\ task' \in {"ok", "failed"}
    /\ UNCHANGED <<request, place, at, ctx, wire, upid, error, item, cancels>>
-----------------------------------------------------------------------------
Init ==
    /\ request \in Requests
    /\ place \in Places
    /\ at = "submit"
    /\ ctx = "live"
    /\ wire = "none" /\ task = "none"
    /\ upid = FALSE
    /\ error = NoError
    /\ item = "RUNNING"
    /\ cancels = 0

Submit ==
    Check \/ PoolFails \/ Resolve \/ Precheck \/ Post
        \/ PostLost \/ PostRefused \/ PostAnswered
Wait == Ask \/ PollFails \/ PollAnswered \/ Sleep

Next == Submit \/ Wait \/ Expire \/ Cancel \/ PveTakes \/ PveEnds

\* The adapter goes on, as its requests and its sleep end by a timeout, and
\* deadlines pass.
Fairness == WF_vars(Submit \/ Wait) /\ WF_vars(Expire)

Spec == Init /\ [][Next]_vars /\ Fairness
-----------------------------------------------------------------------------
Codes == {"none", "UNAVAILABLE", "AUTHENTICATION", "PERMISSION", "OUT_OF_SCOPE",
          "INVALID", "NOT_FOUND", "TLS", "TIMEOUT", "CANCELLED", "UNKNOWN_TASK",
          "OUTCOME_UNCERTAIN"}
Errors == [code : Codes, retryable : BOOLEAN, certain : BOOLEAN, deadline : BOOLEAN]

\* Every variable has its values; a mutation has a task only once it was sent, and
\* the runner waits only for a task whose UPID it has saved.
TypeOK ==
    /\ request \in Requests
    /\ place \in Places
    /\ at \in {"submit", "pool", "ready", "post", "known", "poll", "sleep", "done"}
    /\ ctx \in {"live", "expired", "cancelled"}
    /\ wire \in {"none", "sent", "gone"}
    /\ task \in {"none", "running", "ok", "failed"}
    /\ task # "none" => wire = "sent"
    /\ upid \in BOOLEAN
    /\ error \in Errors
    /\ item \in {"RUNNING", "WAITING_PVE", "SUCCEEDED", "FAILED", "UNKNOWN"}
    /\ at \in {"known", "poll", "sleep"} \/ item = "WAITING_PVE" => upid
    /\ cancels \in Nat
-----------------------------------------------------------------------------
(* What the runner relies on.                                                *)

\* PVE may yet take the mutation, or has taken it.
MayHappen == wire = "sent"

\* adapter.go 62-65 and 85-86: an error of Submit whose outcome is certain says
\* that PVE has not accepted the request, and it never will.
CertainIsHarmless ==
    error # NoError /\ ~upid /\ ~OutcomeUncertain(error) => ~MayHappen

\* http_test.go 282: what may have reached PVE "must not be blindly retried".
RetryableIsHarmless == error.retryable /\ ~upid => ~MayHappen

\* Nothing is sent for a machine that the pool does not have on the node the
\* request names, for another cluster, or for a precheck.
OnlyManaged ==
    wire # "none" =>
        /\ request.cluster = "own" /\ request.vmid = "valid"
        /\ request.type # "PRECHECK"
        /\ place \notin NoPlace /\ request.node \in {NoNode, place}

\* The request as OperationRunner sees it: what has been called FAILED counts as
\* refused, and a precheck is a task that runs from the UPID on.
CallState ==
    IF request.type = "PRECHECK"
    THEN CASE item = "FAILED" -> "refused"
           [] item = "SUCCEEDED" -> "ok"
           [] OTHER -> IF upid THEN "running" ELSE "sent"
    ELSE CASE task # "none" -> task
           [] task = "none" -> IF wire = "gone" \/ item = "FAILED"
                               THEN "refused" ELSE "sent"

\* The adapter with the classification of the runner is what OperationRunner
\* takes for granted of PVE.
Promise == INSTANCE PveCall WITH state <- CallState
IsPveCall == Promise!CallSpec

\* Submit and Wait return, in the end to a worker that is not cancelled.
EveryCallEnds == <>(at = "done")
=============================================================================
