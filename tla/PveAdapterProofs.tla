--------------------------- MODULE PveAdapterProofs ---------------------------
(***************************************************************************)
(* Proofs about PveAdapter: the classification of errors is safe, and the  *)
(* adapter implements PveCall, for any set of requests, places, statuses   *)
(* and any number of ended workers.                                        *)
(***************************************************************************)
EXTENDS PveAdapter, TLAPS

\* The request passes the checks of Submit that need no answer of PVE.
Checked ==
    /\ request.cluster = "own" /\ request.vmid = "valid"
    /\ request.node # BadNode

\* Until the mutation is sent nothing has happened.
NothingYet ==
    at \in {"submit", "pool", "ready"} =>
        wire = "none" /\ ~upid /\ item = "RUNNING" /\ error = NoError

\* What the steps of Submit have established when the next one is taken.
Progress ==
    /\ at = "pool" => Checked
    /\ at = "ready" => Checked /\ Managed
    /\ at = "post" => /\ wire # "none" /\ ~upid
                      /\ item = "RUNNING" /\ error = NoError
    /\ wire # "none" => Checked /\ Managed /\ request.type # "PRECHECK"

\* Without a UPID, what is said to be certain or FAILED cannot happen any more.
Refusals ==
    ~upid =>
        /\ item \in {"RUNNING", "FAILED", "UNKNOWN"}
        /\ item = "FAILED" => ~MayHappen
        /\ error # NoError /\ ~OutcomeUncertain(error) => ~MayHappen
        /\ error.retryable => ~MayHappen

\* With a UPID there is a task, and the result is that of the task.
Results ==
    upid =>
        /\ item # "RUNNING"
        /\ request.type # "PRECHECK" =>
            /\ task # "none"
            /\ item = "SUCCEEDED" => task = "ok"
            /\ item = "FAILED" => task = "failed"
        /\ request.type = "PRECHECK" => item # "FAILED"

\* Who polls waits for the result of a saved UPID.
Polls == at \in {"known", "poll", "sleep"} => upid /\ item = "WAITING_PVE"

AdapterInv == TypeOK /\ NothingYet /\ Progress /\ Refusals /\ Results /\ Polls
-----------------------------------------------------------------------------
(* Errors.                                                                   *)

Purposes == {"preflight", "mutation", "poll"}

\* Everything that goes wrong has one of the codes of adapter.go.
LEMMA ErrorTypes ==
    ASSUME NEW purpose \in Purposes
    PROVE  /\ \A trouble \in {"tls", "timeout", "cancelled", "broken"} :
                TransportError(trouble, purpose) \in Errors
           /\ \A status \in Statuses : HttpStatusError(status, purpose) \in Errors
           /\ UnusableAnswers(purpose) \subseteq Errors
           /\ \A certain, retryable \in BOOLEAN :
                ContextError(certain, retryable) \in Errors
<1>1. \A trouble \in {"tls", "timeout", "cancelled", "broken"} :
        TransportError(trouble, purpose) \in Errors
  BY DEF TransportError, Error, Errors, Codes, Purposes
<1>2. ASSUME NEW status \in Statuses
      PROVE  HttpStatusError(status, purpose) \in Errors
  <2>1. (purpose # "mutation" /\ Transient(status)) \in BOOLEAN
    BY DEF Transient
  <2>2. ExplicitCode(status, purpose) \in Codes
    BY DEF ExplicitCode, Codes
  <2>. QED  BY <2>1, <2>2 DEF HttpStatusError, Error, Errors, Codes, Purposes
<1>3. UnusableAnswers(purpose) \subseteq Errors
  BY DEF UnusableAnswers, UncertainError, Error, Errors, Codes, Purposes
<1>4. \A certain, retryable \in BOOLEAN : ContextError(certain, retryable) \in Errors
  BY DEF ContextError, Error, Errors, Codes
<1>. QED  BY <1>1, <1>2, <1>3, <1>4

LEMMA ReadErrorTypes ==
    ASSUME NEW purpose \in Purposes
    PROVE  ReadErrors(purpose) \subseteq Errors
<1>1. Troubles \cup {"tls"} \subseteq {"tls", "timeout", "cancelled", "broken"}
  BY DEF Troubles
<1>. QED  BY <1>1, ErrorTypes DEF ReadErrors

\* A lost answer of a mutation is uncertain, and not to be retried.
LEMMA LostErrors ==
    ASSUME NEW err \in {TransportError(trouble, "mutation") : trouble \in Troubles}
                \cup {HttpStatusError(status, "mutation") : status \in Statuses \ Explicit}
                \cup UnusableAnswers("mutation")
    PROVE  err \in Errors /\ ~err.retryable /\ OutcomeUncertain(err)
<1>1. CASE \E trouble \in Troubles : err = TransportError(trouble, "mutation")
  <2>1. PICK trouble \in {"timeout", "cancelled", "broken"} :
            err = TransportError(trouble, "mutation")
    BY <1>1 DEF Troubles
  <2>. QED  BY <2>1 DEF TransportError, Error, Errors, Codes, OutcomeUncertain
<1>2. CASE \E status \in Statuses \ Explicit : err = HttpStatusError(status, "mutation")
  <2>1. PICK status \in Statuses \ Explicit : err = HttpStatusError(status, "mutation")
    BY <1>2
  <2>2. err \in Errors
    BY <2>1, ErrorTypes DEF Purposes
  <2>3. /\ err.code \in {"TIMEOUT", "UNAVAILABLE"}
        /\ err.certain = FALSE
        /\ err.retryable = ("mutation" # "mutation" /\ Transient(status))
    BY <2>1 DEF HttpStatusError, Error
  <2>. QED  BY <2>2, <2>3 DEF OutcomeUncertain
<1>3. CASE err \in UnusableAnswers("mutation")
  BY <1>3 DEF UnusableAnswers, UncertainError, Error, Errors, Codes, OutcomeUncertain
<1>. QED  BY <1>1, <1>2, <1>3

\* An explicit refusal is certain, and not to be retried.
LEMMA RefusedErrors ==
    ASSUME NEW err \in
                {HttpStatusError(status, "mutation") : status \in Statuses \cap Explicit}
                \cup {TransportError("tls", "mutation")}
    PROVE  /\ err \in Errors
           /\ ~err.retryable /\ ~err.deadline /\ ~OutcomeUncertain(err)
<1>1. CASE \E status \in Statuses \cap Explicit : err = HttpStatusError(status, "mutation")
  <2>1. PICK status \in Statuses \cap Explicit : err = HttpStatusError(status, "mutation")
    BY <1>1
  <2>2. ExplicitCode(status, "mutation") \in Codes
    BY DEF ExplicitCode, Codes
  <2>. QED  BY <2>1, <2>2 DEF HttpStatusError, Error, Errors, OutcomeUncertain
<1>2. CASE err = TransportError("tls", "mutation")
  BY <1>2 DEF TransportError, Error, Errors, Codes, OutcomeUncertain
<1>. QED  BY <1>1, <1>2

\* What Submit says before the mutation is sent, and what it says of an answer
\* that is no UPID.
LEMMA OtherErrors ==
    /\ NoError \in Errors /\ ~NoError.retryable
    /\ CheckError \in Errors
    /\ NewCertainError("UNAVAILABLE", TRUE) \in Errors
    /\ NewCertainError("OUT_OF_SCOPE", FALSE) \in Errors
    /\ UncertainError \in Errors /\ ~UncertainError.retryable
    /\ OutcomeUncertain(UncertainError)
  BY DEF NoError, CheckError, ContextError, NewCertainError, UncertainError, Error,
         Errors, Codes, OutcomeUncertain
-----------------------------------------------------------------------------
(* The invariant.                                                            *)

LEMMA InitInv == Init => AdapterInv
<1>. SUFFICES ASSUME Init PROVE AdapterInv
  OBVIOUS
<1>1. TypeOK
  BY OtherErrors DEF Init, TypeOK
<1>2. NothingYet /\ Progress /\ Results /\ Polls
  BY DEF Init, NothingYet, Progress, Results, Polls
<1>3. Refusals
  BY OtherErrors DEF Init, Refusals
<1>. QED  BY <1>1, <1>2, <1>3 DEF AdapterInv

\* What the environment does keeps the invariant: it never undoes a task, and it
\* takes only what was sent.
LEMMA WorldKeeps ==
    ASSUME AdapterInv, Expire \/ Cancel \/ PveTakes \/ PveEnds
    PROVE  AdapterInv'
<1>1. CASE Expire \/ Cancel
  BY <1>1, PveAssumption DEF AdapterInv, TypeOK, NothingYet, Progress, Refusals,
     Results, Polls, Checked, Managed, MayHappen, Expire, Cancel, server
<1>2. CASE PveTakes \/ PveEnds
  BY <1>2 DEF AdapterInv, TypeOK, NothingYet, Progress, Refusals,
     Results, Polls, Checked, Managed, MayHappen, PveTakes, PveEnds
<1>. QED  BY <1>1, <1>2

\* Submit returns an error: it must not be one that calls certain, or worth a
\* retry, what may happen.
LEMMA NotSubmittedKeeps ==
    ASSUME AdapterInv, at \in {"submit", "pool", "ready", "post"},
           NEW err \in Errors, NotSubmitted(err),
           UNCHANGED <<request, place, ctx, task, upid, cancels>>,
           \/ wire' = wire
           \/ wire = "sent" /\ task = "none" /\ wire' = "gone",
           wire' # "sent" \/ (OutcomeUncertain(err) /\ ~err.retryable)
    PROVE  AdapterInv'
<1>1. ~upid /\ item = "RUNNING"
  BY DEF AdapterInv, NothingYet, Progress
<1>2. TypeOK'
  BY <1>1 DEF AdapterInv, TypeOK, NotSubmitted
<1>3. NothingYet' /\ Progress' /\ Results' /\ Polls'
  BY <1>1 DEF AdapterInv, NothingYet, Progress, Results, Polls, Checked, Managed,
     NotSubmitted
<1>4. Refusals'
  BY <1>1 DEF Refusals, MayHappen, NotSubmitted, OutcomeUncertain
<1>. QED  BY <1>2, <1>3, <1>4 DEF AdapterInv

LEMMA SubmitKeeps ==
    ASSUME AdapterInv, Submit
    PROVE  AdapterInv'
<1>1. CASE Check
  <2>1. CASE CheckError = NoError
    <3>1. request \in RequestRecords
      BY PveAssumption DEF AdapterInv, TypeOK
    <3>2. Checked
      BY <2>1, <3>1 DEF Checked, CheckError, NoError, NewCertainError, ContextError,
         Error, Malformed, RequestRecords
    <3>. QED
      BY <1>1, <2>1, <3>2 DEF Check, AdapterInv, TypeOK, NothingYet, Progress, Refusals,
         Results, Polls, Checked, Managed, MayHappen, server
  <2>2. CASE CheckError # NoError
    BY <1>1, <2>2, OtherErrors, NotSubmittedKeeps
       DEF Check, server, AdapterInv, NothingYet
  <2>. QED  BY <2>1, <2>2
<1>2. CASE PoolFails
  <2>1. PICK err \in ReadErrors("preflight") : NotSubmitted(err)
    BY <1>2 DEF PoolFails
  <2>2. err \in Errors
    BY ReadErrorTypes DEF Purposes
  <2>. QED  BY <1>2, <2>1, <2>2, NotSubmittedKeeps
            DEF PoolFails, server, AdapterInv, NothingYet
<1>3. CASE Resolve
  <2>1. CASE Managed /\ at' = "ready" /\ UNCHANGED <<error, item>>
    BY <1>3, <2>1 DEF Resolve, AdapterInv, TypeOK, NothingYet, Progress, Refusals,
       Results, Polls, Checked, Managed, MayHappen, server
  <2>2. CASE ~Managed
    BY <1>3, <2>2, OtherErrors, NotSubmittedKeeps
       DEF Resolve, server, AdapterInv, NothingYet
  <2>. QED  BY <1>3, <2>1, <2>2 DEF Resolve
<1>4. CASE Precheck
  BY <1>4 DEF Precheck, Submitted, AdapterInv, TypeOK, NothingYet, Progress, Refusals,
     Results, Polls, Checked, Managed, MayHappen, server, NoError, Error
<1>5. CASE Post
  <2>1. CASE ctx = "live"
    BY <1>5, <2>1 DEF Post, AdapterInv, TypeOK, NothingYet, Progress, Refusals,
       Results, Polls, Checked, Managed, MayHappen, NoError, Error
  <2>2. CASE ctx # "live"
    <3>1. ContextError(FALSE, FALSE) \in Errors
      BY ErrorTypes DEF Purposes
    <3>. QED  BY <1>5, <2>2, <3>1, NotSubmittedKeeps DEF Post, AdapterInv, NothingYet
  <2>. QED  BY <2>1, <2>2
<1>6. CASE PostLost
  BY <1>6, LostErrors, NotSubmittedKeeps DEF PostLost, server
<1>7. CASE PostRefused
  BY <1>7, RefusedErrors, NotSubmittedKeeps
     DEF PostRefused, AdapterInv, TypeOK, Progress
<1>8. CASE PostAnswered
  <2>1. CASE task # "none" /\ Submitted
    <3>. USE <1>8, <2>1 DEF PostAnswered, Submitted, AdapterInv, server
    <3>1. TypeOK' /\ NothingYet' /\ Polls'
      BY DEF TypeOK, NothingYet, Polls
    <3>2. Progress'
      BY DEF Progress, Checked, Managed
    <3>3. Results'
      BY DEF Results, Progress
    <3>4. Refusals'
      BY OtherErrors DEF Refusals, Progress
    <3>. QED  BY <3>1, <3>2, <3>3, <3>4
  <2>2. CASE NotSubmitted(UncertainError) /\ UNCHANGED <<ctx, upid>>
    BY <1>8, <2>2, OtherErrors, NotSubmittedKeeps DEF PostAnswered, server
  <2>. QED  BY <1>8, <2>1, <2>2 DEF PostAnswered
<1>. QED  BY <1>1, <1>2, <1>3, <1>4, <1>5, <1>6, <1>7, <1>8 DEF Submit

\* Wait returns, to a worker that goes on or to one that ends and is followed by
\* another one.
LEMMA NotKnownKeeps ==
    ASSUME AdapterInv, upid, item = "WAITING_PVE", NEW err \in Errors, NotKnown(err),
           UNCHANGED <<request, place, server, upid, cancels>>
    PROVE  AdapterInv'
<1>. USE DEF NotKnown, server, AdapterInv
<1>1. TypeOK'
  BY DEF TypeOK
<1>2. NothingYet' /\ Progress' /\ Refusals' /\ Polls'
  BY DEF NothingYet, Progress, Refusals, Polls, Checked, Managed
<1>3. Results'
  BY DEF Results
<1>. QED  BY <1>1, <1>2, <1>3

LEMMA KnownKeeps ==
    ASSUME AdapterInv, upid, item = "WAITING_PVE",
           NEW result \in {"SUCCEEDED", "FAILED"}, Known(result),
           request.type = "PRECHECK" => result = "SUCCEEDED",
           request.type # "PRECHECK" =>
               task = IF result = "SUCCEEDED" THEN "ok" ELSE "failed",
           UNCHANGED <<request, place, server, upid, cancels>>
    PROVE  AdapterInv'
<1>. USE DEF Known, server, AdapterInv
<1>1. TypeOK'
  BY DEF TypeOK
<1>2. NothingYet' /\ Progress' /\ Refusals' /\ Polls'
  BY DEF NothingYet, Progress, Refusals, Polls, Checked, Managed
<1>3. Results'
  BY DEF Results
<1>. QED  BY <1>1, <1>2, <1>3

\* Going on with the loop of Wait.
LEMMA LoopKeeps ==
    ASSUME AdapterInv, upid, item = "WAITING_PVE", at' \in {"known", "poll", "sleep"},
           UNCHANGED <<request, place, ctx, server, upid, error, item, cancels>>
    PROVE  AdapterInv'
  BY DEF AdapterInv, TypeOK, NothingYet, Progress, Refusals, Results, Polls, Checked,
     Managed, MayHappen, server

LEMMA WaitKeeps ==
    ASSUME AdapterInv, Wait
    PROVE  AdapterInv'
<1>1. upid /\ item = "WAITING_PVE"
  BY DEF AdapterInv, Polls, Wait, Ask, PollFails, PollAnswered, Sleep
<1>2. ContextError(FALSE, TRUE) \in Errors
  BY ErrorTypes DEF Purposes
<1>3. CASE Ask
  BY <1>1, <1>2, <1>3, NotKnownKeeps, LoopKeeps DEF Ask
<1>4. CASE PollFails
  <2>1. PICK err \in ReadErrors("poll") :
            IF ctx = "live" /\ err.retryable /\ request.type # "PRECHECK"
            THEN at' = "sleep" /\ UNCHANGED <<error, item, ctx>>
            ELSE NotKnown(IF ctx = "live" THEN err ELSE ContextError(FALSE, TRUE))
    BY <1>4 DEF PollFails
  <2>2. err \in Errors
    BY ReadErrorTypes DEF Purposes
  <2>. QED  BY <1>1, <1>2, <1>4, <2>1, <2>2, NotKnownKeeps, LoopKeeps DEF PollFails
<1>5. CASE PollAnswered
  BY <1>1, <1>5, OtherErrors, NotKnownKeeps, KnownKeeps, LoopKeeps DEF PollAnswered
<1>6. CASE Sleep
  BY <1>1, <1>2, <1>6, NotKnownKeeps, LoopKeeps DEF Sleep
<1>. QED  BY <1>3, <1>4, <1>5, <1>6 DEF Wait

LEMMA StepInv == AdapterInv /\ [Next]_vars => AdapterInv'
<1>. SUFFICES ASSUME AdapterInv, [Next]_vars PROVE AdapterInv'
  OBVIOUS
<1>1. CASE UNCHANGED vars
  BY <1>1 DEF vars, server, AdapterInv, TypeOK, NothingYet, Progress, Refusals, Results,
     Polls, Checked, Managed, MayHappen, OutcomeUncertain
<1>. QED  BY <1>1, SubmitKeeps, WaitKeeps, WorldKeeps DEF Next

\* The inductive invariant holds whatever PVE, the network, the deadlines and the
\* ends of workers do.
THEOREM AdapterInvariance == Spec => []AdapterInv
<1>. QED  BY InitInv, StepInv, PTL DEF Spec

\* adapter.go 62-65: whatever fails, an error of Submit that counts as certain, and
\* one that says Retryable, means that PVE never performs the request.
THEOREM CertainErrors == Spec => [](CertainIsHarmless /\ RetryableIsHarmless)
<1>1. AdapterInv => CertainIsHarmless /\ RetryableIsHarmless
  BY DEF AdapterInv, Refusals, CertainIsHarmless, RetryableIsHarmless
<1>. QED  BY <1>1, AdapterInvariance, PTL

\* Every reachable state is well typed.
THEOREM TypeCorrectness == Spec => []TypeOK
<1>1. AdapterInv => TypeOK
  BY DEF AdapterInv
<1>. QED  BY <1>1, AdapterInvariance, PTL

\* adapter.go 57-66: whoever repeats a request because Submit calls its error
\* Retryable never makes PVE perform it twice.
THEOREM RetryableErrors == Spec => []RetryableIsHarmless
<1>1. AdapterInv => RetryableIsHarmless
  BY DEF AdapterInv, Refusals, RetryableIsHarmless
<1>. QED  BY <1>1, AdapterInvariance, PTL

\* HTTPAdapter.Submit 187-207: nothing is sent but for a machine of the pool on the
\* node that was asked for.
THEOREM ManagedOnly == Spec => []OnlyManaged
<1>1. AdapterInv => OnlyManaged
  BY PveAssumption DEF AdapterInv, TypeOK, Progress, Checked, Managed, OnlyManaged,
     RequestRecords
<1>. QED  BY <1>1, AdapterInvariance, PTL
-----------------------------------------------------------------------------
(* Refinement.                                                               *)

\* Submit returns an error: Rejected, Uncertain, an answer of PVE or nothing.
LEMMA NotSubmittedCalls ==
    ASSUME AdapterInv, at \in {"submit", "pool", "ready", "post"},
           NEW err \in Errors, NotSubmitted(err),
           UNCHANGED <<request, task, upid>>,
           \/ wire' = wire
           \/ wire = "sent" /\ task = "none" /\ wire' = "gone"
                /\ ~err.deadline /\ ~OutcomeUncertain(err),
           wire' # "sent" \/ OutcomeUncertain(err)
    PROVE  [Promise!CallNext]_(Promise!callVars)
<1>1. ~upid /\ item = "RUNNING" /\ task \in {"none", "running", "ok", "failed"}
      /\ (task # "none" => wire = "sent") /\ (wire # "none" => request.type # "PRECHECK")
  BY DEF AdapterInv, TypeOK, NothingYet, Progress
<1>2. CASE item' = item
  <2>1. CallState' = CallState \/ (CallState = "sent" /\ CallState' = "refused")
    BY <1>1, <1>2 DEF CallState
  <2>. QED  BY <1>2, <2>1 DEF Promise!callVars, Promise!CallNext, Promise!PveAnswers
<1>3. CASE item' = "UNKNOWN"
  <2>1. CallState' = CallState
    BY <1>1, <1>3 DEF CallState, NotSubmitted
  <2>. QED  BY <1>1, <1>3, <2>1 DEF Promise!CallNext, Promise!Uncertain
<1>4. CASE item' = "FAILED"
  <2>1. wire' # "sent" /\ task = "none"
    BY <1>1, <1>4 DEF NotSubmitted
  <2>2. CallState \in {"sent", "refused"} /\ CallState' = "refused"
    BY <1>1, <1>4, <2>1 DEF CallState
  <2>. QED  BY <1>1, <1>4, <2>2 DEF Promise!CallNext, Promise!Rejected
<1>. QED  BY <1>2, <1>3, <1>4 DEF NotSubmitted

\* The calls of Wait: the UPID is that of a task, whose result is saved.
LEMMA ResultCalls ==
    ASSUME AdapterInv, upid, item = "WAITING_PVE",
           UNCHANGED <<request, task, wire, upid>>,
           \/ item' \in {"WAITING_PVE", "UNKNOWN"}
           \/ request.type = "PRECHECK" /\ item' = "SUCCEEDED"
           \/ /\ request.type # "PRECHECK"
              /\ item' \in {"SUCCEEDED", "FAILED"}
              /\ task = IF item' = "SUCCEEDED" THEN "ok" ELSE "failed"
    PROVE  [Promise!CallNext]_(Promise!callVars)
<1>1. CASE item' \in {"WAITING_PVE", "UNKNOWN"}
  <2>1. CallState' = CallState
    BY <1>1 DEF CallState
  <2>. QED  BY <1>1, <2>1 DEF Promise!callVars, Promise!CallNext, Promise!Uncertain
<1>2. CASE request.type = "PRECHECK" /\ item' = "SUCCEEDED"
  <2>1. CallState = "running" /\ CallState' = "ok"
    BY <1>2 DEF CallState
  <2>. QED  BY <1>2, <2>1 DEF Promise!CallNext, Promise!Ended
<1>3. CASE /\ request.type # "PRECHECK"
           /\ item' \in {"SUCCEEDED", "FAILED"}
           /\ task = IF item' = "SUCCEEDED" THEN "ok" ELSE "failed"
  <2>1. CallState = task /\ CallState' = task
    BY <1>3 DEF CallState
  <2>. QED  BY <1>3, <2>1 DEF Promise!CallNext, Promise!Ended
<1>. QED  BY <1>1, <1>2, <1>3

\* A UPID is handed over: of a task PVE has, or of a precheck that now begins.
LEMMA SubmittedCalls ==
    ASSUME AdapterInv, Submitted, ~upid, item = "RUNNING",
           UNCHANGED <<request, task, wire>>,
           request.type = "PRECHECK" \/ task # "none"
    PROVE  [Promise!CallNext]_(Promise!callVars)
<1>1. CASE ctx = "cancelled"
  BY <1>1 DEF Submitted, CallState, Promise!callVars
<1>2. CASE ctx # "cancelled"
  <2>1. item' = "WAITING_PVE" /\ upid'
    BY <1>2 DEF Submitted
  <2>2. /\ CallState # "refused"
        /\ CallState' = IF CallState = "sent" THEN "running" ELSE CallState
    BY <2>1 DEF CallState, AdapterInv, TypeOK
  <2>. QED  BY <2>1, <2>2 DEF Promise!CallNext, Promise!Accepted
<1>. QED  BY <1>1, <1>2

LEMMA SubmitCalls ==
    ASSUME AdapterInv, Submit
    PROVE  [Promise!CallNext]_(Promise!callVars)
<1>1. ~upid /\ item = "RUNNING"
  BY DEF AdapterInv, NothingYet, Progress, Submit, Check, PoolFails, Resolve, Precheck,
     Post, PostLost, PostRefused, PostAnswered
<1>2. CASE Check
  BY <1>2, OtherErrors, NotSubmittedCalls
     DEF Check, server, AdapterInv, NothingYet, CallState, Promise!callVars
<1>3. CASE PoolFails
  <2>1. PICK err \in ReadErrors("preflight") : NotSubmitted(err)
    BY <1>3 DEF PoolFails
  <2>2. err \in Errors
    BY ReadErrorTypes DEF Purposes
  <2>. QED  BY <1>3, <2>1, <2>2, NotSubmittedCalls
            DEF PoolFails, server, AdapterInv, NothingYet
<1>4. CASE Resolve
  BY <1>4, OtherErrors, NotSubmittedCalls
     DEF Resolve, server, AdapterInv, NothingYet, CallState, Promise!callVars
<1>5. CASE Precheck
  BY <1>1, <1>5, SubmittedCalls DEF Precheck, server
<1>6. CASE Post
  <2>1. ContextError(FALSE, FALSE) \in Errors
    BY ErrorTypes DEF Purposes
  <2>2. CASE ctx = "live"
    BY <1>1, <1>6, <2>2 DEF Post, AdapterInv, NothingYet, TypeOK, CallState,
       Promise!callVars
  <2>3. CASE ctx # "live"
    BY <1>6, <2>1, <2>3, NotSubmittedCalls DEF Post, AdapterInv, NothingYet
  <2>. QED  BY <2>2, <2>3
<1>7. CASE PostLost
  BY <1>7, LostErrors, NotSubmittedCalls DEF PostLost, server
<1>8. CASE PostRefused
  BY <1>8, RefusedErrors, NotSubmittedCalls
     DEF PostRefused, AdapterInv, TypeOK, Progress
<1>9. CASE PostAnswered
  BY <1>1, <1>9, OtherErrors, NotSubmittedCalls, SubmittedCalls DEF PostAnswered, server
<1>. QED  BY <1>2, <1>3, <1>4, <1>5, <1>6, <1>7, <1>8, <1>9 DEF Submit

LEMMA WaitCalls ==
    ASSUME AdapterInv, Wait
    PROVE  [Promise!CallNext]_(Promise!callVars)
<1>1. upid /\ item = "WAITING_PVE"
  BY DEF AdapterInv, Polls, Wait, Ask, PollFails, PollAnswered, Sleep
<1>2. UNCHANGED <<request, task, wire, upid>>
  BY DEF Wait, Ask, PollFails, PollAnswered, Sleep, server
<1>3. CASE PollAnswered
  BY <1>1, <1>2, <1>3, ResultCalls DEF PollAnswered, NotKnown, Known
<1>4. CASE Ask \/ PollFails \/ Sleep
  <2>1. item' \in {"WAITING_PVE", "UNKNOWN"}
    BY <1>1, <1>4 DEF Ask, PollFails, Sleep, NotKnown
  <2>. QED  BY <1>1, <1>2, <2>1, ResultCalls
<1>. QED  BY <1>3, <1>4 DEF Wait

LEMMA WorldCalls ==
    ASSUME AdapterInv, Expire \/ Cancel \/ PveTakes \/ PveEnds
    PROVE  [Promise!CallNext]_(Promise!callVars)
<1>1. CASE Expire \/ Cancel
  BY <1>1 DEF Expire, Cancel, server, CallState, Promise!callVars
<1>2. CASE PveTakes
  BY <1>2 DEF PveTakes, AdapterInv, TypeOK, Progress, Refusals, MayHappen, Results,
     CallState, Promise!CallNext, Promise!PveAnswers
<1>3. CASE PveEnds
  BY <1>3 DEF PveEnds, AdapterInv, TypeOK, Progress, CallState, Promise!CallNext,
     Promise!PveAnswers
<1>. QED  BY <1>1, <1>2, <1>3

LEMMA StepCalls == AdapterInv /\ [Next]_vars => [Promise!CallNext]_(Promise!callVars)
<1>. SUFFICES ASSUME AdapterInv, [Next]_vars
              PROVE  [Promise!CallNext]_(Promise!callVars)
  OBVIOUS
<1>1. CASE UNCHANGED vars
  BY <1>1 DEF vars, server, CallState, Promise!callVars
<1>. QED  BY <1>1, SubmitCalls, WaitCalls, WorldCalls DEF Next

\* runner.go 226-303: the adapter with the classification of the runner is the PVE
\* of OperationRunner; in particular FAILED without a UPID means that PVE will never
\* perform the request, and a result is that of the task.
THEOREM CallRefinement == Spec => IsPveCall
<1>1. Init => Promise!CallInit
  BY DEF Init, CallState, Promise!CallInit
<1>. QED  BY <1>1, StepCalls, AdapterInvariance, PTL
          DEF Spec, IsPveCall, Promise!CallSpec
=============================================================================
