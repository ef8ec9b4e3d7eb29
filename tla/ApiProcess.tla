----------------------------- MODULE ApiProcess -----------------------------
(***************************************************************************)
(* The life of the API process: run in server/cmd/api/main.go, the loop of *)
(* the embedded worker (operations/runner.go, Run and drain) and the       *)
(* handlers of httpapi, which share one context and one repository.        *)
(*                                                                         *)
(* A call of the repository or of PVE ends with an error once its context  *)
(* is done.  A call that succeeds at that very moment is taken to have     *)
(* ended before.  http.Server, signal.NotifyContext and pgxpool are        *)
(* external: Shutdown closes the listener, waits for the requests and      *)
(* gives up when its context is done; closing the pool refuses new calls   *)
(* and waits for those under way.                                          *)
(***************************************************************************)
CONSTANT Requests   \* the connections that may be served at the same time

VARIABLES
    config,      \* whether there is an embedded worker; the kind of the store
    main,        \* how far run is
    signalled,   \* signalContext is done
    cancelled,   \* cancel was called
    late,        \* shutdownContext is done
    cause,       \* which case of the first select was taken
    exit,        \* what run returned
    server,      \* the goroutine of ListenAndServe
    worker,      \* the goroutine of Runner.Run
    request,     \* the handler of each connection
    repository   \* open, or closed by the deferred call

vars == <<config, main, signalled, cancelled, late, cause, exit,
          server, worker, request, repository>>
-----------------------------------------------------------------------------
\* ctx, the context of the worker ...
CtxDone == signalled \/ cancelled

\* Mutation: the context of a request knows nothing of ctx.
Mut_NoBaseContext == FALSE

\* ... and, by BaseContext, of every request.
RequestCtxDone == CtxDone

Alive == main # "exited"

Quiet == \A r \in Requests : request[r] = "none"
WorkerGone == worker \in {"none", "returned"}

\* Somebody is inside a repository call.  (fail saves without a deadline.)
InCall == worker \in {"calling", "failing"} \/ \E r \in Requests : request[r] = "call"
-----------------------------------------------------------------------------
(* run, up to its first select.                                              *)

\* The configuration or the repository cannot be opened: nothing runs yet.
StartFails ==
    /\ main = "opening"
    /\ main' = "exited"
    /\ exit' = "error"
    /\ UNCHANGED <<config, signalled, cancelled, late, cause, server, worker,
                   request, repository>>

\* PostgreSQL is pinged under ctx.
RepositoryOpens ==
    /\ main = "opening"
    /\ config.store = "postgres" => ~CtxDone
    /\ repository' = "open"

\* The repository is open, but not the adapter of the embedded worker: run returns,
\* by its deferred calls.
AdapterFails ==
    /\ RepositoryOpens
    /\ config.embedded
    /\ main' = "closing"
    /\ exit' = "error"
    /\ UNCHANGED <<config, signalled, cancelled, late, cause, server, worker, request>>

\* All is open, and both goroutines start.
StartUp ==
    /\ RepositoryOpens
    /\ main' = "started"
    /\ server' = "starting"
    /\ worker' = IF config.embedded THEN "calling" ELSE "none"
    /\ UNCHANGED <<config, signalled, cancelled, late, cause, exit, request>>

Ready(c) ==
    CASE c = "signal" -> signalled
      [] c = "server" -> server = "failed"
      [] c = "worker" -> worker = "returned"

\* run reaches the select: it takes any case that is ready, or blocks.
Select ==
    /\ main = "started"
    /\ \/ \E c \in {"signal", "server", "worker"} :
            Ready(c) /\ main' = "woken" /\ cause' = c
       \/ /\ \A c \in {"signal", "server", "worker"} : ~Ready(c)
          /\ main' = "select"
          /\ UNCHANGED cause
    /\ UNCHANGED <<config, signalled, cancelled, late, exit, server, worker,
                   request, repository>>

\* Mutation: the select has no case for the signal.
Mut_SignalUnheard(c) ==
    IF main = "select" /\ c # "signal" THEN main' = "woken" /\ cause' = c
                                       ELSE UNCHANGED <<main, cause>>

\* The event that makes a case ready wakes the blocked select with that case.
Wakes(c) ==
    IF main = "select" THEN main' = "woken" /\ cause' = c
                       ELSE UNCHANGED <<main, cause>>
-----------------------------------------------------------------------------
(* run, from the select to its end.                                          *)

\* cancel is called; Shutdown closes the listener, or keeps it from opening.
BeginShutdown ==
    /\ main = "woken"
    /\ main' = "shutdown"
    /\ cancelled' = TRUE
    /\ server' = IF server = "failed" THEN "failed" ELSE "closed"
    /\ UNCHANGED <<config, signalled, late, cause, exit, worker, request, repository>>

\* Mutation: the worker is not waited for.
Mut_WorkerNotAwaited == main' = "closing" /\ exit' = "clean"

\* What follows a graceful Shutdown.
AfterShutdown ==
    IF config.embedded /\ cause # "worker"
    THEN main' = "waiting" /\ UNCHANGED exit
    ELSE main' = "closing" /\ exit' = IF cause = "signal" THEN "clean" ELSE "error"

ShutdownReturns ==
    /\ main = "shutdown"
    /\ Quiet
    /\ AfterShutdown
    /\ UNCHANGED <<config, signalled, cancelled, late, cause, server, worker,
                   request, repository>>

\* workerDone is received; Run only ever returns nil.
WorkerAwaited ==
    /\ main = "waiting"
    /\ worker = "returned"
    /\ main' = "closing"
    /\ exit' = IF cause = "signal" THEN "clean" ELSE "error"
    /\ UNCHANGED <<config, signalled, cancelled, late, cause, server, worker,
                   request, repository>>

\* PVE_SHUTDOWN_TIMEOUT passes, at any time from the start of Shutdown ...
TimerFires ==
    /\ main \in {"shutdown", "waiting"}
    /\ ~late
    /\ late' = TRUE
    /\ UNCHANGED <<config, main, signalled, cancelled, cause, exit, server, worker,
                   request, repository>>

\* ... and run gives up waiting for the requests or for the worker.
GivesUp ==
    /\ main \in {"shutdown", "waiting"}
    /\ late
    /\ main' = "closing"
    /\ exit' = "error"
    /\ UNCHANGED <<config, signalled, cancelled, late, cause, server, worker,
                   request, repository>>

\* The deferred Close.
CloseRepository ==
    /\ main = "closing"
    /\ main' = "closed"
    /\ repository' = "closed"
    /\ UNCHANGED <<config, signalled, cancelled, late, cause, exit, server, worker,
                   request>>

\* Close has returned, which for PostgreSQL means that no call is under way; the
\* process ends with whatever still runs in it.
Exit ==
    /\ main = "closed"
    /\ config.store = "postgres" => ~InCall
    /\ main' = "exited"
    /\ UNCHANGED <<config, signalled, cancelled, late, cause, exit, server, worker,
                   request, repository>>
-----------------------------------------------------------------------------
(* What run waits for.                                                       *)

Signal ==
    /\ Alive
    /\ ~signalled
    /\ signalled' = TRUE
    /\ Wakes("signal")
    /\ UNCHANGED <<config, cancelled, late, exit, server, worker, request, repository>>

Listens ==
    /\ Alive
    /\ server = "starting"
    /\ server' = "listening"
    /\ UNCHANGED <<config, main, signalled, cancelled, late, cause, exit, worker,
                   request, repository>>

\* The address is taken, or accepting connections fails for good.
ServerFails ==
    /\ Alive
    /\ server \in {"starting", "listening"}
    /\ server' = "failed"
    /\ Wakes("server")
    /\ UNCHANGED <<config, signalled, cancelled, late, exit, worker, request, repository>>

WorkerGoes(from, to) ==
    /\ Alive
    /\ worker \in from
    /\ worker' = to
    /\ UNCHANGED <<config, main, signalled, cancelled, late, cause, exit, server,
                   request, repository>>

\* drain and execute call the repository and PVE in turn, as long as ctx lasts ...
WorkerCalls ==
    /\ ~CtxDone
    /\ WorkerGoes({"calling"}, "pve") \/ WorkerGoes({"pve"}, "calling")

\* ... a repository error that is neither a cancellation nor a deadline leads to
\* fail, whose save has no context ...
WorkerErrs == ~CtxDone /\ WorkerGoes({"calling"}, "failing")

\* ... and goes on with the next operation, or ends the drain if it fails as well.
WorkerSavesFailure ==
    \/ WorkerGoes({"failing"}, "calling")
    \/ WorkerGoes({"failing"}, "asleep")

\* Nothing is left to claim, or the claim fails: Run waits for ctx, a wake or a tick ...
WorkerSleeps == ~CtxDone /\ WorkerGoes({"calling"}, "asleep")

WorkerWakes == WorkerGoes({"asleep"}, "calling")

\* ... and returns when ctx is done, or when any error of the drain is a deadline,
\* whoever set it.
WorkerReturns ==
    /\ Alive
    /\ \/ CtxDone /\ worker \in {"calling", "pve", "asleep"}
       \/ worker \in {"calling", "failing"}
    /\ worker' = "returned"
    /\ Wakes("worker")
    /\ UNCHANGED <<config, signalled, cancelled, late, exit, server, request, repository>>
-----------------------------------------------------------------------------
(* Requests.                                                                 *)

RequestGoes(r, from, to) ==
    /\ Alive
    /\ request[r] = from
    /\ request' = [request EXCEPT ![r] = to]
    /\ UNCHANGED <<config, main, signalled, cancelled, late, cause, exit, server,
                   worker, repository>>

Accept(r) == server = "listening" /\ RequestGoes(r, "none", "call")

\* The handler has its answer, or an error, and writes it ...
Answer(r) == RequestGoes(r, "call", "none")

\* ... or, as an event stream, sends frames and sleeps until the next tick.
Stream(r) == ~RequestCtxDone /\ RequestGoes(r, "call", "stream")

Tick(r) == RequestGoes(r, "stream", "call")

\* A stream ends with the context of its request.
Hangup(r) == RequestCtxDone /\ RequestGoes(r, "stream", "none")
-----------------------------------------------------------------------------
Init ==
    /\ config \in [embedded : BOOLEAN, store : {"memory", "postgres"}]
    /\ main = "opening"
    /\ signalled = FALSE /\ cancelled = FALSE /\ late = FALSE
    /\ cause = "none"
    /\ exit = "none"
    /\ server = "none"
    /\ worker = "none"
    /\ request = [r \in Requests |-> "none"]
    /\ repository = "unopened"

Run ==
    \/ StartFails \/ AdapterFails \/ StartUp \/ Select \/ BeginShutdown \/ ShutdownReturns
    \/ WorkerAwaited \/ GivesUp \/ CloseRepository \/ Exit

Work ==
    \/ WorkerCalls \/ WorkerErrs \/ WorkerSavesFailure \/ WorkerSleeps
    \/ WorkerWakes \/ WorkerReturns

Handle(r) == Answer(r) \/ Stream(r) \/ Tick(r) \/ Hangup(r)

Next ==
    \/ Run \/ Work \/ Signal \/ Listens \/ ServerFails \/ TimerFires
    \/ \E r \in Requests : Accept(r) \/ Handle(r)

\* Goroutines run, every call ends, and a call under a context that is done fails.
\* Nothing is assumed of the shutdown timer: whoever is told to end must not need it.
Fairness ==
    /\ WF_vars(Run)
    /\ WF_vars(Work)
    /\ \A r \in Requests : WF_vars(Handle(r))

Spec == Init /\ [][Next]_vars /\ Fairness
-----------------------------------------------------------------------------
\* Every variable has the values the code gives it.
TypeOK ==
    /\ config \in [embedded : BOOLEAN, store : {"memory", "postgres"}]
    /\ main \in {"opening", "started", "select", "woken", "shutdown", "waiting",
                 "closing", "closed", "exited"}
    /\ signalled \in BOOLEAN /\ cancelled \in BOOLEAN /\ late \in BOOLEAN
    /\ cause \in {"none", "signal", "server", "worker"}
    /\ exit \in {"none", "clean", "error"}
    /\ server \in {"none", "starting", "listening", "failed", "closed"}
    /\ worker \in {"none", "calling", "pve", "failing", "asleep", "returned"}
    /\ request \in [Requests -> {"none", "call", "stream"}]
    /\ repository \in {"unopened", "open", "closed"}

\* main.go 103-118: the repository is closed under nobody's hands, neither a
\* request's nor the worker's, unless the shutdown timed out, which is reported.
LeavesNobodyBehind ==
    repository = "closed" =>
        \/ Quiet /\ WorkerGone
        \/ late /\ exit = "error"

\* main.go 95-100: a worker that ends because the process was told to end is not
\* taken for one that "stopped unexpectedly".  (Before run has reached the select a
\* signal can make two cases ready at once, and any of them is taken.)
WorkerIsBlamedRightly ==
    [][cause' # cause /\ cause' = "worker" /\ main = "select" => ~CtxDone]_vars

\* A process that is told to end, cannot listen, or has lost its worker ends, and
\* needs no timeout for it: every stream and the worker notice by themselves.
ProcessEnds ==
    (signalled \/ server = "failed" \/ worker = "returned") ~> main = "exited"
=============================================================================
